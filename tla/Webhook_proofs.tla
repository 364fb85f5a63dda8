---------------------------- MODULE Webhook_proofs ----------------------------
(***************************************************************************)
(* Proofs about Webhook, for any workers, sends, payloads and faults: what *)
(* Meta reports is handled to its end, an item resolves the call once, an  *)
(* answer of the recipient is not lost, and nobody else's counts.          *)
(***************************************************************************)
EXTENDS Webhook, TLAPS, FiniteSetTheorems

-----------------------------------------------------------------------------
(* The conditions of the theorems.                                         *)

\* Administrators edit one after the other: no edit is under way when the
\* contact changes, but the one that commits.
SerialEdits == contact' # contact => \A a \in Admins : editing'[a] = Idle
SerialSpec == Init /\ [][Next /\ SerialEdits]_vars

\* Every tap quotes the notice it answers.
TapsQuote == \A i \in Items : i.type = "tap" => i.quotes

\* Meta reports an item in one payload.
OnePayloadEach ==
  \A p, q \in Payloads : \A m \in 1..Len(p), n \in 1..Len(q) : p[m] = q[n] => p = q

-----------------------------------------------------------------------------
(* The invariant of the sends, the run's head and the workers.             *)

Busy(w) == work[w].pc # "idle"
Handles(w) == work[w].pc \in Handling
Edit == [row: Contact \cup {NoContact}, phone: Phones, active: BOOLEAN, version: Nat]
SendState ==
  [pc: {"idle", "addressed", "sent", "refused", "audited", "saved", "over"},
   to: Recipient, out: BOOLEAN, audited: BOOLEAN]
LogState == [last: {"none", "early", "ignored", "applied"}, applied: Nat]

\* A gate is a notice's, and open.
Waits(h) == h.waiting => h.notice \in Sends /\ h.outcome = "none"

\* The ids of the contact's rows, old and new, are the first numbers.
Ids == {r[1] : r \in rows}

ContactTyped ==
  /\ contact \in Contact \cup {NoContact}
  /\ contact # NoContact => contact.id \in Ids
  /\ \E n \in Nat : Ids = 1..n
  /\ editing \in [Admins -> Edit \cup {Idle}]
  /\ rows \subseteq (Nat \X Nat \X Phones)

RunTyped ==
  /\ send \in [Sends -> SendState]
  /\ head \in Snapshot /\ Waits(head)

WorkTyped ==
  /\ claims \subseteq Items
  /\ work \in [Workers -> Work \cup {Idle}]
  /\ meta \in [Payloads -> {"new", "pending", "acked"}]
  /\ log \in [Items -> LogState]
  /\ met \subseteq (Items \X (Sends \cup {NoNotice}))
  /\ faults \in Nat /\ crashes \in Nat /\ timeouts \in Nat

Typed == ContactTyped /\ RunTyped /\ WorkTyped

\* What has reached Meta was taken by it, and while no instance is lost a
\* send that is over has its audit row.
SendOK ==
  \A s \in Sends :
    /\ send[s].pc \in {"idle", "addressed", "refused"} => ~send[s].out
    /\ send[s].pc \in {"audited", "saved"} => send[s].audited
    /\ send[s].pc = "over" /\ send[s].out /\ crashes = 0 => send[s].audited

\* The notice was the head of the run at some time.
Posted(s) == s = NoNotice \/ send[s].pc \in {"saved", "over"}

\* And a snapshot with its gate was taken when its send was over.
Seen(h) == Posted(h.notice) /\ Waits(h) /\ (h.waiting => send[h.notice].pc = "over")

\* An item that was judged to count: a failure or a tap, of the notice seen.
Counted(i, saw) ==
  /\ saw.waiting /\ i.type \in {"failed", "tap"}
  /\ i.type = "failed" \/ i.quotes => i.notice = saw.notice

WorkOK(w) ==
  Busy(w) =>
    /\ Handles(w) => work[w].i \in 1..Len(work[w].payload) /\ ItemOf(w) \in claims
    /\ Posted(work[w].loaded) /\ Seen(work[w].saw)
    /\ \A j \in 1..Len(work[w].payload) : send[work[w].payload[j].notice].out
    /\ At(w, "judge") => ItemOf(w).type \in {"failed", "tap"}
    /\ At(w, "resume") \/ At(w, "running") => Counted(ItemOf(w), work[w].saw)
    /\ At(w, "audit") => log[ItemOf(w)].last # "none"

\* An item is in the hands of one worker (claim_once).
Exclusive == \A v, w \in Workers : v # w /\ Handles(v) /\ Handles(w) => ItemOf(v) # ItemOf(w)

WebInv == Typed /\ SendOK /\ Seen(head) /\ (\A w \in Workers : WorkOK(w)) /\ Exclusive

\* What no step takes back: how far a send has come, and what was handled.
Grows ==
  /\ \A s \in Sends :
       /\ send[s].pc \in {"saved", "over"} => send'[s].pc \in {"saved", "over"}
       /\ send[s].pc = "over" => send'[s].pc = "over"
       /\ send[s].out => send'[s].out
       /\ send[s].pc # "idle" => send'[s].pc # "idle" /\ send'[s].to = send[s].to
  /\ \A i \in Items : log[i].last # "none" => log'[i].last # "none"

\* A worker that does not move; Meta may have given up on its response.
Still(w) == work'[w] = work[w] \/ (Busy(w) /\ work'[w] = [work[w] EXCEPT !.late = TRUE])

-----------------------------------------------------------------------------
(* Workers and their items.                                                *)

\* A worker that does not move keeps its item and all it knows of it.
LEMMA StillSame ==
  ASSUME WorkTyped, NEW w \in Workers, Still(w)
  PROVE  /\ work'[w].pc = work[w].pc /\ work'[w].payload = work[w].payload
         /\ work'[w].i = work[w].i /\ work'[w].saw = work[w].saw
         /\ work'[w].early = work[w].early /\ work'[w].loaded = work[w].loaded
         /\ ItemOf(w)' = ItemOf(w) /\ Busy(w)' = Busy(w) /\ Handles(w)' = Handles(w)
         /\ \A pc : At(w, pc)' = At(w, pc)
<1>1. /\ work'[w].pc = work[w].pc /\ work'[w].payload = work[w].payload
      /\ work'[w].i = work[w].i /\ work'[w].saw = work[w].saw
      /\ work'[w].early = work[w].early /\ work'[w].loaded = work[w].loaded
  <2>1. CASE work'[w] = work[w]
    BY <2>1
  <2>2. CASE Busy(w) /\ work'[w] = [work[w] EXCEPT !.late = TRUE]
    <3>1. work[w] \in Work
      BY <2>2 DEF Busy, WorkTyped, Idle
    <3> QED
      BY <2>2, <3>1 DEF Work
  <2> QED
    BY <2>1, <2>2 DEF Still
<1> QED
  BY <1>1 DEF ItemOf, Busy, Handles, At

\* A busy worker has a record of Work, and its payload a sequence of items.
LEMMA BusyWork ==
  ASSUME WorkTyped, NEW w \in Workers, Busy(w)
  PROVE  /\ work[w] \in Work
         /\ work[w].payload \in Payloads /\ work[w].payload \in Seq(Items)
         /\ work[w].i \in Nat \ {0} /\ Len(work[w].payload) \in Nat
         /\ work[w].i \in 1..Len(work[w].payload) => ItemOf(w) \in Items
<1>1. work[w] \in Work
  BY DEF Busy, WorkTyped, Idle
<1>2. work[w].payload \in Payloads /\ work[w].i \in Nat \ {0}
  BY <1>1 DEF Work
<1>3. work[w].payload \in Seq(Items)
  BY <1>2, PayloadsAssumption DEF PayloadsAssumption
<1> QED
  BY <1>1, <1>2, <1>3 DEF ItemOf

\* What a worker in the middle of an item has in hand.
LEMMA InHand ==
  ASSUME WebInv, NEW w \in Workers, Handles(w)
  PROVE  /\ Busy(w) /\ work[w] \in Work
         /\ work[w].payload \in Payloads /\ Len(work[w].payload) \in Nat
         /\ work[w].i \in 1..Len(work[w].payload)
         /\ ItemOf(w) \in Items /\ ItemOf(w) \in Item /\ ItemOf(w).notice \in Sends
         /\ ItemOf(w) \in claims /\ send[ItemOf(w).notice].out
<1>1. Busy(w) /\ WorkOK(w) /\ WorkTyped
  BY DEF Handles, Handling, Busy, WebInv, Typed
<1>2. work[w].i \in 1..Len(work[w].payload) /\ ItemOf(w) \in claims
  BY <1>1 DEF WorkOK
<1>3. ItemOf(w) \in Items /\ work[w] \in Work
  BY <1>1, <1>2, BusyWork
<1>4. ItemOf(w) \in Item /\ ItemOf(w).notice \in Sends
  BY <1>3, ItemsAssumption DEF ItemsAssumption, Item
<1>5. send[ItemOf(w).notice].out
  BY <1>1, <1>2 DEF WorkOK, ItemOf
<1> QED
  BY <1>1, <1>2, <1>3, <1>4, <1>5, BusyWork

\* A step that gives one worker a new record.
LEMMA SetWork ==
  ASSUME WorkTyped, NEW w \in Workers, NEW r \in Work \cup {Idle}, work' = [work EXCEPT ![w] = r]
  PROVE  /\ work' \in [Workers -> Work \cup {Idle}]
         /\ work'[w] = r /\ \A v \in Workers \ {w} : work'[v] = work[v] /\ Still(v)
  BY DEF WorkTyped, Still

\* On to the next line of the handler.
LEMMA GotoSets ==
  ASSUME WorkTyped, NEW w \in Workers, Busy(w), NEW p \in Handling \cup {"claim"}, Goto(w, p)
  PROVE  /\ work' \in [Workers -> Work \cup {Idle}]
         /\ \A v \in Workers \ {w} : work'[v] = work[v] /\ Still(v)
         /\ work'[w] \in Work /\ work'[w].pc = p
         /\ work'[w].payload = work[w].payload /\ work'[w].i = work[w].i
         /\ work'[w].saw = work[w].saw /\ work'[w].early = work[w].early
         /\ work'[w].loaded = work[w].loaded /\ ItemOf(w)' = ItemOf(w)
<1> DEFINE r == [work[w] EXCEPT !.pc = p]
<1>1. work[w] \in Work
  BY BusyWork
<1>2. r \in Work /\ r.pc = p /\ r.payload = work[w].payload /\ r.i = work[w].i
      /\ r.saw = work[w].saw /\ r.early = work[w].early /\ r.loaded = work[w].loaded
  BY <1>1 DEF Work
<1>3. work' = [work EXCEPT ![w] = r]
  BY DEF Goto
<1> HIDE DEF r
<1>4. /\ work' \in [Workers -> Work \cup {Idle}]
      /\ work'[w] = r /\ \A v \in Workers \ {w} : work'[v] = work[v] /\ Still(v)
  BY <1>2, <1>3, SetWork
<1> QED
  BY <1>2, <1>4 DEF ItemOf

\* On to the next item of the payload.
LEMMA NextItemSets ==
  ASSUME WorkTyped, NEW w \in Workers, Busy(w), NextItem(w)
  PROVE  /\ work' \in [Workers -> Work \cup {Idle}]
         /\ \A v \in Workers \ {w} : work'[v] = work[v] /\ Still(v)
         /\ work'[w] \in Work /\ work'[w].pc = "claim"
         /\ work'[w].payload = work[w].payload /\ work'[w].i = work[w].i + 1
         /\ work'[w].saw = work[w].saw /\ work'[w].loaded = work[w].loaded
<1> DEFINE r == [work[w] EXCEPT !.pc = "claim", !.i = @ + 1]
<1>1. work[w] \in Work
  BY BusyWork
<1>2. r \in Work /\ r.pc = "claim" /\ r.payload = work[w].payload /\ r.i = work[w].i + 1
      /\ r.saw = work[w].saw /\ r.loaded = work[w].loaded
  <2>1. PICK i \in Nat \ {0} : i = work[w].i /\ i + 1 \in Nat \ {0}
    BY BusyWork
  <2>2. r = [work[w] EXCEPT !.pc = "claim", !.i = i + 1]
    BY <2>1
  <2> QED
    BY <1>1, <2>1, <2>2 DEF Work
<1>3. work' = [work EXCEPT ![w] = r]
  BY DEF NextItem
<1> HIDE DEF r
<1>4. /\ work' \in [Workers -> Work \cup {Idle}]
      /\ work'[w] = r /\ \A v \in Workers \ {w} : work'[v] = work[v] /\ Still(v)
  BY <1>2, <1>3, SetWork
<1> QED
  BY <1>2, <1>4

-----------------------------------------------------------------------------
(* What the rest keeps while one worker moves.                             *)

\* What was posted stays so, and a snapshot stays one.
LEMMA SeenStays ==
  ASSUME Grows, NEW h \in Snapshot, Seen(h)
  PROVE  Seen(h)'
<1>1. h.notice \in Sends \cup {NoNotice}
  BY DEF Snapshot
<1>2. Posted(h.notice)'
  BY <1>1 DEF Seen, Posted, Grows
<1>3. h.waiting => send'[h.notice].pc = "over"
  BY DEF Seen, Waits, Grows
<1> QED
  BY <1>2, <1>3 DEF Seen, Waits

\* The others keep what they know.
LEMMA OtherWorkers ==
  ASSUME WebInv, Grows, NEW v \in Workers, Still(v),
         Handles(v) => ItemOf(v) \in claims'
  PROVE  WorkOK(v)'
<1> SUFFICES ASSUME Busy(v) PROVE WorkOK(v)'
  BY StillSame DEF WorkOK, WebInv, Typed
<1>1. /\ work'[v].pc = work[v].pc /\ work'[v].payload = work[v].payload
      /\ work'[v].i = work[v].i /\ work'[v].saw = work[v].saw
      /\ work'[v].loaded = work[v].loaded
      /\ ItemOf(v)' = ItemOf(v) /\ Handles(v)' = Handles(v)
      /\ \A pc : At(v, pc)' = At(v, pc)
  BY StillSame DEF WebInv, Typed
<1>2. /\ work[v] \in Work /\ work[v].saw \in Snapshot
      /\ work[v].loaded \in Sends \cup {NoNotice} /\ work[v].payload \in Seq(Items)
  <2>1. WorkTyped
    BY DEF WebInv, Typed
  <2>2. work[v] \in Work /\ work[v].payload \in Seq(Items)
    BY <2>1, BusyWork
  <2> QED
    BY <2>2 DEF Work
<1>3. WorkOK(v)
  BY DEF WebInv
<1>4. Handles(v)' => work'[v].i \in 1..Len(work'[v].payload) /\ ItemOf(v)' \in claims'
  BY <1>1, <1>3 DEF WorkOK
<1>5. Posted(work[v].loaded)'
  <2>1. PICK s \in Sends \cup {NoNotice} : s = work[v].loaded /\ Posted(s)
    BY <1>2, <1>3 DEF WorkOK
  <2>2. Posted(s)'
    BY <2>1 DEF Posted, Grows
  <2> QED
    BY <1>1, <2>1, <2>2 DEF Posted
<1>6. Seen(work[v].saw)'
  <2>1. PICK h \in Snapshot : h = work[v].saw /\ Seen(h)
    BY <1>2, <1>3 DEF WorkOK
  <2>2. Seen(h)'
    BY <2>1, SeenStays
  <2> QED
    BY <1>1, <2>1, <2>2 DEF Seen, Posted
<1>7. \A j \in 1..Len(work[v].payload) : send'[work[v].payload[j].notice].out
  <2> SUFFICES ASSUME NEW j \in 1..Len(work[v].payload)
               PROVE  send'[work[v].payload[j].notice].out
    OBVIOUS
  <2>1. work[v].payload[j].notice \in Sends
    BY <1>2, ItemsAssumption DEF ItemsAssumption, Item
  <2> QED
    BY <1>3, <2>1 DEF WorkOK, Grows
<1>8. At(v, "resume") \/ At(v, "running") => Counted(ItemOf(v), work[v].saw)
  BY <1>3 DEF WorkOK
<1>9. At(v, "audit") => log'[ItemOf(v)].last # "none"
  BY <1>3, InHand DEF WorkOK, Grows, Handles, Handling, At
<1> QED
  BY <1>1, <1>3, <1>4, <1>5, <1>6, <1>7, <1>8, <1>9 DEF WorkOK, Posted, Counted

\* A step of one worker.
LEMMA WorkerStep ==
  ASSUME WebInv, Typed', Grows, SendOK', Seen(head)', NEW w \in Workers, WorkOK(w)',
         \A v \in Workers \ {w} : Still(v) /\ (Handles(v) => ItemOf(v) \in claims'),
         Handles(w)' => \A v \in Workers \ {w} : Handles(v) => ItemOf(v) # ItemOf(w)'
  PROVE  WebInv'
<1>1. \A v \in Workers : WorkOK(v)'
  BY OtherWorkers
<1>2. \A v \in Workers \ {w} : ItemOf(v)' = ItemOf(v) /\ Handles(v)' = Handles(v)
  BY StillSame DEF WebInv, Typed
<1>3. Exclusive'
  BY <1>2 DEF Exclusive, WebInv
<1> QED
  BY <1>1, <1>3 DEF WebInv

\* A step of no worker.
LEMMA NoWorkerStep ==
  ASSUME WebInv, Typed', Grows, SendOK', Seen(head)', UNCHANGED <<work, claims>>
  PROVE  WebInv'
<1>1. \A v \in Workers : Still(v) /\ (Handles(v) => ItemOf(v) \in claims')
  BY InHand DEF Still
<1>2. \A v \in Workers : WorkOK(v)'
  BY <1>1, OtherWorkers
<1>3. Exclusive'
  BY DEF Exclusive, WebInv, Handles, ItemOf
<1> QED
  BY <1>2, <1>3 DEF WebInv

\* A worker whose step leaves the sends and the head alone.
LEMMA RunStays ==
  ASSUME WebInv, UNCHANGED <<send, head, crashes>>
  PROVE  RunTyped' /\ SendOK' /\ Seen(head)'
  BY DEF WebInv, Typed, RunTyped, SendOK, Seen, Posted, Waits

-----------------------------------------------------------------------------
(* The steps of the contact, the sends and the timer.                      *)

\* The invariant holds at first.
LEMMA WebInit ==
  ASSUME Init
  PROVE  WebInv
<1>1. ContactTyped
  <2>1. PICK p \in Phones : contact = [id |-> 1, version |-> 0, phone |-> p, active |-> TRUE]
    BY DEF Init
  <2>2. contact \in Contact /\ contact.id = 1 /\ rows = {<<1, 0, p>>}
    BY <2>1 DEF Init, Contact
  <2>3. Ids = 1..1
    BY <2>2 DEF Ids
  <2>4. contact.id \in Ids /\ 1 \in Nat
    BY <2>2, <2>3
  <2> QED
    BY <2>2, <2>3, <2>4 DEF Init, ContactTyped
<1>2. RunTyped
  BY PhonesAssumption DEF Init, RunTyped, PhonesAssumption, SendState, Recipient, Snapshot, Waits, NoNotice
<1>3. WorkTyped
  BY DEF Init, WorkTyped, LogState
<1>4. SendOK
  BY DEF Init, SendOK
<1>5. Seen(head)
  BY DEF Init, Seen, Posted, Waits, NoNotice
<1>6. \A w \in Workers : ~Busy(w) /\ ~Handles(w)
  BY DEF Init, Idle, Busy, Handles, Handling
<1> QED
  BY <1>1, <1>2, <1>3, <1>4, <1>5, <1>6 DEF WebInv, Typed, WorkOK, Exclusive

\* Contacts are edited.
ContactStep(a) == ReadContact(a) \/ CommitContact(a) \/ RemoveContact(a)

\* An edit changes the contact, the edits under way and the rows, and they
\* stay of their types.
LEMMA ContactTypes ==
  ASSUME WebInv, NEW a \in Admins, ContactStep(a)
  PROVE  /\ ContactTyped'
         /\ UNCHANGED <<send, head, claims, work, meta, log, met, faults, crashes, timeouts>>
<1>0. ContactTyped
  BY DEF WebInv, Typed
<1>1. UNCHANGED <<send, head, claims, work, meta, log, met, faults, crashes, timeouts>>
  BY DEF ContactStep, ReadContact, CommitContact, RemoveContact, run, bounds
<1>2. CASE ReadContact(a)
  <2>1. PICK phone \in Phones, active \in BOOLEAN, now \in Times :
          editing' = [editing EXCEPT ![a] =
            [row |-> contact, phone |-> phone, active |-> active,
             version |-> NextUpdateTime(contact, now)]]
    BY <1>2 DEF ReadContact
  <2>2. NextUpdateTime(contact, now) \in Nat
    <3>1. now \in Nat /\ (contact # NoContact => contact.version \in Nat)
      BY <1>0, TimesAssumption DEF TimesAssumption, ContactTyped, Contact
    <3> QED
      BY <3>1 DEF NextUpdateTime
  <2>3. [row |-> contact, phone |-> phone, active |-> active,
         version |-> NextUpdateTime(contact, now)] \in Edit
    BY <1>0, <2>2 DEF ContactTyped, Edit
  <2>4. contact' = contact /\ rows' = rows
    BY <1>2 DEF ReadContact
  <2> QED
    BY <1>0, <1>1, <2>1, <2>3, <2>4 DEF ContactTyped, Ids
<1>3. CASE CommitContact(a)
  <2> DEFINE e == editing[a]
             id == 1 + Cardinality(Ids)
  <2>1. e \in Edit /\ editing' \in [Admins -> Edit \cup {Idle}]
    BY <1>0, <1>3 DEF CommitContact, ContactTyped
  <2>2. PICK n \in Nat : Ids = 1..n
    BY <1>0 DEF ContactTyped
  <2>3. id = n + 1
    <3>1. Cardinality(1..n) = n
      BY FS_Interval
    <3> QED
      BY <2>2, <3>1
  <2> HIDE DEF id
  <2>4. /\ contact' \in Contact \cup {NoContact}
        /\ contact' # NoContact => contact'.id \in 1..n \/ contact'.id = n + 1
    <3>1. CASE contact' = [id |-> id, version |-> e.version, phone |-> e.phone, active |-> e.active]
      BY <2>1, <2>2, <2>3, <3>1 DEF Edit, Contact
    <3>2. CASE contact # NoContact /\ contact' = Written(e, contact)
      <4>1. contact \in Contact /\ contact.id \in 1..n
        BY <1>0, <2>2, <3>2 DEF ContactTyped
      <4> QED
        BY <2>1, <3>2, <4>1 DEF Written, Edit, Contact
    <3>3. CASE contact' = contact
      BY <1>0, <2>2, <3>3 DEF ContactTyped
    <3>4. \/ contact' = [id |-> id, version |-> e.version, phone |-> e.phone, active |-> e.active]
          \/ e.row # NoContact /\ contact.id = e.row.id /\ contact' = Written(e, contact)
          \/ contact' = contact
      BY <1>3, Zenon DEF CommitContact, Ids, id
    <3>5. e.row # NoContact /\ contact.id = e.row.id => contact # NoContact
      BY <2>1 DEF Edit, Contact, NoContact
    <3> QED
      BY <3>1, <3>2, <3>3, <3>4, <3>5
  <2>5. CASE contact' = NoContact
    <3>1. rows' = rows /\ Ids' = Ids
      BY <1>3, <2>5 DEF CommitContact, Ids
    <3>2. contact' \in Contact \cup {NoContact} /\ (contact' # NoContact => contact'.id \in Ids')
      BY <2>5
    <3>3. rows' \subseteq (Nat \X Nat \X Phones) /\ Ids' = 1..n
      BY <1>0, <2>2, <3>1 DEF ContactTyped
    <3> QED
      BY <1>1, <2>1, <2>2, <3>2, <3>3 DEF ContactTyped
  <2>6. CASE contact' # NoContact
    <3>1. rows' = rows \cup {<<contact'.id, contact'.version, contact'.phone>>}
      BY <1>3, <2>6 DEF CommitContact
    <3>2. contact' \in Contact
      BY <2>4, <2>6
    <3>3. rows' \subseteq (Nat \X Nat \X Phones)
      BY <1>0, <3>1, <3>2 DEF ContactTyped, Contact
    <3>4. Ids' = Ids \cup {contact'.id}
      <4>1. <<contact'.id, contact'.version, contact'.phone>>[1] = contact'.id
        OBVIOUS
      <4> QED
        BY <3>1, <4>1 DEF Ids
    <3>5. \E m \in Nat : Ids' = 1..m
      <4>1. Ids' = 1..n \/ Ids' = 1..(n + 1)
        BY <2>2, <2>4, <2>6, <3>4
      <4> QED
        BY <4>1
    <3>6. contact' \in Contact \cup {NoContact} /\ contact'.id \in Ids'
      BY <3>2, <3>4
    <3> QED
      BY <1>1, <2>1, <3>3, <3>5, <3>6 DEF ContactTyped
  <2> QED
    BY <1>1, <2>5, <2>6
<1>4. CASE RemoveContact(a)
  BY <1>0, <1>1, <1>4 DEF RemoveContact, ContactTyped, Ids
<1> QED
  BY <1>2, <1>3, <1>4 DEF ContactStep

\* Edits leave the rest alone.
LEMMA ContactKeeps ==
  ASSUME WebInv, NEW a \in Admins, ContactStep(a)
  PROVE  WebInv'
<1>1. /\ ContactTyped'
      /\ UNCHANGED <<send, head, claims, work, meta, log, met, faults, crashes, timeouts>>
  BY ContactTypes
<1>2. RunTyped' /\ SendOK' /\ Seen(head)'
  BY <1>1, RunStays
<1>3. WorkTyped'
  BY <1>1 DEF WebInv, Typed, WorkTyped
<1>4. Grows
  BY <1>1 DEF Grows
<1> QED
  BY <1>1, <1>2, <1>3, <1>4, NoWorkerStep DEF Typed

\* A send goes on, or the timer ends the wait.
SendStep(s) == Address(s) \/ Send(s) \/ AuditSend(s) \/ SaveNotice(s) \/ AwaitSla(s) \/ LoseSend(s)

\* The steps of a send that leave the head alone.
LEMMA SendKeeps ==
  ASSUME WebInv, NEW s \in Sends, Address(s) \/ Send(s) \/ AuditSend(s) \/ LoseSend(s)
  PROVE  WebInv'
<1>0. RunTyped /\ SendOK /\ Seen(head) /\ ContactTyped /\ WorkTyped
  BY DEF WebInv, Typed
<1>1. /\ UNCHANGED <<head, contact, editing, rows, claims, work, meta, log, met, faults, timeouts>>
      /\ crashes' = crashes \/ crashes' = crashes + 1
  BY DEF Address, Send, AuditSend, LoseSend, Other, db, bounds
<1>2. PICK r \in SendState :
        /\ send' = [send EXCEPT ![s] = r]
        /\ send[s].pc \in {"saved", "over"} => r.pc = "over" /\ send[s].pc = "saved"
        /\ send[s].out => r.out
        /\ send[s].pc # "idle" => r.pc # "idle" /\ r.to = send[s].to
        /\ r.pc \in {"idle", "addressed", "refused"} => ~r.out
        /\ r.pc \in {"audited", "saved"} => r.audited
        /\ r.pc = "over" => crashes' = crashes + 1
  <2>0. send[s] \in SendState
    BY <1>0 DEF RunTyped
  <2>1. CASE Address(s)
    <3> DEFINE r == [send[s] EXCEPT !.pc = "addressed", !.to = ActiveContact]
    <3>1. ActiveContact \in Recipient
      BY <1>0, PhonesAssumption DEF ActiveContact, ContactTyped, Contact, Recipient, PhonesAssumption
    <3>2. r \in SendState /\ r.pc = "addressed" /\ r.out = send[s].out /\ r.to = ActiveContact
      BY <2>0, <3>1 DEF SendState
    <3>3. send' = [send EXCEPT ![s] = r] /\ send[s].pc = "idle" /\ ~send[s].out
      BY <1>0, <2>1 DEF Address, SendOK
    <3> QED
      BY <3>2, <3>3
  <2>2. CASE Send(s)
    <3>1. CASE send' = [send EXCEPT ![s].pc = "sent", ![s].out = TRUE]
      <4> DEFINE r == [send[s] EXCEPT !.pc = "sent", !.out = TRUE]
      <4>1. r \in SendState /\ r.pc = "sent" /\ r.out /\ r.to = send[s].to
        BY <2>0 DEF SendState
      <4>2. send' = [send EXCEPT ![s] = r] /\ send[s].pc = "addressed"
        BY <2>2, <3>1 DEF Send
      <4> QED
        BY <4>1, <4>2
    <3>2. CASE send' = [send EXCEPT ![s].pc = "refused"]
      <4> DEFINE r == [send[s] EXCEPT !.pc = "refused"]
      <4>1. r \in SendState /\ r.pc = "refused" /\ r.out = send[s].out /\ r.to = send[s].to
        BY <2>0 DEF SendState
      <4>2. send' = [send EXCEPT ![s] = r] /\ send[s].pc = "addressed" /\ ~send[s].out
        BY <1>0, <2>2, <3>2 DEF Send, SendOK
      <4> QED
        BY <4>1, <4>2
    <3> QED
      BY <2>2, <3>1, <3>2 DEF Send
  <2>3. CASE AuditSend(s)
    <3> DEFINE r == [send[s] EXCEPT !.pc = "audited", !.audited = TRUE]
    <3>1. r \in SendState /\ r.pc = "audited" /\ r.audited /\ r.out = send[s].out /\ r.to = send[s].to
      BY <2>0 DEF SendState
    <3>2. send' = [send EXCEPT ![s] = r] /\ send[s].pc = "sent"
      BY <2>3 DEF AuditSend
    <3> QED
      BY <3>1, <3>2
  <2>4. CASE LoseSend(s)
    <3> DEFINE r == [send[s] EXCEPT !.pc = "over"]
    <3>1. r \in SendState /\ r.pc = "over" /\ r.out = send[s].out /\ r.to = send[s].to
      BY <2>0 DEF SendState
    <3>2. send' = [send EXCEPT ![s] = r] /\ send[s].pc \notin {"idle", "over"} /\ crashes' = crashes + 1
      BY <2>4 DEF LoseSend
    <3> QED
      BY <2>0, <3>1, <3>2 DEF SendState
  <2> QED
    BY <2>1, <2>2, <2>3, <2>4
<1>3. send' \in [Sends -> SendState] /\ send'[s] = r /\ \A t \in Sends \ {s} : send'[t] = send[t]
  BY <1>0, <1>2 DEF RunTyped
<1>4. crashes' \in Nat /\ (crashes' = 0 => crashes = 0 /\ r.pc # "over")
  BY <1>0, <1>1, <1>2 DEF WorkTyped
<1>5. Grows
  BY <1>1, <1>2, <1>3 DEF Grows
<1>6. Typed'
  BY <1>0, <1>1, <1>3, <1>4 DEF Typed, ContactTyped, RunTyped, WorkTyped, Ids, Waits
<1>7. SendOK'
  <2> SUFFICES ASSUME NEW t \in Sends
               PROVE  /\ send'[t].pc \in {"idle", "addressed", "refused"} => ~send'[t].out
                      /\ send'[t].pc \in {"audited", "saved"} => send'[t].audited
                      /\ send'[t].pc = "over" /\ send'[t].out /\ crashes' = 0 => send'[t].audited
    BY DEF SendOK
  <2>1. CASE t = s
    BY <1>2, <1>3, <1>4, <2>1
  <2>2. CASE t # s
    BY <1>0, <1>3, <1>4, <2>2 DEF SendOK
  <2> QED
    BY <2>1, <2>2
<1>8. Seen(head)'
  BY <1>0, <1>1, <1>5, SeenStays DEF RunTyped, Seen, Posted
<1> QED
  BY <1>1, <1>5, <1>6, <1>7, <1>8, NoWorkerStep

\* The steps that write the head of the run: the notice's checkpoint, its
\* gate, the timer.
LEMMA HeadKeeps ==
  ASSUME WebInv, SlaLapses \/ \E s \in Sends : SaveNotice(s) \/ AwaitSla(s)
  PROVE  WebInv'
<1>0. RunTyped /\ SendOK /\ Seen(head) /\ ContactTyped /\ WorkTyped
  BY DEF WebInv, Typed
<1>1. UNCHANGED <<contact, editing, rows, claims, work, meta, log, met, faults, crashes, timeouts>>
  BY DEF SlaLapses, SaveNotice, AwaitSla, Other, db, bounds
<1>2. /\ send' \in [Sends -> SendState] /\ head' \in Snapshot /\ Grows /\ SendOK' /\ Seen(head)'
  <2>1. CASE SlaLapses
    <3>1. send' = send /\ head' = [head EXCEPT !.waiting = FALSE, !.outcome = "breached"]
      BY <2>1 DEF SlaLapses
    <3>2. head' \in Snapshot /\ head'.notice = head.notice /\ ~head'.waiting
      BY <1>0, <3>1 DEF RunTyped, Snapshot
    <3>3. Seen(head)'
      BY <1>0, <3>1, <3>2 DEF Seen, Posted, Waits
    <3> QED
      BY <1>0, <1>1, <3>1, <3>2, <3>3 DEF RunTyped, Grows, SendOK
  <2>2. ASSUME NEW s \in Sends, SaveNotice(s) \/ AwaitSla(s)
        PROVE  /\ send' \in [Sends -> SendState] /\ head' \in Snapshot /\ Grows /\ SendOK'
               /\ Seen(head)'
    <3>0. send[s] \in SendState
      BY <1>0 DEF RunTyped
    <3>1. PICK p \in {"saved", "over"} : Sending(s, send[s].pc, p)
      BY <2>2 DEF SaveNotice, AwaitSla, Sending
    <3> DEFINE r == [send[s] EXCEPT !.pc = p]
    <3>2. send' = [send EXCEPT ![s] = r]
      BY <3>1 DEF Sending
    <3>3. /\ r \in SendState /\ r.pc = p /\ r.to = send[s].to /\ r.out = send[s].out
          /\ r.audited = send[s].audited
      BY <3>0, <3>1 DEF SendState
    <3> HIDE DEF r
    <3>4. send' \in [Sends -> SendState] /\ send'[s] = r /\ \A t \in Sends \ {s} : send'[t] = send[t]
      BY <1>0, <3>2, <3>3 DEF RunTyped
    <3>5. /\ p = "saved" => send[s].pc = "audited"
          /\ p = "over" => send[s].pc \in {"refused", "saved"}
      BY <2>2, <3>0, <3>1, <3>3, <3>4 DEF SaveNotice, AwaitSla, Sending, SendState
    <3>6. Grows
      <4>1. /\ send[s].pc \in {"saved", "over"} => r.pc = "over"
            /\ send[s].pc = "over" => r.pc = "over"
            /\ send[s].pc # "idle" => r.pc # "idle"
        BY <3>1, <3>3, <3>5
      <4> QED
        BY <1>1, <3>3, <3>4, <4>1 DEF Grows
    <3>7. SendOK'
      <4> SUFFICES ASSUME NEW t \in Sends
                   PROVE  /\ send'[t].pc \in {"idle", "addressed", "refused"} => ~send'[t].out
                          /\ send'[t].pc \in {"audited", "saved"} => send'[t].audited
                          /\ send'[t].pc = "over" /\ send'[t].out /\ crashes' = 0 => send'[t].audited
        BY DEF SendOK
      <4>1. CASE t = s
        BY <1>0, <3>1, <3>3, <3>4, <3>5, <4>1 DEF SendOK
      <4>2. CASE t # s
        BY <1>0, <1>1, <3>4, <4>2 DEF SendOK
      <4> QED
        BY <4>1, <4>2
    <3>8. head' \in Snapshot /\ Seen(head)'
      <4>1. CASE head' = [notice |-> s, waiting |-> FALSE, outcome |-> "none"] /\ p = "saved"
        BY <3>3, <3>4, <4>1 DEF Snapshot, Seen, Posted, Waits
      <4>2. CASE head' = [notice |-> NoNotice, waiting |-> FALSE, outcome |-> "breached"]
        BY <4>2 DEF Snapshot, Seen, Posted, Waits
      <4>3. CASE /\ head = [notice |-> s, waiting |-> FALSE, outcome |-> "none"] /\ p = "over"
                 /\ head' = [head EXCEPT !.waiting = TRUE]
        <5>1. head' = [notice |-> s, waiting |-> TRUE, outcome |-> "none"]
          BY <4>3
        <5> QED
          BY <3>3, <3>4, <4>3, <5>1 DEF Snapshot, Seen, Posted, Waits
      <4>4. CASE head' = head
        <5>1. head \in Snapshot /\ Seen(head)
          BY <1>0 DEF RunTyped
        <5> QED
          BY <3>6, <4>4, <5>1, SeenStays DEF Seen, Posted, Waits
      <4> QED
        BY <2>2, <3>3, <3>4, <3>5, <4>1, <4>2, <4>3, <4>4 DEF SaveNotice, AwaitSla, Sending
    <3> QED
      BY <3>4, <3>6, <3>7, <3>8
  <2> QED
    BY <2>1, <2>2
<1>3. Typed'
  BY <1>0, <1>1, <1>2 DEF Typed, ContactTyped, RunTyped, WorkTyped, Ids, Seen
<1> QED
  BY <1>1, <1>2, <1>3, NoWorkerStep

-----------------------------------------------------------------------------
(* The steps of the workers.                                               *)

\* A worker that ends with its payload.
LEMMA AnswerSets ==
  ASSUME WorkTyped, NEW w \in Workers, Busy(w), NEW ok \in BOOLEAN, Answer(w, ok)
  PROVE  /\ work' \in [Workers -> Work \cup {Idle}]
         /\ work'[w] = Idle /\ \A v \in Workers \ {w} : work'[v] = work[v] /\ Still(v)
         /\ meta' \in [Payloads -> {"new", "pending", "acked"}]
         /\ \A p \in Payloads : meta'[p] = "acked" => meta[p] = "acked" \/ (ok /\ p = work[w].payload)
<1>1. work' \in [Workers -> Work \cup {Idle}]
      /\ work'[w] = Idle /\ \A v \in Workers \ {w} : work'[v] = work[v] /\ Still(v)
  BY SetWork DEF Answer
<1>2. work[w].payload \in Payloads
  BY BusyWork
<1> QED
  BY <1>1, <1>2 DEF Answer, WorkTyped

\* An idle worker knows nothing that could be wrong.
LEMMA IdleOK ==
  ASSUME NEW w \in Workers, work'[w] = Idle
  PROVE  WorkOK(w)' /\ ~Handles(w)'
  BY DEF WorkOK, Busy, Handles, Handling, Idle

\* The end of a payload, an error and a lost instance.
LEMMA AnswerKeeps ==
  ASSUME WebInv, NEW w \in Workers, Busy(w), NEW ok \in BOOLEAN, Answer(w, ok),
         claims' = claims \/ (Handles(w) /\ claims' = claims \ {ItemOf(w)}),
         faults' \in {faults, faults + 1}, crashes' \in {crashes, crashes + 1}, timeouts' = timeouts,
         UNCHANGED <<contact, editing, rows, send, head, log, met>>
  PROVE  WebInv'
<1>0. RunTyped /\ SendOK /\ Seen(head) /\ ContactTyped /\ WorkTyped
  BY DEF WebInv, Typed
<1>1. /\ work' \in [Workers -> Work \cup {Idle}]
      /\ work'[w] = Idle /\ \A v \in Workers \ {w} : work'[v] = work[v] /\ Still(v)
      /\ meta' \in [Payloads -> {"new", "pending", "acked"}]
  BY <1>0, AnswerSets
<1>2. Typed'
  <2>1. faults' \in Nat /\ crashes' \in Nat /\ claims' \subseteq Items
    BY <1>0 DEF WorkTyped
  <2> QED
    BY <1>0, <1>1, <2>1 DEF Typed, ContactTyped, RunTyped, WorkTyped, Ids, Waits
<1>3. Grows
  BY DEF Grows
<1>4. SendOK' /\ Seen(head)'
  <2>1. crashes' = 0 => crashes = 0
    BY <1>0 DEF WorkTyped
  <2> QED
    BY <1>0, <2>1 DEF SendOK, Seen, Posted, Waits
<1>5. WorkOK(w)' /\ ~Handles(w)'
  BY <1>1, IdleOK
<1>6. \A v \in Workers \ {w} : Handles(v) => ItemOf(v) \in claims'
  BY InHand DEF WebInv, Exclusive
<1> QED
  BY <1>1, <1>2, <1>3, <1>4, <1>5, <1>6, WorkerStep

\* A worker that writes at most a claim and the log.
LEMMA MoveKeeps ==
  ASSUME WebInv, NEW w \in Workers, work' \in [Workers -> Work \cup {Idle}],
         \A v \in Workers \ {w} : Still(v),
         UNCHANGED <<contact, editing, rows, send, head, meta, met, faults, crashes>>,
         timeouts' \in Nat,
         claims \subseteq claims', claims' \subseteq Items, log' \in [Items -> LogState],
         \A i \in Items : log[i].last # "none" => log'[i].last # "none",
         WorkOK(w)',
         Handles(w)' => \A v \in Workers \ {w} : Handles(v) => ItemOf(v) # ItemOf(w)'
  PROVE  WebInv'
<1>0. ContactTyped /\ WorkTyped
  BY DEF WebInv, Typed
<1>1. RunTyped' /\ SendOK' /\ Seen(head)'
  BY RunStays
<1>2. Typed'
  BY <1>0, <1>1 DEF Typed, ContactTyped, WorkTyped, Ids
<1>3. Grows
  BY DEF Grows
<1>4. \A v \in Workers \ {w} : Handles(v) => ItemOf(v) \in claims'
  BY InHand
<1> QED
  BY <1>1, <1>2, <1>3, <1>4, WorkerStep

\* What a busy worker knows, its place in the payload apart.
Knows(w) ==
  /\ Posted(work[w].loaded) /\ Seen(work[w].saw)
  /\ \A j \in 1..Len(work[w].payload) : send[work[w].payload[j].notice].out

\* A worker that goes on keeps what it knows.
LEMMA KnowsStays ==
  ASSUME WebInv, NEW w \in Workers, Busy(w), UNCHANGED <<send, head>>,
         work'[w].payload = work[w].payload,
         work'[w].saw \in {work[w].saw, head}, work'[w].loaded \in {work[w].loaded, head.notice}
  PROVE  Knows(w)'
<1>1. Knows(w) /\ Seen(head) /\ Posted(head.notice)
  BY DEF WebInv, WorkOK, Knows, Seen
<1> QED
  BY <1>1 DEF Knows, Seen, Posted, Waits

\* The next item of a payload, or its end.
LEMMA ClaimKeeps ==
  ASSUME WebInv, NEW w \in Workers, Claim(w)
  PROVE  WebInv'
<1>0. WorkTyped /\ Busy(w)
  BY DEF WebInv, Typed, Claim, At, Busy
<1>1. UNCHANGED <<contact, editing, rows, send, head, log, met, faults, crashes, timeouts>>
  BY DEF Claim, db, run, bounds
<1>2. /\ work[w].payload \in Seq(Items) /\ work[w].i \in Nat \ {0} /\ Len(work[w].payload) \in Nat
  BY <1>0, BusyWork
<1>3. CASE work[w].i > Len(work[w].payload)
  <2>1. Answer(w, TRUE) /\ claims' = claims
    BY <1>3 DEF Claim
  <2> QED
    BY <1>0, <1>1, <2>1, AnswerKeeps
<1>4. CASE ~(work[w].i > Len(work[w].payload)) /\ ItemOf(w) \in claims
  <2>1. NextItem(w) /\ claims' = claims /\ meta' = meta
    BY <1>4 DEF Claim
  <2>2. /\ work' \in [Workers -> Work \cup {Idle}] /\ \A v \in Workers \ {w} : Still(v)
        /\ work'[w].pc = "claim" /\ work'[w].payload = work[w].payload
        /\ work'[w].saw = work[w].saw /\ work'[w].loaded = work[w].loaded
    BY <1>0, <2>1, NextItemSets
  <2>3. Knows(w)'
    BY <1>0, <1>1, <2>2, KnowsStays
  <2>4. WorkOK(w)' /\ ~Handles(w)'
    BY <2>2, <2>3 DEF WorkOK, Knows, Handles, Handling, At
  <2> QED
    BY <1>0, <1>1, <2>1, <2>2, <2>4, MoveKeeps DEF WorkTyped
<1>5. CASE ~(work[w].i > Len(work[w].payload)) /\ ItemOf(w) \notin claims
  <2>1. Goto(w, "look") /\ claims' = claims \cup {ItemOf(w)} /\ meta' = meta
    BY <1>5 DEF Claim
  <2>2. /\ work' \in [Workers -> Work \cup {Idle}] /\ \A v \in Workers \ {w} : Still(v)
        /\ work'[w].pc = "look" /\ work'[w].payload = work[w].payload /\ work'[w].i = work[w].i
        /\ work'[w].saw = work[w].saw /\ work'[w].loaded = work[w].loaded
        /\ ItemOf(w)' = ItemOf(w)
    BY <1>0, <2>1, GotoSets DEF Handling
  <2>3. Knows(w)'
    BY <1>0, <1>1, <2>2, KnowsStays
  <2>4. work[w].i \in 1..Len(work[w].payload) /\ ItemOf(w) \in Items
    BY <1>0, <1>2, <1>5, BusyWork
  <2>5. WorkOK(w)'
    BY <2>1, <2>2, <2>3, <2>4 DEF WorkOK, Knows, Handles, Handling, At
  <2>6. \A v \in Workers \ {w} : Handles(v) => ItemOf(v) # ItemOf(w)'
    BY <1>5, <2>2, InHand
  <2>7. claims' \subseteq Items
    BY <1>0, <2>1, <2>4 DEF WorkTyped
  <2> QED
    BY <1>0, <1>1, <2>1, <2>2, <2>5, <2>6, <2>7, MoveKeeps DEF WorkTyped
<1> QED
  BY <1>3, <1>4, <1>5

\* The log is written where the item was in hand.
LEMMA LoggedTyped ==
  ASSUME WorkTyped, NEW i \in Items, NEW outcome \in {"early", "ignored", "applied"},
         Logged(i, outcome)
  PROVE  /\ log' \in [Items -> LogState]
         /\ log'[i].last = outcome /\ log'[i].applied = log[i].applied
         /\ \A j \in Items \ {i} : log'[j] = log[j]
  BY DEF WorkTyped, LogState, Logged

\* An item in hand that is left, with or without a word in the log.
LEMMA LeaveKeeps ==
  ASSUME WebInv, NEW w \in Workers, Handles(w), NextItem(w),
         log' = log \/ \E outcome \in {"early", "ignored", "applied"} : Logged(ItemOf(w), outcome),
         UNCHANGED <<contact, editing, rows, send, head, claims, meta, met, faults, crashes, timeouts>>
  PROVE  WebInv'
<1>0. WorkTyped /\ Busy(w) /\ ItemOf(w) \in Items
  BY InHand DEF WebInv, Typed
<1>1. /\ work' \in [Workers -> Work \cup {Idle}] /\ \A v \in Workers \ {w} : Still(v)
      /\ work'[w].pc = "claim" /\ work'[w].payload = work[w].payload
      /\ work'[w].saw = work[w].saw /\ work'[w].loaded = work[w].loaded
  BY <1>0, NextItemSets
<1>2. Knows(w)'
  BY <1>0, <1>1, KnowsStays
<1>3. WorkOK(w)' /\ ~Handles(w)'
  BY <1>1, <1>2 DEF WorkOK, Knows, Handles, Handling, At
<1>4. /\ log' \in [Items -> LogState]
      /\ \A i \in Items : log[i].last # "none" => log'[i].last # "none"
  <2>1. CASE log' = log
    BY <1>0, <2>1 DEF WorkTyped
  <2>2. ASSUME NEW outcome \in {"early", "ignored", "applied"}, Logged(ItemOf(w), outcome)
        PROVE  /\ log' \in [Items -> LogState]
               /\ \A i \in Items : log[i].last # "none" => log'[i].last # "none"
    <3>1. /\ log' \in [Items -> LogState] /\ log'[ItemOf(w)].last = outcome
          /\ \A j \in Items \ {ItemOf(w)} : log'[j] = log[j]
      BY <1>0, <2>2, LoggedTyped
    <3> QED
      BY <2>2, <3>1
  <2> QED
    BY <2>1, <2>2
<1> QED
  BY <1>0, <1>1, <1>3, <1>4, MoveKeeps DEF WorkTyped

\* An item in hand that is gone on with: looked at, judged to count, resumed,
\* or found resolved already.
LEMMA PressKeeps ==
  ASSUME WebInv, NEW w \in Workers, Handles(w), NEW r \in Work, work' = [work EXCEPT ![w] = r],
         r.pc \in Handling, r.payload = work[w].payload, r.i = work[w].i,
         r.saw \in {work[w].saw, head}, r.loaded \in {work[w].loaded, head.notice},
         r.pc = "judge" => ItemOf(w).type \in {"failed", "tap"},
         r.pc \in {"resume", "running"} => Counted(ItemOf(w), r.saw),
         r.pc = "audit" => log'[ItemOf(w)].last # "none",
         log' = log \/ Logged(ItemOf(w), "ignored"),
         UNCHANGED <<contact, editing, rows, send, head, claims, meta, met, faults, crashes, timeouts>>
  PROVE  WebInv'
<1>0. WorkTyped /\ Busy(w) /\ ItemOf(w) \in Items /\ WorkOK(w)
  BY InHand DEF WebInv, Typed
<1>1. /\ work' \in [Workers -> Work \cup {Idle}] /\ \A v \in Workers \ {w} : Still(v)
      /\ work'[w] = r
  BY <1>0, SetWork
<1>2. Knows(w)' /\ ItemOf(w)' = ItemOf(w) /\ Handles(w)'
  BY <1>0, <1>1, KnowsStays DEF ItemOf, Handles
<1>3. WorkOK(w)'
  BY <1>0, <1>1, <1>2 DEF WorkOK, Knows, Handles, Handling, At
<1>4. /\ log' \in [Items -> LogState]
      /\ \A i \in Items : log[i].last # "none" => log'[i].last # "none"
  <2>1. CASE log' = log
    BY <1>0, <2>1 DEF WorkTyped
  <2>2. CASE Logged(ItemOf(w), "ignored")
    <3>1. /\ log' \in [Items -> LogState] /\ log'[ItemOf(w)].last = "ignored"
          /\ \A j \in Items \ {ItemOf(w)} : log'[j] = log[j]
      BY <1>0, <2>2, LoggedTyped
    <3> QED
      BY <3>1
  <2> QED
    BY <2>1, <2>2
<1>5. \A v \in Workers \ {w} : Handles(v) => ItemOf(v) # ItemOf(w)'
  BY <1>2 DEF WebInv, Exclusive
<1> QED
  BY <1>0, <1>1, <1>3, <1>4, <1>5, MoveKeeps DEF WorkTyped

\* What each step of an item in hand does to the worker.
LEMMA LookSets ==
  ASSUME WebInv, NEW w \in Workers, Look(w)
  PROVE  /\ Handles(w)
         /\ UNCHANGED <<contact, editing, rows, send, head, claims, meta, met, faults, crashes, timeouts>>
         /\ \/ /\ NextItem(w)
               /\ ~(ItemOf(w).type \in {"failed", "tap"} /\ ThreadKnown(ItemOf(w)))
               /\ Logged(ItemOf(w), IF Early(ItemOf(w)) THEN "early" ELSE "ignored")
            \/ /\ ItemOf(w).type \in {"failed", "tap"} /\ log' = log
               /\ \E r \in Work :
                    /\ work' = [work EXCEPT ![w] = r]
                    /\ r.pc = "judge" /\ r.payload = work[w].payload /\ r.i = work[w].i
                    /\ r.saw = head /\ r.loaded = work[w].loaded /\ r.early = Early(ItemOf(w))
<1>1. Handles(w)
  BY DEF Look, At, Handles, Handling
<1>2. work[w] \in Work /\ ItemOf(w).notice \in Sends
  BY <1>1, InHand
<1>3. UNCHANGED <<contact, editing, rows, send, head, claims, meta, met, faults, crashes, timeouts>>
  BY DEF Look, db, run, bounds
<1>4. CASE ItemOf(w).type \in {"failed", "tap"} /\ ThreadKnown(ItemOf(w))
  <2> DEFINE r == [work[w] EXCEPT !.pc = "judge", !.saw = head, !.early = Early(ItemOf(w))]
  <2>1. head \in Snapshot /\ Early(ItemOf(w)) \in BOOLEAN
    BY DEF WebInv, Typed, RunTyped, Early
  <2>2. r \in Work /\ r.pc = "judge" /\ r.payload = work[w].payload /\ r.i = work[w].i
        /\ r.saw = head /\ r.loaded = work[w].loaded /\ r.early = Early(ItemOf(w))
    BY <1>2, <2>1 DEF Work, Handling
  <2>3. work' = [work EXCEPT ![w] = r] /\ log' = log
    BY <1>4 DEF Look
  <2> HIDE DEF r
  <2> QED
    BY <1>1, <1>3, <1>4, <2>2, <2>3
<1>5. CASE ~(ItemOf(w).type \in {"failed", "tap"} /\ ThreadKnown(ItemOf(w)))
  BY <1>1, <1>3, <1>5 DEF Look
<1> QED
  BY <1>4, <1>5

\* A judgement: the item is resumed with, or dealt with.
LEMMA JudgeSets ==
  ASSUME WebInv, NEW w \in Workers, Judge(w)
  PROVE  /\ Handles(w) /\ ItemOf(w).type \in {"failed", "tap"}
         /\ UNCHANGED <<contact, editing, rows, send, head, claims, meta, met, faults, crashes, timeouts>>
         /\ \/ /\ NextItem(w) /\ ~Counts(ItemOf(w), work[w].saw)
               /\ Logged(ItemOf(w), IF work[w].early THEN "early" ELSE "ignored")
            \/ /\ Goto(w, "resume") /\ log' = log
               /\ Counts(ItemOf(w), work[w].saw) /\ Counted(ItemOf(w), work[w].saw)
<1>1. Handles(w) /\ At(w, "judge") /\ Busy(w) /\ WorkOK(w)
  BY DEF Judge, At, Handles, Handling, Busy, WebInv
<1>2. UNCHANGED <<contact, editing, rows, send, head, claims, meta, met, faults, crashes, timeouts>>
  BY DEF Judge, db, run, bounds
<1>3. ItemOf(w).type \in {"failed", "tap"}
  BY <1>1 DEF WorkOK
<1>4. Counts(ItemOf(w), work[w].saw) => Counted(ItemOf(w), work[w].saw)
  BY <1>3 DEF Counts, Counted
<1> QED
  BY <1>1, <1>2, <1>3, <1>4 DEF Judge

\* A resumption: of a run that is open, or it ends there.
LEMMA ResumeSets ==
  ASSUME WebInv, NEW w \in Workers, Resume(w)
  PROVE  /\ Handles(w) /\ Counted(ItemOf(w), work[w].saw)
         /\ UNCHANGED <<contact, editing, rows, send, head, claims, meta, met, faults, crashes, timeouts>>
         /\ \/ /\ head.outcome = "none" /\ log' = log
               /\ \E r \in Work :
                    /\ work' = [work EXCEPT ![w] = r]
                    /\ r.pc = "running" /\ r.payload = work[w].payload /\ r.i = work[w].i
                    /\ r.saw = work[w].saw /\ r.loaded = head.notice
            \/ /\ head.outcome # "none" /\ Goto(w, "audit") /\ Logged(ItemOf(w), "ignored")
<1>1. Handles(w) /\ At(w, "resume") /\ Busy(w) /\ WorkOK(w)
  BY DEF Resume, At, Handles, Handling, Busy, WebInv
<1>2. UNCHANGED <<contact, editing, rows, send, head, claims, meta, met, faults, crashes, timeouts>>
  BY DEF Resume, db, run, bounds
<1>3. Counted(ItemOf(w), work[w].saw)
  BY <1>1 DEF WorkOK
<1>4. CASE head.outcome = "none"
  <2> DEFINE r == [work[w] EXCEPT !.pc = "running", !.loaded = head.notice]
  <2>1. work[w] \in Work /\ head.notice \in Sends \cup {NoNotice}
    BY <1>1, InHand DEF WebInv, Typed, RunTyped, Snapshot
  <2>2. r \in Work /\ r.pc = "running" /\ r.payload = work[w].payload /\ r.i = work[w].i
        /\ r.saw = work[w].saw /\ r.loaded = head.notice
    BY <2>1 DEF Work, Handling
  <2>3. work' = [work EXCEPT ![w] = r] /\ log' = log
    BY <1>4 DEF Resume
  <2> HIDE DEF r
  <2> QED
    BY <1>1, <1>2, <1>3, <1>4, <2>2, <2>3
<1>5. CASE head.outcome # "none"
  BY <1>1, <1>2, <1>3, <1>5 DEF Resume
<1> QED
  BY <1>4, <1>5

\* The steps of an item in hand, but for the answer itself.
LEMMA ItemKeeps ==
  ASSUME WebInv, NEW w \in Workers, Look(w) \/ Judge(w) \/ Resume(w) \/ Audit(w)
  PROVE  WebInv'
<1>0. WorkTyped
  BY DEF WebInv, Typed
<1>1. CASE Look(w)
  <2>1. Handles(w)
    BY <1>1, LookSets
  <2>2. CASE NextItem(w)
    BY <1>1, <2>2, LookSets, LeaveKeeps
  <2>3. CASE ~NextItem(w)
    <3>1. PICK r \in Work :
            /\ work' = [work EXCEPT ![w] = r]
            /\ r.pc = "judge" /\ r.payload = work[w].payload /\ r.i = work[w].i
            /\ r.saw = head /\ r.loaded = work[w].loaded
      BY <1>1, <2>3, LookSets
    <3>2. ItemOf(w).type \in {"failed", "tap"} /\ log' = log
      BY <1>1, <2>3, LookSets
    <3>3. UNCHANGED <<contact, editing, rows, send, head, claims, meta, met, faults, crashes, timeouts>>
      BY <1>1, LookSets
    <3> QED
      BY <2>1, <3>1, <3>2, <3>3, PressKeeps DEF Handling
  <2> QED
    BY <2>2, <2>3
<1>2. CASE Judge(w)
  <2>1. /\ Handles(w)
        /\ UNCHANGED <<contact, editing, rows, send, head, claims, meta, met, faults, crashes, timeouts>>
    BY <1>2, JudgeSets
  <2>2. CASE NextItem(w)
    BY <1>2, <2>1, <2>2, JudgeSets, LeaveKeeps
  <2>3. CASE ~NextItem(w)
    <3>1. Goto(w, "resume") /\ log' = log /\ Counted(ItemOf(w), work[w].saw)
      BY <1>2, <2>3, JudgeSets
    <3>2. work[w] \in Work /\ Busy(w)
      BY <2>1, InHand
    <3> DEFINE r == [work[w] EXCEPT !.pc = "resume"]
    <3>3. r \in Work /\ r.pc = "resume" /\ r.payload = work[w].payload /\ r.i = work[w].i
          /\ r.saw = work[w].saw /\ r.loaded = work[w].loaded
      BY <3>2 DEF Work, Handling
    <3>4. work' = [work EXCEPT ![w] = r]
      BY <3>1 DEF Goto
    <3> HIDE DEF r
    <3> QED
      BY <2>1, <3>1, <3>3, <3>4, PressKeeps DEF Handling
  <2> QED
    BY <2>2, <2>3
<1>3. CASE Resume(w)
  <2>1. /\ Handles(w) /\ Counted(ItemOf(w), work[w].saw)
        /\ UNCHANGED <<contact, editing, rows, send, head, claims, meta, met, faults, crashes, timeouts>>
    BY <1>3, ResumeSets
  <2>2. CASE head.outcome = "none"
    <3>1. log' = log
      BY <1>3, <2>2, ResumeSets
    <3>2. PICK r \in Work :
            /\ work' = [work EXCEPT ![w] = r]
            /\ r.pc = "running" /\ r.payload = work[w].payload /\ r.i = work[w].i
            /\ r.saw = work[w].saw /\ r.loaded = head.notice
      BY <1>3, <2>2, ResumeSets
    <3> QED
      BY <2>1, <3>1, <3>2, PressKeeps DEF Handling
  <2>3. CASE head.outcome # "none"
    <3>1. Goto(w, "audit") /\ Logged(ItemOf(w), "ignored")
      BY <1>3, <2>3, ResumeSets
    <3>2. work[w] \in Work /\ ItemOf(w) \in Items
      BY <2>1, InHand
    <3> DEFINE r == [work[w] EXCEPT !.pc = "audit"]
    <3>3. r \in Work /\ r.pc = "audit" /\ r.payload = work[w].payload /\ r.i = work[w].i
          /\ r.saw = work[w].saw /\ r.loaded = work[w].loaded
      BY <3>2 DEF Work, Handling
    <3>4. work' = [work EXCEPT ![w] = r]
      BY <3>1 DEF Goto
    <3>5. log'[ItemOf(w)].last # "none"
      BY <1>0, <3>1, <3>2, LoggedTyped
    <3> HIDE DEF r
    <3> QED
      BY <2>1, <3>1, <3>3, <3>4, <3>5, PressKeeps DEF Handling
  <2> QED
    BY <2>2, <2>3
<1>4. CASE Audit(w)
  <2>1. /\ Handles(w) /\ NextItem(w) /\ log' = log
        /\ UNCHANGED <<contact, editing, rows, send, head, claims, meta, met, faults, crashes, timeouts>>
    BY <1>4 DEF Audit, At, Handles, Handling, db, run, bounds
  <2> QED
    BY <2>1, LeaveKeeps
<1> QED
  BY <1>1, <1>2, <1>3, <1>4

\* What the answer does: the head is the notice loaded, without its gate.
LEMMA AnsweredSets ==
  ASSUME WebInv, NEW w \in Workers, SlaAnswered(w)
  PROVE  /\ Handles(w) /\ Busy(w) /\ Counted(ItemOf(w), work[w].saw)
         /\ UNCHANGED <<contact, editing, rows, send, claims, meta, faults, crashes, timeouts>>
         /\ head' \in Snapshot /\ head'.notice = work[w].loaded /\ ~head'.waiting
         /\ Goto(w, "audit")
         /\ met' = IF ItemOf(w).type = "tap" THEN met \cup {<<ItemOf(w), work[w].saw.notice>>} ELSE met
         /\ log' \in [Items -> LogState]
         /\ log'[ItemOf(w)].last = "applied" /\ log'[ItemOf(w)].applied = log[ItemOf(w)].applied + 1
         /\ \A i \in Items \ {ItemOf(w)} : log'[i] = log[i]
<1>1. Handles(w) /\ At(w, "running") /\ Busy(w) /\ WorkOK(w)
  BY DEF SlaAnswered, At, Handles, Handling, Busy, WebInv
<1>2. UNCHANGED <<contact, editing, rows, send, claims, meta, faults, crashes, timeouts>>
  BY DEF SlaAnswered, db, bounds
<1>3. work[w] \in Work /\ ItemOf(w) \in Items
  BY <1>1, InHand
<1>4. Counted(ItemOf(w), work[w].saw)
  BY <1>1 DEF WorkOK
<1>5. head' \in Snapshot /\ head'.notice = work[w].loaded /\ ~head'.waiting
  BY <1>3 DEF SlaAnswered, Snapshot, Work
<1>6. /\ log' \in [Items -> LogState]
      /\ log'[ItemOf(w)].last = "applied" /\ log'[ItemOf(w)].applied = log[ItemOf(w)].applied + 1
      /\ \A i \in Items \ {ItemOf(w)} : log'[i] = log[i]
  <2>1. log \in [Items -> LogState] /\ log[ItemOf(w)].applied \in Nat
    BY <1>3 DEF WebInv, Typed, WorkTyped, LogState
  <2>2. log' = [log EXCEPT ![ItemOf(w)] = [last |-> "applied", applied |-> @.applied + 1]]
    BY DEF SlaAnswered
  <2>3. [last |-> "applied", applied |-> log[ItemOf(w)].applied + 1] \in LogState
    BY <2>1 DEF LogState
  <2> QED
    BY <1>3, <2>1, <2>2, <2>3
<1>7. /\ Goto(w, "audit")
      /\ met' = IF ItemOf(w).type = "tap" THEN met \cup {<<ItemOf(w), work[w].saw.notice>>} ELSE met
  BY DEF SlaAnswered
<1> QED
  BY <1>1, <1>2, <1>4, <1>5, <1>6, <1>7

\* So the answer keeps the invariant.
LEMMA AnsweredKeeps ==
  ASSUME WebInv, NEW w \in Workers, SlaAnswered(w)
  PROVE  WebInv'
<1>0. RunTyped /\ SendOK /\ ContactTyped /\ WorkTyped
  BY DEF WebInv, Typed
<1>1. /\ Handles(w) /\ Busy(w) /\ Counted(ItemOf(w), work[w].saw) /\ Goto(w, "audit")
      /\ UNCHANGED <<contact, editing, rows, send, claims, meta, faults, crashes, timeouts>>
      /\ head' \in Snapshot /\ head'.notice = work[w].loaded /\ ~head'.waiting
  BY AnsweredSets
<1>2. /\ log' \in [Items -> LogState] /\ log'[ItemOf(w)].last = "applied"
      /\ \A i \in Items \ {ItemOf(w)} : log'[i] = log[i]
      /\ met' = IF ItemOf(w).type = "tap" THEN met \cup {<<ItemOf(w), work[w].saw.notice>>} ELSE met
  BY AnsweredSets
<1>3. /\ work[w] \in Work /\ ItemOf(w) \in Items /\ WorkOK(w)
  BY <1>1, InHand DEF WebInv
<1>4. /\ work' \in [Workers -> Work \cup {Idle}] /\ \A v \in Workers \ {w} : Still(v)
      /\ work'[w].pc = "audit" /\ work'[w].payload = work[w].payload /\ work'[w].i = work[w].i
      /\ work'[w].saw = work[w].saw /\ work'[w].loaded = work[w].loaded /\ ItemOf(w)' = ItemOf(w)
  BY <1>0, <1>1, GotoSets DEF Handling
<1>5. Typed'
  <2>1. work[w].saw.notice \in Sends \cup {NoNotice}
    BY <1>3 DEF Work, Snapshot
  <2>2. met' \subseteq (Items \X (Sends \cup {NoNotice}))
    BY <1>0, <1>2, <1>3, <2>1 DEF WorkTyped
  <2>3. Waits(head)'
    BY <1>1 DEF Waits
  <2> QED
    BY <1>0, <1>1, <1>2, <1>4, <2>2, <2>3 DEF Typed, ContactTyped, RunTyped, WorkTyped, Ids
<1>6. Grows
  BY <1>1, <1>2 DEF Grows
<1>7. SendOK' /\ Seen(head)'
  <2>1. Posted(work[w].loaded)
    BY <1>1, <1>3 DEF WorkOK
  <2> QED
    BY <1>0, <1>1, <2>1 DEF SendOK, Seen, Posted, Waits
<1>8. WorkOK(w)'
  <2>1. /\ Posted(work[w].loaded) /\ Seen(work[w].saw)
        /\ \A j \in 1..Len(work[w].payload) : send[work[w].payload[j].notice].out
        /\ work[w].i \in 1..Len(work[w].payload) /\ ItemOf(w) \in claims
    BY <1>1, <1>3 DEF WorkOK
  <2> QED
    BY <1>1, <1>2, <1>4, <2>1 DEF WorkOK, Posted, Seen, Waits, At, Handles, Handling
<1>9. \A v \in Workers \ {w} : Handles(v) => ItemOf(v) # ItemOf(w)' /\ ItemOf(v) \in claims'
  BY <1>1, <1>4, InHand DEF WebInv, Exclusive
<1> QED
  BY <1>4, <1>5, <1>6, <1>7, <1>8, <1>9, WorkerStep

\* What a delivery does.
LEMMA DeliverSets ==
  ASSUME WebInv, NEW w \in Workers, NEW p \in Payloads, Deliver(w, p)
  PROVE  /\ ~Busy(w) /\ UNCHANGED <<contact, editing, rows, send, head, claims, log, met, faults, crashes>>
         /\ work' \in [Workers -> Work \cup {Idle}] /\ \A v \in Workers \ {w} : Still(v)
         /\ work'[w] = [pc |-> "claim", payload |-> p, i |-> 1, late |-> FALSE, saw |-> head,
                        early |-> FALSE, loaded |-> NoNotice]
         /\ meta' = [meta EXCEPT ![p] = "pending"]
         /\ meta' \in [Payloads -> {"new", "pending", "acked"}]
         /\ timeouts' \in Nat /\ timeouts' >= timeouts
         /\ timeouts' = 0 => \A v \in Workers : Busy(v) => work[v].payload # p
<1>0. WorkTyped /\ head \in Snapshot
  BY DEF WebInv, Typed, RunTyped
<1> DEFINE others == {v \in Workers : ~At(v, "idle") /\ work[v].payload = p}
           r == [pc |-> "claim", payload |-> p, i |-> 1, late |-> FALSE, saw |-> head,
                 early |-> FALSE, loaded |-> NoNotice]
<1>1. /\ ~Busy(w) /\ UNCHANGED <<contact, editing, rows, send, head, claims, log, met, faults, crashes>>
      /\ IF others = {} THEN UNCHANGED timeouts ELSE timeouts < MaxTimeouts /\ timeouts' = timeouts + 1
      /\ meta' = [meta EXCEPT ![p] = "pending"]
      /\ work' = [v \in Workers |-> IF v = w THEN r
                   ELSE IF v \in others THEN [work[v] EXCEPT !.late = TRUE] ELSE work[v]]
  BY DEF Deliver, At, Busy, db, run
<1>2. r \in Work
  BY <1>0 DEF Work
<1>3. ASSUME NEW v \in others
      PROVE  [work[v] EXCEPT !.late = TRUE] \in Work /\ Busy(v)
  <2>1. Busy(v)
    BY DEF At, Busy
  <2>2. work[v] \in Work
    BY <1>0, <2>1, BusyWork
  <2> QED
    BY <2>1, <2>2 DEF Work
<1>4. work'[w] = r
  BY <1>1
<1>5. ASSUME NEW v \in Workers \ {w}
      PROVE  Still(v) /\ work'[v] \in Work \cup {Idle}
  <2>1. CASE v \in others
    <3>1. work'[v] = [work[v] EXCEPT !.late = TRUE]
      BY <1>1, <2>1
    <3> QED
      BY <1>3, <2>1, <3>1 DEF Still
  <2>2. CASE v \notin others
    <3>1. work'[v] = work[v]
      BY <1>1, <2>2
    <3> QED
      BY <1>0, <3>1 DEF Still, WorkTyped
  <2> QED
    BY <2>1, <2>2
<1>6. work' \in [Workers -> Work \cup {Idle}]
  <2>1. work' = [v \in Workers |-> work'[v]]
    BY <1>1
  <2>2. \A v \in Workers : work'[v] \in Work \cup {Idle}
    BY <1>2, <1>4, <1>5
  <2> HIDE DEF r
  <2> QED
    BY <2>1, <2>2
<1>7. meta' \in [Payloads -> {"new", "pending", "acked"}]
  BY <1>0, <1>1 DEF WorkTyped
<1>8. timeouts \in Nat
  BY <1>0 DEF WorkTyped
<1>9. timeouts' \in Nat /\ timeouts' >= timeouts /\ (timeouts' = 0 => others = {})
  BY <1>1, <1>8
<1>10. others = {} => \A v \in Workers : Busy(v) => work[v].payload # p
  BY DEF Busy, At
<1> QED
  BY <1>1, <1>4, <1>5, <1>6, <1>7, <1>9, <1>10

\* So a delivery keeps the invariant.
LEMMA DeliverKeeps ==
  ASSUME WebInv, NEW w \in Workers, NEW p \in Payloads, Deliver(w, p)
  PROVE  WebInv'
<1>0. RunTyped /\ SendOK /\ Seen(head) /\ ContactTyped /\ WorkTyped
  BY DEF WebInv, Typed
<1>1. /\ UNCHANGED <<contact, editing, rows, send, head, claims, log, met, faults, crashes>>
      /\ work' \in [Workers -> Work \cup {Idle}] /\ \A v \in Workers \ {w} : Still(v)
      /\ work'[w] = [pc |-> "claim", payload |-> p, i |-> 1, late |-> FALSE, saw |-> head,
                     early |-> FALSE, loaded |-> NoNotice]
      /\ meta' \in [Payloads -> {"new", "pending", "acked"}] /\ timeouts' \in Nat
  BY DeliverSets
<1>2. /\ work'[w].pc = "claim" /\ work'[w].payload = p /\ work'[w].saw = head
      /\ work'[w].loaded = NoNotice
  BY <1>1
<1>3. \A j \in 1..Len(p) : send[p[j].notice].out
  BY DEF Deliver
<1>4. WorkOK(w)' /\ ~Handles(w)'
  BY <1>0, <1>1, <1>2, <1>3 DEF WorkOK, Handles, Handling, At, Posted, Seen, Waits
<1>5. RunTyped' /\ SendOK' /\ Seen(head)'
  BY <1>1, RunStays
<1>6. Typed'
  BY <1>0, <1>1, <1>5 DEF Typed, ContactTyped, WorkTyped, Ids
<1>7. Grows
  BY <1>1 DEF Grows
<1>8. \A v \in Workers \ {w} : Handles(v) => ItemOf(v) \in claims'
  BY <1>1, InHand
<1> QED
  BY <1>1, <1>4, <1>5, <1>6, <1>7, <1>8, WorkerStep

\* An error and a lost instance.
FailStep(w) == Fault(w) \/ Crash(w)

\* Either leaves the worker idle, and the payload to Meta.
LEMMA FailSets ==
  ASSUME WebInv, NEW w \in Workers, FailStep(w)
  PROVE  /\ Busy(w) /\ Answer(w, FALSE)
         /\ UNCHANGED <<contact, editing, rows, send, head, log, met, timeouts>>
         /\ faults \in Nat /\ crashes \in Nat
         /\ \/ Handles(w) /\ claims' = claims \ {ItemOf(w)} /\ faults' = faults + 1 /\ crashes' = crashes
            \/ claims' = claims /\ faults' = faults /\ crashes' = crashes + 1
  BY DEF FailStep, Fault, Crash, At, Busy, Handles, Handling, db, run, WebInv, Typed, WorkTyped

\* So they keep the invariant.
LEMMA FailKeeps ==
  ASSUME WebInv, NEW w \in Workers, FailStep(w)
  PROVE  WebInv'
<1>1. /\ Busy(w) /\ Answer(w, FALSE)
      /\ UNCHANGED <<contact, editing, rows, send, head, log, met, timeouts>>
      /\ claims' = claims \/ (Handles(w) /\ claims' = claims \ {ItemOf(w)})
      /\ faults' \in {faults, faults + 1} /\ crashes' \in {crashes, crashes + 1}
  BY FailSets
<1> QED
  BY <1>1, AnswerKeeps

\* Every step keeps the invariant, and takes nothing back.
LEMMA WebStep ==
  ASSUME WebInv, [Next]_vars
  PROVE  WebInv'
<1>1. CASE UNCHANGED vars
  <2>1. Typed' /\ Grows
    BY <1>1 DEF WebInv, Typed, ContactTyped, RunTyped, WorkTyped, Ids, Waits, Grows, vars
  <2>2. SendOK' /\ Seen(head)' /\ UNCHANGED <<work, claims>>
    BY <1>1 DEF WebInv, SendOK, Seen, Posted, Waits, vars
  <2> QED
    BY <2>1, <2>2, NoWorkerStep
<1>2. CASE \E a \in Admins : ReadContact(a) \/ CommitContact(a) \/ RemoveContact(a)
  BY <1>2, ContactKeeps DEF ContactStep
<1>3. CASE SlaLapses \/ \E s \in Sends : SaveNotice(s) \/ AwaitSla(s)
  BY <1>3, HeadKeeps
<1>4. CASE \E s \in Sends : Address(s) \/ Send(s) \/ AuditSend(s) \/ LoseSend(s)
  BY <1>4, SendKeeps
<1>5. ASSUME NEW w \in Workers, NEW p \in Payloads, Deliver(w, p)
      PROVE  WebInv'
  BY <1>5, DeliverKeeps
<1>6. ASSUME NEW w \in Workers, Claim(w)
      PROVE  WebInv'
  BY <1>6, ClaimKeeps
<1>7. ASSUME NEW w \in Workers, Look(w) \/ Judge(w) \/ Resume(w) \/ Audit(w)
      PROVE  WebInv'
  BY <1>7, ItemKeeps
<1>8. ASSUME NEW w \in Workers, SlaAnswered(w)
      PROVE  WebInv'
  BY <1>8, AnsweredKeeps
<1>9. ASSUME NEW w \in Workers, Fault(w) \/ Crash(w)
      PROVE  WebInv'
  BY <1>9, FailKeeps DEF FailStep
<1> QED
  BY <1>1, <1>2, <1>3, <1>4, <1>5, <1>6, <1>7, <1>8, <1>9 DEF Next

\* The invariant holds in every state.
LEMMA WebInductive == Spec => []WebInv
<1>1. Init => WebInv
  BY WebInit
<1>2. WebInv /\ [Next]_vars => WebInv'
  BY WebStep
<1> QED
  BY <1>1, <1>2, PTL DEF Spec

-----------------------------------------------------------------------------
(* A gate that is gone does not come back.                                 *)

\* The notice's gate was reached, and is not open any more.
Gone(s) == send[s].pc = "over" /\ ~(head.waiting /\ head.notice = s)

\* The steps that leave the sends and the head alone.
Aside ==
  \/ \E a \in Admins : ContactStep(a)
  \/ \E w \in Workers :
       \/ \E p \in Payloads : Deliver(w, p)
       \/ Claim(w) \/ Look(w) \/ Judge(w) \/ Resume(w) \/ Audit(w) \/ Fault(w) \/ Crash(w)
  \/ UNCHANGED vars

\* They touch no notice, no gate and no answer.
LEMMA AsideKeeps ==
  ASSUME Aside
  PROVE  UNCHANGED <<send, head, met>>
  BY DEF Aside, ContactStep, ReadContact, CommitContact, RemoveContact, Deliver, Claim, Look, Judge,
         Resume, Audit, Fault, Crash, run, vars

\* A step of a send changes that send, and none that is over.
LEMMA SendAlone ==
  ASSUME WebInv, NEW s \in Sends, SendStep(s)
  PROVE  /\ send[s].pc # "over"
         /\ \A t \in Sends \ {s} : send'[t] = send[t]
         /\ UNCHANGED <<contact, editing, rows, edits, claims, work, meta, log, met, faults, timeouts>>
<1>1. send \in [Sends -> SendState]
  BY DEF WebInv, Typed, RunTyped
<1> QED
  BY <1>1 DEF SendStep, Address, Send, AuditSend, SaveNotice, AwaitSla, LoseSend, Sending, Other, db, bounds

\* What a step does to the gates: one that is gone stays gone.
LEMMA GoneStays ==
  ASSUME WebInv, [Next]_vars, NEW s \in Sends, Gone(s)
  PROVE  Gone(s)'
<1>1. CASE Aside
  BY <1>1, AsideKeeps DEF Gone
<1>2. CASE SlaLapses
  <2>1. ~head'.waiting /\ send' = send
    BY <1>2 DEF SlaLapses, WebInv, Typed, RunTyped, Snapshot
  <2> QED
    BY <2>1 DEF Gone
<1>3. ASSUME NEW t \in Sends, SendStep(t)
      PROVE  Gone(s)'
  <2>1. s # t /\ send'[s] = send[s]
    BY <1>3, SendAlone DEF Gone
  <2>2. \/ head' = head
        \/ ~head'.waiting
        \/ head'.notice = t
    BY <1>3 DEF SendStep, Address, Send, AuditSend, SaveNotice, AwaitSla, LoseSend
  <2> QED
    BY <2>1, <2>2 DEF Gone
<1>4. ASSUME NEW w \in Workers, SlaAnswered(w)
      PROVE  Gone(s)'
  <2>1. ~head'.waiting /\ send' = send
    BY <1>4, AnsweredSets
  <2> QED
    BY <2>1 DEF Gone
<1> QED
  BY <1>1, <1>2, <1>3, <1>4 DEF Next, Aside, SendStep, ContactStep

-----------------------------------------------------------------------------
(* An item resolves the call once.                                         *)

\* What resolved the call did so for good; what may yet resolve it has not.
AppliedInv ==
  /\ \A i \in Items : log[i].applied = 0 \/ (log[i].applied = 1 /\ Gone(i.notice))
  /\ \A w \in Workers :
       /\ work[w].pc \in {"judge", "resume", "running"} /\ work[w].saw.waiting
       /\ work[w].saw.notice = ItemOf(w).notice
       => log[ItemOf(w)].applied = 0

\* A step that resolves nothing.
LEMMA AppliedStays ==
  ASSUME WebInv, AppliedInv, [Next]_vars, \A i \in Items : log'[i].applied = log[i].applied,
         NEW w \in Workers, \A v \in Workers \ {w} : Still(v),
         /\ work'[w].pc \in {"judge", "resume", "running"} /\ work'[w].saw.waiting
         /\ work'[w].saw.notice = ItemOf(w)'.notice
         => log'[ItemOf(w)'].applied = 0
  PROVE  AppliedInv'
<1>1. ASSUME NEW i \in Items
      PROVE  log'[i].applied = 0 \/ (log'[i].applied = 1 /\ Gone(i.notice)')
  <2>1. i.notice \in Sends
    BY ItemsAssumption DEF ItemsAssumption, Item
  <2> QED
    BY <2>1, GoneStays DEF AppliedInv
<1>2. ASSUME NEW v \in Workers \ {w}, work'[v].pc \in {"judge", "resume", "running"},
             work'[v].saw.waiting, work'[v].saw.notice = ItemOf(v)'.notice
      PROVE  log'[ItemOf(v)'].applied = 0
  <2>1. /\ work'[v].pc = work[v].pc /\ work'[v].saw = work[v].saw /\ ItemOf(v)' = ItemOf(v)
    BY StillSame DEF WebInv, Typed
  <2>2. ItemOf(v) \in Items
    BY <1>2, <2>1, InHand DEF Handles, Handling
  <2> QED
    BY <1>2, <2>1, <2>2 DEF AppliedInv
<1> QED
  BY <1>1, <1>2 DEF AppliedInv

\* An item resolves the call once, if taps quote their notices.
LEMMA AppliedStep ==
  ASSUME TapsQuote, WebInv, AppliedInv, [Next]_vars
  PROVE  AppliedInv'
<1>0. WorkTyped /\ log \in [Items -> LogState]
  BY DEF WebInv, Typed, WorkTyped
<1>1. CASE UNCHANGED <<work, log>>
  <2>1. ASSUME NEW i \in Items
        PROVE  log'[i].applied = 0 \/ (log'[i].applied = 1 /\ Gone(i.notice)')
    <3>1. i.notice \in Sends
      BY ItemsAssumption DEF ItemsAssumption, Item
    <3> QED
      BY <1>1, <3>1, GoneStays DEF AppliedInv
  <2> QED
    BY <1>1, <2>1 DEF AppliedInv, ItemOf
<1>2. ASSUME NEW w \in Workers, NEW p \in Payloads, Deliver(w, p)
      PROVE  AppliedInv'
  <2>1. /\ log' = log /\ \A v \in Workers \ {w} : Still(v)
        /\ work'[w] = [pc |-> "claim", payload |-> p, i |-> 1, late |-> FALSE, saw |-> head,
                        early |-> FALSE, loaded |-> NoNotice]
    BY <1>2, DeliverSets
  <2>2. work'[w].pc = "claim"
    BY <2>1
  <2> QED
    BY <2>1, <2>2, AppliedStays
<1>3. ASSUME NEW w \in Workers, Claim(w)
      PROVE  AppliedInv'
  <2>1. Busy(w) /\ log' = log
    BY <1>3 DEF Claim, At, Busy
  <2>2. Answer(w, TRUE) \/ NextItem(w) \/ Goto(w, "look")
    BY <1>3 DEF Claim
  <2>3. /\ \A v \in Workers \ {w} : Still(v)
        /\ work'[w].pc \in {"idle", "claim", "look"}
    <3>1. CASE Answer(w, TRUE)
      <4>1. work'[w] = Idle /\ \A v \in Workers \ {w} : Still(v)
        BY <1>0, <2>1, <3>1, AnswerSets
      <4> QED
        BY <4>1 DEF Idle
    <3>2. CASE NextItem(w)
      BY <1>0, <2>1, <3>2, NextItemSets
    <3>3. CASE Goto(w, "look")
      BY <1>0, <2>1, <3>3, GotoSets DEF Handling
    <3> QED
      BY <2>2, <3>1, <3>2, <3>3
  <2> QED
    BY <2>1, <2>3, AppliedStays
<1>4. ASSUME NEW w \in Workers, FailStep(w)
      PROVE  AppliedInv'
  <2>1. Busy(w) /\ log' = log /\ Answer(w, FALSE)
    BY <1>4, FailSets
  <2>2. work'[w] = Idle /\ \A v \in Workers \ {w} : Still(v)
    BY <1>0, <2>1, AnswerSets
  <2>3. work'[w].pc = "idle"
    BY <2>2 DEF Idle
  <2> QED
    BY <2>1, <2>2, <2>3, AppliedStays
<1>5. ASSUME NEW w \in Workers, Look(w) \/ Judge(w) \/ Resume(w) \/ Audit(w)
      PROVE  AppliedInv'
  <2>1. Handles(w) /\ Busy(w) /\ ItemOf(w) \in Items /\ work[w] \in Work /\ ItemOf(w).notice \in Sends
    <3>1. Handles(w)
      BY <1>5 DEF Look, Judge, Resume, Audit, At, Handles, Handling
    <3> QED
      BY <3>1, InHand
  <2>2. \A i \in Items : log'[i].applied = log[i].applied
    <3>1. log' = log \/ \E outcome \in {"early", "ignored", "applied"} : Logged(ItemOf(w), outcome)
      BY <1>5 DEF Look, Judge, Resume, Audit
    <3> QED
      BY <1>0, <2>1, <3>1, LoggedTyped
  <2>3. CASE NextItem(w) \/ Goto(w, "audit")
    <3>1. /\ \A v \in Workers \ {w} : Still(v)
          /\ work'[w].pc \in {"claim", "audit"}
      BY <1>0, <2>1, <2>3, NextItemSets, GotoSets DEF Handling
    <3> QED
      BY <2>2, <3>1, AppliedStays
  <2>4. CASE Goto(w, "resume") /\ Judge(w)
    <3>1. /\ \A v \in Workers \ {w} : Still(v)
          /\ work'[w].saw = work[w].saw /\ ItemOf(w)' = ItemOf(w)
      BY <1>0, <2>1, <2>4, GotoSets DEF Handling
    <3>2. work[w].pc = "judge"
      BY <2>4 DEF Judge, At
    <3>3. work[w].saw.waiting /\ work[w].saw.notice = ItemOf(w).notice => log'[ItemOf(w)].applied = 0
      BY <2>1, <2>2, <3>2 DEF AppliedInv
    <3> QED
      BY <2>2, <3>1, <3>3, AppliedStays
  <2>5. CASE ~NextItem(w) /\ Look(w)
    <3>1. PICK r \in Work :
            /\ work' = [work EXCEPT ![w] = r]
            /\ r.pc = "judge" /\ r.payload = work[w].payload /\ r.i = work[w].i
            /\ r.saw = head
      BY <2>5, LookSets
    <3>2. work'[w] = r /\ \A v \in Workers \ {w} : Still(v)
      BY <1>0, <3>1, SetWork
    <3>3. ItemOf(w)' = ItemOf(w)
      BY <3>1, <3>2 DEF ItemOf
    <3>4. head.waiting /\ head.notice = ItemOf(w).notice => log[ItemOf(w)].applied = 0
      BY <2>1 DEF AppliedInv, Gone
    <3> QED
      BY <2>1, <2>2, <3>1, <3>2, <3>3, <3>4, AppliedStays
  <2>6. CASE Resume(w) /\ ~Goto(w, "audit")
    <3>1. PICK r \in Work :
            /\ work' = [work EXCEPT ![w] = r]
            /\ r.pc = "running" /\ r.payload = work[w].payload /\ r.i = work[w].i
            /\ r.saw = work[w].saw
      BY <2>6, ResumeSets
    <3>2. work'[w] = r /\ \A v \in Workers \ {w} : Still(v)
      BY <1>0, <3>1, SetWork
    <3>3. ItemOf(w)' = ItemOf(w)
      BY <3>1, <3>2 DEF ItemOf
    <3>4. work[w].pc = "resume"
      BY <2>6 DEF Resume, At
    <3>5. work[w].saw.waiting /\ work[w].saw.notice = ItemOf(w).notice => log[ItemOf(w)].applied = 0
      BY <3>4 DEF AppliedInv
    <3> QED
      BY <2>1, <2>2, <3>1, <3>2, <3>3, <3>5, AppliedStays
  <2>7. Audit(w) => NextItem(w)
    BY DEF Audit
  <2>8. Judge(w) => NextItem(w) \/ Goto(w, "resume")
    BY DEF Judge
  <2> QED
    BY <1>5, <2>3, <2>4, <2>5, <2>6, <2>7, <2>8
<1>6. ASSUME NEW w \in Workers, SlaAnswered(w)
      PROVE  AppliedInv'
  <2>1. /\ Handles(w) /\ Busy(w) /\ Counted(ItemOf(w), work[w].saw) /\ Goto(w, "audit")
        /\ send' = send /\ ~head'.waiting
        /\ log'[ItemOf(w)].applied = log[ItemOf(w)].applied + 1
        /\ \A i \in Items \ {ItemOf(w)} : log'[i] = log[i]
    BY <1>6, AnsweredSets
  <2>2. ItemOf(w) \in Items /\ work[w].pc = "running" /\ WorkOK(w) /\ ItemOf(w).notice \in Sends
    BY <1>6, <2>1, InHand DEF SlaAnswered, At, WebInv
  <2>3. work[w].saw.waiting /\ work[w].saw.notice = ItemOf(w).notice
    <3>1. ItemOf(w).type = "failed" \/ ItemOf(w).quotes
      BY <2>1, <2>2 DEF TapsQuote, Counted
    <3> QED
      BY <2>1, <3>1 DEF Counted
  <2>4. log[ItemOf(w)].applied = 0 /\ send[ItemOf(w).notice].pc = "over"
    BY <2>1, <2>2, <2>3 DEF AppliedInv, WorkOK, Seen
  <2>5. PICK j \in Items : j = ItemOf(w)
    BY <2>2
  <2>6. \A i \in Items : log'[i].applied = 0 \/ (log'[i].applied = 1 /\ Gone(i.notice)')
    <3>0. log'[j].applied = 1 /\ Gone(j.notice)'
      BY <2>1, <2>2, <2>4, <2>5 DEF Gone
    <3> SUFFICES ASSUME NEW i \in Items, i # j
                 PROVE  log'[i].applied = 0 \/ (log'[i].applied = 1 /\ Gone(i.notice)')
      BY <3>0
    <3>1. i.notice \in Sends
      BY ItemsAssumption DEF ItemsAssumption, Item
    <3> QED
      BY <2>1, <2>5, <3>1, GoneStays DEF AppliedInv
  <2>7. work'[w].pc = "audit" /\ \A v \in Workers \ {w} : work'[v] = work[v]
    BY <1>0, <2>1, GotoSets DEF Handling
  <2>8. ASSUME NEW v \in Workers \ {w}, work[v].pc \in {"judge", "resume", "running"},
               work[v].saw.waiting, work[v].saw.notice = ItemOf(v).notice
        PROVE  log'[ItemOf(v)].applied = 0
    <3>1. Handles(v)
      BY <2>8 DEF Handles, Handling
    <3>2. ItemOf(v) \in Items /\ ItemOf(v) # ItemOf(w)
      BY <2>1, <3>1, InHand DEF WebInv, Exclusive
    <3> QED
      BY <2>1, <2>8, <3>2 DEF AppliedInv
  <2> QED
    BY <2>6, <2>7, <2>8 DEF AppliedInv, ItemOf
<1>7. ASSUME NEW s \in Sends, SendStep(s)
      PROVE  UNCHANGED <<work, log>>
  BY <1>7, SendAlone
<1>8. SlaLapses \/ UNCHANGED vars => UNCHANGED <<work, log>>
  BY DEF SlaLapses, Other, vars
<1>9. ASSUME NEW a \in Admins, ContactStep(a)
      PROVE  UNCHANGED <<work, log>>
  BY <1>9, ContactTypes
<1> QED
  BY <1>1, <1>2, <1>3, <1>4, <1>5, <1>6, <1>7, <1>8, <1>9 DEF Next, SendStep, ContactStep, FailStep

-----------------------------------------------------------------------------
(* What Meta was told is handled, is.                                      *)

\* No instance was lost, and no error met a timeout.
Stakes == crashes = 0 /\ (faults = 0 \/ timeouts = 0)

\* An item was handled; while there are timeouts (and then no errors, which
\* release claims) it may also be that another worker has it.
Safe(i) == log[i].last # "none" \/ (timeouts > 0 /\ i \in claims)

\* A claim is one of an item that was handled or is in hand ...
ClaimsOK == \A i \in claims : log[i].last # "none" \/ \E w \in Workers : Handles(w) /\ ItemOf(w) = i
\* ... what a worker has passed, and what Meta got a 200 for, is safe ...
PassedOK(w) ==
  Busy(w) => \A j \in 1..Len(work[w].payload) : j < work[w].i => Safe(work[w].payload[j])
AckedOK == \A p \in Payloads : meta[p] = "acked" => \A j \in 1..Len(p) : Safe(p[j])
\* ... and without timeouts one worker has a payload.
OneHand ==
  timeouts = 0 =>
    \A v, w \in Workers : Busy(v) /\ Busy(w) /\ work[v].payload = work[w].payload => v = w

DropInv == Stakes => ClaimsOK /\ (\A w \in Workers : PassedOK(w)) /\ AckedOK /\ OneHand

\* A step of one worker.
LEMMA DropWorker ==
  ASSUME WebInv, DropInv, Stakes', Stakes, NEW w \in Workers, \A v \in Workers \ {w} : Still(v),
         \A i \in Items : log[i].last # "none" => log'[i].last # "none",
         timeouts \in Nat, timeouts' \in Nat, timeouts' >= timeouts,
         timeouts' > 0 => claims \subseteq claims',
         \A i \in claims' : i \in claims \/ (Handles(w)' /\ ItemOf(w)' = i),
         Handles(w) => \/ log'[ItemOf(w)].last # "none" \/ ItemOf(w) \notin claims'
                       \/ Handles(w)' /\ ItemOf(w)' = ItemOf(w),
         PassedOK(w)',
         \A p \in Payloads : meta'[p] = "acked" => meta[p] = "acked" \/ \A j \in 1..Len(p) : Safe(p[j])',
         timeouts' = 0 /\ Busy(w)' =>
           \A v \in Workers \ {w} : Busy(v) => work[v].payload # work'[w].payload
  PROVE  DropInv'
<1>0. WorkTyped /\ ClaimsOK /\ (\A v \in Workers : PassedOK(v)) /\ AckedOK /\ OneHand
  BY DEF WebInv, Typed, DropInv
<1>1. \A i \in Items : Safe(i) => Safe(i)'
  BY DEF Safe
<1>2. \A v \in Workers \ {w} :
        /\ work'[v].payload = work[v].payload /\ work'[v].i = work[v].i
        /\ ItemOf(v)' = ItemOf(v) /\ Busy(v)' = Busy(v) /\ Handles(v)' = Handles(v)
  BY <1>0, StillSame
<1>3. ClaimsOK'
  <2> SUFFICES ASSUME NEW i \in claims', log'[i].last = "none"
               PROVE  \E v \in Workers : Handles(v)' /\ ItemOf(v)' = i
    BY DEF ClaimsOK
  <2>1. CASE i \notin claims
    BY <2>1
  <2>2. CASE i \in claims
    <3>1. i \in Items /\ log[i].last = "none"
      BY <1>0, <2>2 DEF WorkTyped
    <3>2. PICK v \in Workers : Handles(v) /\ ItemOf(v) = i
      BY <1>0, <2>2, <3>1 DEF ClaimsOK
    <3>3. CASE v = w
      BY <3>2, <3>3
    <3>4. CASE v # w
      BY <1>2, <3>2, <3>4
    <3> QED
      BY <3>3, <3>4
  <2> QED
    BY <2>1, <2>2
<1>4. ASSUME NEW v \in Workers \ {w}
      PROVE  PassedOK(v)'
  <2> SUFFICES ASSUME Busy(v), NEW j \in 1..Len(work[v].payload), j < work[v].i
               PROVE  Safe(work[v].payload[j])'
    BY <1>2 DEF PassedOK, Safe
  <2>1. PICK i \in Items : i = work[v].payload[j]
    BY <1>0, BusyWork
  <2>2. Safe(i)
    BY <1>0, <2>1 DEF PassedOK
  <2> QED
    BY <1>1, <1>2, <2>1, <2>2 DEF Safe
<1>5. AckedOK'
  <2> SUFFICES ASSUME NEW p \in Payloads, meta'[p] = "acked", meta[p] = "acked", NEW j \in 1..Len(p)
               PROVE  Safe(p[j])'
    BY DEF AckedOK
  <2>1. p[j] \in Items
    BY PayloadsAssumption DEF PayloadsAssumption
  <2>2. Safe(p[j])
    BY <1>0 DEF AckedOK
  <2> QED
    BY <1>1, <2>1, <2>2
<1>6. OneHand'
  <2> SUFFICES ASSUME timeouts' = 0, NEW u \in Workers, NEW v \in Workers, Busy(u)', Busy(v)',
                      work'[u].payload = work'[v].payload, u # v
               PROVE  FALSE
    BY DEF OneHand
  <2>1. timeouts = 0
    OBVIOUS
  <2>2. CASE u # w /\ v # w
    BY <1>0, <1>2, <2>1, <2>2 DEF OneHand
  <2>3. CASE u = w
    BY <1>2, <2>3
  <2>4. CASE v = w
    BY <1>2, <2>4
  <2> QED
    BY <2>2, <2>3, <2>4
<1> QED
  BY <1>3, <1>4, <1>5, <1>6 DEF DropInv

\* A step of no worker.
LEMMA DropStill ==
  ASSUME DropInv, UNCHANGED <<claims, work, log, meta, faults, timeouts>>, Stakes' => Stakes
  PROVE  DropInv'
<1> SUFFICES ASSUME Stakes' PROVE ClaimsOK' /\ (\A w \in Workers : PassedOK(w)') /\ AckedOK' /\ OneHand'
  BY DEF DropInv
<1>1. ClaimsOK /\ (\A w \in Workers : PassedOK(w)) /\ AckedOK /\ OneHand
  BY DEF DropInv
<1> QED
  BY <1>1 DEF ClaimsOK, PassedOK, AckedOK, OneHand, Safe, Handles, Busy, ItemOf

\* A worker that goes on with its payload, at the same item or the next.
LEMMA DropMoves ==
  ASSUME WebInv, DropInv, Stakes, Stakes', NEW w \in Workers, Busy(w),
         \A v \in Workers \ {w} : Still(v),
         \A i \in Items : log[i].last # "none" => log'[i].last # "none",
         UNCHANGED <<meta, timeouts>>,
         claims \subseteq claims', \A i \in claims' : i \in claims \/ (Handles(w)' /\ ItemOf(w)' = i),
         Handles(w) => \/ log'[ItemOf(w)].last # "none"
                       \/ Handles(w)' /\ ItemOf(w)' = ItemOf(w),
         work'[w].payload = work[w].payload,
         \/ work'[w].i = work[w].i
         \/ work'[w].i = work[w].i + 1 /\ (work[w].i \in 1..Len(work[w].payload) => Safe(ItemOf(w)))
         \/ work'[w].i = work[w].i + 1 /\ (work[w].i \in 1..Len(work[w].payload) => log'[ItemOf(w)].last # "none")
  PROVE  DropInv'
<1>0. WorkTyped /\ PassedOK(w) /\ OneHand /\ timeouts \in Nat
  BY DEF WebInv, Typed, DropInv, WorkTyped
<1>1. work[w].payload \in Seq(Items) /\ work[w].i \in Nat /\ Len(work[w].payload) \in Nat
  BY <1>0, BusyWork
<1>2. \A i \in Items : Safe(i) => Safe(i)'
  BY DEF Safe
<1>3. PassedOK(w)'
  <2> SUFFICES ASSUME NEW j \in 1..Len(work[w].payload), j < work'[w].i
               PROVE  Safe(work[w].payload[j])'
    BY DEF PassedOK, Safe
  <2>1. PICK i \in Items : i = work[w].payload[j]
    BY <1>1
  <2>2. Safe(i)'
    <3>1. CASE j < work[w].i
      <4>1. Safe(i)
        BY <1>0, <2>1, <3>1 DEF PassedOK
      <4> QED
        BY <1>2, <4>1
    <3>2. CASE ~(j < work[w].i)
      <4>1. j = work[w].i /\ work'[w].i = work[w].i + 1 /\ i = ItemOf(w)
        BY <1>1, <2>1, <3>2 DEF ItemOf
      <4>2. Safe(i) \/ log'[i].last # "none"
        BY <1>1, <4>1
      <4> QED
        BY <1>2, <4>2 DEF Safe
    <3> QED
      BY <3>1, <3>2
  <2> QED
    BY <2>1, <2>2 DEF Safe
<1>4. timeouts' = 0 => \A v \in Workers \ {w} : Busy(v) => work[v].payload # work'[w].payload
  BY <1>0 DEF OneHand
<1> QED
  BY <1>0, <1>3, <1>4, DropWorker

\* A delivery begins with nothing passed.
LEMMA DropDeliver ==
  ASSUME WebInv, DropInv, Stakes, Stakes', NEW w \in Workers, NEW p \in Payloads, Deliver(w, p)
  PROVE  DropInv'
<1>0. WorkTyped /\ timeouts \in Nat /\ AckedOK
  BY DEF WebInv, Typed, WorkTyped, DropInv
<1>1. /\ ~Busy(w) /\ log' = log /\ claims' = claims /\ \A v \in Workers \ {w} : Still(v)
      /\ work'[w] = [pc |-> "claim", payload |-> p, i |-> 1, late |-> FALSE, saw |-> head,
                     early |-> FALSE, loaded |-> NoNotice]
      /\ meta' = [meta EXCEPT ![p] = "pending"]
      /\ timeouts' \in Nat /\ timeouts' >= timeouts
      /\ timeouts' = 0 => \A v \in Workers : Busy(v) => work[v].payload # p
  BY DeliverSets
<1>2. work'[w].i = 1 /\ work'[w].payload = p
  BY <1>1
<1>3. PassedOK(w)' /\ ~Handles(w)
  BY <1>1, <1>2 DEF PassedOK, Handles, Handling, Busy
<1>4. \A q \in Payloads : meta'[q] = "acked" => meta[q] = "acked"
  BY <1>0, <1>1 DEF WorkTyped
<1> QED
  BY <1>0, <1>1, <1>2, <1>3, <1>4, DropWorker

\* A claim is taken, found taken, or the payload is at its end.
LEMMA DropClaim ==
  ASSUME OnePayloadEach, WebInv, DropInv, Stakes, Stakes', NEW w \in Workers, Claim(w)
  PROVE  DropInv'
<1>0. WorkTyped /\ timeouts \in Nat /\ ClaimsOK /\ PassedOK(w) /\ AckedOK /\ OneHand
  BY DEF WebInv, Typed, WorkTyped, DropInv
<1>1. Busy(w) /\ ~Handles(w) /\ log' = log /\ timeouts' = timeouts
  BY DEF Claim, At, Busy, Handles, Handling, bounds
<1>2. /\ work[w].payload \in Payloads /\ work[w].payload \in Seq(Items)
      /\ work[w].i \in Nat \ {0} /\ Len(work[w].payload) \in Nat
  BY <1>0, <1>1, BusyWork
<1>3. CASE work[w].i > Len(work[w].payload)
  <2>1. Answer(w, TRUE) /\ claims' = claims
    BY <1>3 DEF Claim
  <2>2. /\ work'[w] = Idle /\ \A v \in Workers \ {w} : Still(v)
        /\ \A p \in Payloads : meta'[p] = "acked" => meta[p] = "acked" \/ p = work[w].payload
    BY <1>0, <1>1, <2>1, AnswerSets
  <2>3. ~Busy(w)'
    BY <2>2 DEF Busy, Idle
  <2>4. ASSUME NEW j \in 1..Len(work[w].payload)
        PROVE  Safe(work[w].payload[j]) /\ work[w].payload[j] \in Items
    BY <1>0, <1>1, <1>2, <1>3 DEF PassedOK
  <2>5. \A i \in Items : Safe(i) => Safe(i)'
    BY <1>1, <2>1 DEF Safe
  <2>6. ASSUME NEW p \in Payloads, meta'[p] = "acked", meta[p] # "acked", NEW j \in 1..Len(p)
        PROVE  Safe(p[j])'
    BY <2>2, <2>4, <2>5, <2>6
  <2> QED
    BY <1>0, <1>1, <2>1, <2>2, <2>3, <2>6, DropWorker DEF PassedOK
<1>4. CASE ~(work[w].i > Len(work[w].payload)) /\ ItemOf(w) \in claims
  <2>1. NextItem(w) /\ claims' = claims /\ meta' = meta
    BY <1>4 DEF Claim
  <2>2. /\ \A v \in Workers \ {w} : Still(v)
        /\ work'[w].payload = work[w].payload /\ work'[w].i = work[w].i + 1
    BY <1>0, <1>1, <2>1, NextItemSets
  <2>3. Safe(ItemOf(w))
    <3> SUFFICES ASSUME log[ItemOf(w)].last = "none", timeouts = 0 PROVE FALSE
      BY <1>0, <1>4 DEF Safe
    <3>1. PICK v \in Workers : Handles(v) /\ ItemOf(v) = ItemOf(w)
      BY <1>0, <1>4 DEF ClaimsOK
    <3>2. /\ Busy(v) /\ work[v].payload \in Payloads /\ work[v].i \in 1..Len(work[v].payload)
      BY <3>1, InHand
    <3>3. work[w].i \in 1..Len(work[w].payload)
      BY <1>2, <1>4
    <3>4. work[v].payload = work[w].payload
      BY <1>2, <3>1, <3>2, <3>3 DEF OnePayloadEach, ItemOf
    <3> QED
      BY <1>0, <1>1, <3>1, <3>2, <3>4 DEF OneHand
  <2> QED
    BY <1>1, <2>1, <2>2, <2>3, DropMoves
<1>5. CASE ~(work[w].i > Len(work[w].payload)) /\ ItemOf(w) \notin claims
  <2>1. Goto(w, "look") /\ claims' = claims \cup {ItemOf(w)} /\ meta' = meta
    BY <1>5 DEF Claim
  <2>2. /\ \A v \in Workers \ {w} : Still(v)
        /\ work'[w].pc = "look" /\ work'[w].payload = work[w].payload /\ work'[w].i = work[w].i
        /\ ItemOf(w)' = ItemOf(w)
    BY <1>0, <1>1, <2>1, GotoSets DEF Handling
  <2>3. Handles(w)'
    BY <2>2 DEF Handles, Handling
  <2> QED
    BY <1>1, <2>1, <2>2, <2>3, DropMoves
<1> QED
  BY <1>3, <1>4, <1>5

\* An item in hand is left when there is a word of it, or goes on.
LEMMA DropItem ==
  ASSUME WebInv, DropInv, Stakes, Stakes', NEW w \in Workers,
         Look(w) \/ Judge(w) \/ Resume(w) \/ Audit(w) \/ SlaAnswered(w)
  PROVE  DropInv'
<1>0. WorkTyped
  BY DEF WebInv, Typed
<1>1. Handles(w) /\ UNCHANGED <<meta, timeouts, claims>>
  BY DEF Look, Judge, Resume, Audit, SlaAnswered, At, Handles, Handling, bounds
<1>2. Busy(w) /\ ItemOf(w) \in Items /\ work[w] \in Work /\ WorkOK(w)
  BY <1>1, InHand DEF WebInv
<1>3. \A i \in Items : log[i].last # "none" => log'[i].last # "none"
  <2>1. CASE SlaAnswered(w)
    BY <2>1, AnsweredSets
  <2>2. CASE log' = log
    BY <2>2
  <2>3. ASSUME NEW outcome \in {"early", "ignored", "applied"}, Logged(ItemOf(w), outcome)
        PROVE  \A i \in Items : log[i].last # "none" => log'[i].last # "none"
    <3>1. log'[ItemOf(w)].last = outcome /\ \A j \in Items \ {ItemOf(w)} : log'[j] = log[j]
      BY <1>0, <1>2, <2>3, LoggedTyped
    <3> QED
      BY <2>3, <3>1
  <2> QED
    BY <2>1, <2>2, <2>3 DEF Look, Judge, Resume, Audit
<1>4. CASE NextItem(w)
  <2>1. /\ \A v \in Workers \ {w} : Still(v)
        /\ work'[w].payload = work[w].payload /\ work'[w].i = work[w].i + 1
    BY <1>0, <1>2, <1>4, NextItemSets
  <2>2. log'[ItemOf(w)].last # "none"
    <3>1. CASE Audit(w)
      BY <1>2, <3>1 DEF Audit, WorkOK
    <3>2. ASSUME NEW outcome \in {"early", "ignored", "applied"}, Logged(ItemOf(w), outcome)
          PROVE  log'[ItemOf(w)].last # "none"
      BY <1>0, <1>2, <3>2, LoggedTyped
    <3>3. ~Goto(w, "resume") /\ ~Goto(w, "audit")
      BY <1>0, <1>2, <1>4, NextItemSets, GotoSets DEF Handling
    <3>4. CASE Look(w)
      <4>1. work'[w].pc = "claim"
        BY <1>0, <1>2, <1>4, NextItemSets
      <4>2. ~(\E r \in Work : work' = [work EXCEPT ![w] = r] /\ r.pc = "judge")
        BY <1>0, <4>1, SetWork
      <4>3. Logged(ItemOf(w), IF Early(ItemOf(w)) THEN "early" ELSE "ignored")
        BY <3>4, <4>2, LookSets
      <4> QED
        BY <3>2, <4>3
    <3>5. CASE Judge(w)
      BY <3>2, <3>3, <3>5, JudgeSets
    <3>6. CASE Resume(w)
      <4>1. work'[w].pc = "claim"
        BY <1>0, <1>2, <1>4, NextItemSets
      <4>2. ~(\E r \in Work : work' = [work EXCEPT ![w] = r] /\ r.pc = "running")
        BY <1>0, <4>1, SetWork
      <4> QED
        BY <3>3, <3>6, <4>2, ResumeSets
    <3>7. CASE SlaAnswered(w)
      BY <3>3, <3>7 DEF SlaAnswered
    <3> QED
      BY <3>1, <3>4, <3>5, <3>6, <3>7
  <2> QED
    BY <1>1, <1>2, <1>3, <2>1, <2>2, DropMoves
<1>5. CASE \E p \in {"resume", "audit"} : Goto(w, p)
  <2>1. /\ \A v \in Workers \ {w} : Still(v)
        /\ work'[w].payload = work[w].payload /\ work'[w].i = work[w].i
        /\ ItemOf(w)' = ItemOf(w) /\ work'[w].pc \in Handling
    BY <1>0, <1>2, <1>5, GotoSets DEF Handling
  <2>2. Handles(w)'
    BY <2>1 DEF Handles
  <2> QED
    BY <1>1, <1>2, <1>3, <2>1, <2>2, DropMoves
<1>6. CASE \E r \in Work : /\ work' = [work EXCEPT ![w] = r] /\ r.pc \in {"judge", "running"}
                           /\ r.payload = work[w].payload /\ r.i = work[w].i
  <2>1. PICK r \in Work : /\ work' = [work EXCEPT ![w] = r] /\ r.pc \in {"judge", "running"}
                          /\ r.payload = work[w].payload /\ r.i = work[w].i
    BY <1>6
  <2>2. work'[w] = r /\ \A v \in Workers \ {w} : Still(v)
    BY <1>0, <2>1, SetWork
  <2>3. ItemOf(w)' = ItemOf(w) /\ Handles(w)'
    BY <2>1, <2>2 DEF ItemOf, Handles, Handling
  <2> QED
    BY <1>1, <1>2, <1>3, <2>1, <2>2, <2>3, DropMoves
<1>7. CASE Look(w)
  BY <1>4, <1>6, <1>7, LookSets
<1>8. CASE Judge(w)
  BY <1>4, <1>5, <1>8, JudgeSets
<1>9. CASE Resume(w)
  BY <1>5, <1>6, <1>9, ResumeSets
<1>10. CASE Audit(w) \/ SlaAnswered(w)
  BY <1>4, <1>5, <1>10 DEF Audit, SlaAnswered
<1> QED
  BY <1>7, <1>8, <1>9, <1>10

\* An error gives the claim back, and Meta will ask again.
LEMMA DropFail ==
  ASSUME WebInv, DropInv, Stakes, Stakes', NEW w \in Workers, FailStep(w)
  PROVE  DropInv'
<1>0. WorkTyped /\ timeouts \in Nat
  BY DEF WebInv, Typed, WorkTyped
<1>1. /\ Busy(w) /\ Answer(w, FALSE) /\ log' = log /\ timeouts' = timeouts
      /\ Handles(w) /\ claims' = claims \ {ItemOf(w)} /\ faults' = faults + 1 /\ faults \in Nat
  <2>1. /\ Busy(w) /\ Answer(w, FALSE) /\ log' = log /\ timeouts' = timeouts
        /\ faults \in Nat /\ crashes \in Nat
        /\ \/ Handles(w) /\ claims' = claims \ {ItemOf(w)} /\ faults' = faults + 1
           \/ crashes' = crashes + 1
    BY FailSets
  <2>2. crashes' # crashes + 1
    BY <2>1 DEF Stakes
  <2> QED
    BY <2>1, <2>2
<1>2. timeouts' = 0
  BY <1>1 DEF Stakes
<1>3. /\ work'[w] = Idle /\ \A v \in Workers \ {w} : Still(v)
      /\ \A p \in Payloads : meta'[p] = "acked" => meta[p] = "acked"
  BY <1>0, <1>1, AnswerSets
<1>4. ~Busy(w)'
  BY <1>3 DEF Busy, Idle
<1> QED
  BY <1>0, <1>1, <1>2, <1>3, <1>4, DropWorker DEF PassedOK

\* Every step keeps what Meta was told true.
LEMMA DropStep ==
  ASSUME OnePayloadEach, WebInv, DropInv, [Next]_vars
  PROVE  DropInv'
<1>0. faults \in Nat /\ crashes \in Nat /\ timeouts \in Nat
  BY DEF WebInv, Typed, WorkTyped
<1>1. CASE SlaLapses \/ UNCHANGED vars \/ \E a \in Admins : ContactStep(a)
  <2>1. UNCHANGED <<claims, work, log, meta, faults, crashes, timeouts>>
    BY <1>1, ContactTypes DEF SlaLapses, Other, bounds, vars
  <2> QED
    BY <2>1, DropStill DEF Stakes
<1>2. ASSUME NEW s \in Sends, SendStep(s)
      PROVE  DropInv'
  <2>1. /\ UNCHANGED <<claims, work, log, meta, faults, timeouts>>
        /\ crashes' = crashes \/ crashes' = crashes + 1
    BY <1>2 DEF SendStep, Address, Send, AuditSend, SaveNotice, AwaitSla, LoseSend, Other, bounds
  <2>2. Stakes' => Stakes
    BY <1>0, <2>1 DEF Stakes
  <2> QED
    BY <2>1, <2>2, DropStill
<1>3. ASSUME NEW w \in Workers, Claim(w) \/ Look(w) \/ Judge(w) \/ Resume(w) \/ Audit(w) \/ SlaAnswered(w)
      PROVE  DropInv'
  <2>1. Stakes' = Stakes
    BY <1>3 DEF Claim, Look, Judge, Resume, Audit, SlaAnswered, bounds, Stakes
  <2> QED
    BY <1>3, <2>1, DropClaim, DropItem DEF DropInv
<1>4. ASSUME NEW w \in Workers, NEW p \in Payloads, Deliver(w, p)
      PROVE  DropInv'
  <2>0. faults' = faults /\ crashes' = crashes /\ timeouts' \in Nat /\ timeouts' >= timeouts
    BY <1>4, DeliverSets
  <2>1. Stakes' => Stakes
    BY <1>0, <2>0 DEF Stakes
  <2> QED
    BY <1>4, <2>1, DropDeliver DEF DropInv
<1>5. ASSUME NEW w \in Workers, FailStep(w)
      PROVE  DropInv'
  <2>0. /\ timeouts' = timeouts /\ faults' \in {faults, faults + 1}
        /\ crashes' \in {crashes, crashes + 1}
    BY <1>5, FailSets
  <2>1. Stakes' => Stakes
    BY <1>0, <2>0 DEF Stakes
  <2> QED
    BY <1>5, <2>1, DropFail DEF DropInv
<1> QED
  BY <1>1, <1>2, <1>3, <1>4, <1>5 DEF Next, SendStep, ContactStep, FailStep

-----------------------------------------------------------------------------
(* A version of a contact stands for one number.                           *)

\* The contact is the newest of its rows ...
NewestRow ==
  contact # NoContact =>
    /\ <<contact.id, contact.version, contact.phone>> \in rows
    /\ \A r \in rows : r[1] = contact.id => r[2] <= contact.version
\* ... and an edit under way is one of it, to a later version.
EditOK ==
  \A a \in Admins : editing[a] # Idle =>
    /\ editing[a].row = contact
    /\ contact # NoContact => editing[a].version > contact.version

ContactInv == VersionNamesNumber /\ NewestRow /\ EditOK

\* A commit writes a new row: of a new id, or a later version of the contact.
LEMMA CommitSets ==
  ASSUME WebInv, ContactInv, NEW a \in Admins, CommitContact(a)
  PROVE  /\ contact' \in Contact /\ contact' # contact /\ contact' # NoContact
         /\ rows' = rows \cup {<<contact'.id, contact'.version, contact'.phone>>}
         /\ \/ contact'.id \notin Ids
            \/ contact # NoContact /\ contact'.id = contact.id /\ contact'.version > contact.version
<1>0. ContactTyped /\ contact \in Contact \cup {NoContact}
  BY DEF WebInv, Typed, ContactTyped
<1> DEFINE e == editing[a]
           id == 1 + Cardinality(Ids)
<1>1. e \in Edit /\ e.row = contact /\ (contact # NoContact => e.version > contact.version)
  BY <1>0 DEF ContactTyped, ContactInv, EditOK, CommitContact
<1>2. PICK n \in Nat : Ids = 1..n
  BY <1>0 DEF ContactTyped
<1>3. id = n + 1
  <2>1. Cardinality(1..n) = n
    BY FS_Interval
  <2> QED
    BY <1>2, <2>1
<1> HIDE DEF id
<1>4. \/ /\ contact = NoContact
         /\ contact' = [id |-> id, version |-> e.version, phone |-> e.phone, active |-> e.active]
      \/ contact # NoContact /\ contact' = Written(e, contact)
  <2>1. \/ /\ contact = NoContact
           /\ contact' = [id |-> id, version |-> e.version, phone |-> e.phone, active |-> e.active]
        \/ e.row # NoContact /\ contact' = Written(e, contact)
        \/ contact.id # e.row.id
    BY Zenon DEF CommitContact, Ids, id
  <2> QED
    BY <1>1, <2>1
<1>5. /\ contact' \in Contact /\ contact' # contact
      /\ \/ contact'.id \notin Ids
         \/ contact # NoContact /\ contact'.id = contact.id /\ contact'.version > contact.version
  <2>1. CASE contact = NoContact
    <3>1. contact' = [id |-> id, version |-> e.version, phone |-> e.phone, active |-> e.active]
      BY <1>4, <2>1
    <3>2. contact' \in Contact /\ contact'.id = n + 1
      BY <1>1, <1>3, <3>1 DEF Contact, Edit
    <3>3. contact'.id \notin Ids /\ contact.id = 0
      BY <1>2, <2>1, <3>2 DEF NoContact
    <3> QED
      BY <3>2, <3>3
  <2>2. CASE contact # NoContact
    <3>1. contact \in Contact /\ contact' = Written(e, contact) /\ e.version > contact.version
      BY <1>0, <1>1, <1>4, <2>2
    <3>2. contact' \in Contact /\ contact'.id = contact.id /\ contact'.version = e.version
      BY <1>1, <3>1 DEF Written, Contact, Edit
    <3>3. contact'.version > contact.version /\ contact.version \in Nat
      BY <3>1, <3>2 DEF Contact
    <3> QED
      BY <2>2, <3>2, <3>3
  <2> QED
    BY <2>1, <2>2
<1>6. contact' # NoContact
  BY <1>5 DEF Contact, NoContact
<1> QED
  BY <1>5, <1>6 DEF CommitContact

\* Edits one after the other keep that.
LEMMA ContactStays ==
  ASSUME WebInv, ContactInv, NEW a \in Admins, ContactStep(a), SerialEdits
  PROVE  ContactInv' /\ rows \subseteq rows'
<1>0. ContactTyped /\ contact \in Contact \cup {NoContact}
  BY DEF WebInv, Typed, ContactTyped
<1>1. CASE ReadContact(a)
  <2>1. contact' = contact /\ rows' = rows
    BY <1>1 DEF ReadContact
  <2>2. EditOK'
    <3> SUFFICES ASSUME NEW b \in Admins, editing'[b] # Idle
                 PROVE  /\ editing'[b].row = contact
                        /\ contact # NoContact => editing'[b].version > contact.version
      BY <2>1 DEF EditOK
    <3>1. PICK phone \in Phones, active \in BOOLEAN, now \in Times :
            editing' = [editing EXCEPT ![a] =
              [row |-> contact, phone |-> phone, active |-> active,
               version |-> NextUpdateTime(contact, now)]]
      BY <1>1 DEF ReadContact
    <3>2. contact # NoContact => NextUpdateTime(contact, now) > contact.version
      <4>1. now \in Nat /\ (contact # NoContact => contact.version \in Nat)
        BY <1>0, TimesAssumption DEF TimesAssumption, Contact
      <4> QED
        BY <4>1 DEF NextUpdateTime
    <3>3. CASE b = a
      BY <1>0, <3>1, <3>2, <3>3 DEF ContactTyped
    <3>4. CASE b # a
      <4>1. editing'[b] = editing[b]
        BY <1>0, <3>1, <3>4 DEF ContactTyped
      <4> QED
        BY <4>1 DEF ContactInv, EditOK
    <3> QED
      BY <3>3, <3>4
  <2> QED
    BY <2>1, <2>2 DEF ContactInv, VersionNamesNumber, NewestRow
<1>2. CASE CommitContact(a)
  <2>1. /\ contact' \in Contact /\ contact' # contact /\ contact' # NoContact
        /\ rows' = rows \cup {<<contact'.id, contact'.version, contact'.phone>>}
        /\ \/ contact'.id \notin Ids
           \/ contact # NoContact /\ contact'.id = contact.id /\ contact'.version > contact.version
    BY <1>2, CommitSets
  <2>2. EditOK'
    BY <2>1 DEF SerialEdits, EditOK
  <2>3. PICK t : t = <<contact'.id, contact'.version, contact'.phone>>
    OBVIOUS
  <2>4. t[1] = contact'.id /\ t[2] = contact'.version /\ t[3] = contact'.phone /\ rows' = rows \cup {t}
    BY <2>1, <2>3
  <2>5. contact'.version \in Nat /\ (contact # NoContact => contact.version \in Nat)
    BY <1>0, <2>1 DEF Contact
  <2>6. \A r \in rows : r[2] \in Nat /\ r[1] \in Ids
    BY <1>0 DEF ContactTyped, Ids
  <2>7. \A r \in rows : r[1] = t[1] => r[2] < t[2]
    BY <2>1, <2>4, <2>5, <2>6 DEF ContactInv, NewestRow
  <2>8. NewestRow'
    BY <2>1, <2>3, <2>4, <2>5, <2>6, <2>7 DEF NewestRow
  <2>9. VersionNamesNumber'
    <3> SUFFICES ASSUME NEW q \in rows', NEW r \in rows', q[1] = r[1], q[2] = r[2]
                 PROVE  q[3] = r[3]
      BY DEF VersionNamesNumber
    <3>1. CASE q \in rows /\ r \in rows
      BY <3>1 DEF ContactInv, VersionNamesNumber
    <3>2. CASE q = t /\ r \in rows
      BY <2>4, <2>5, <2>6, <2>7, <3>2
    <3>3. CASE q \in rows /\ r = t
      BY <2>4, <2>5, <2>6, <2>7, <3>3
    <3> QED
      BY <2>4, <3>1, <3>2, <3>3
  <2> QED
    BY <2>1, <2>2, <2>8, <2>9 DEF ContactInv
<1>3. CASE RemoveContact(a)
  <2>1. contact' = NoContact /\ contact # NoContact /\ rows' = rows
    BY <1>3 DEF RemoveContact
  <2>2. \A b \in Admins : editing'[b] = Idle
    BY <2>1 DEF SerialEdits
  <2> QED
    BY <2>1, <2>2 DEF ContactInv, VersionNamesNumber, NewestRow, EditOK
<1> QED
  BY <1>1, <1>2, <1>3 DEF ContactStep

\* In the beginning, and whatever else happens.
LEMMA ContactInit ==
  ASSUME Init
  PROVE  ContactInv
<1>1. PICK p \in Phones : contact = [id |-> 1, version |-> 0, phone |-> p, active |-> TRUE]
  BY DEF Init
<1>2. contact.id = 1 /\ contact.version = 0 /\ contact.phone = p /\ rows = {<<1, 0, p>>}
  BY <1>1 DEF Init
<1>3. \A a \in Admins : editing[a] = Idle
  BY DEF Init
<1> QED
  BY <1>2, <1>3 DEF ContactInv, VersionNamesNumber, NewestRow, EditOK

\* Every step, of edits one after the other, keeps a version to one number.
LEMMA ContactNext ==
  ASSUME WebInv, ContactInv, [Next /\ SerialEdits]_vars
  PROVE  ContactInv' /\ rows \subseteq rows'
<1>1. CASE UNCHANGED <<contact, editing, rows>>
  BY <1>1 DEF ContactInv, VersionNamesNumber, NewestRow, EditOK
<1>2. ASSUME NEW a \in Admins, ContactStep(a), SerialEdits
      PROVE  ContactInv' /\ rows \subseteq rows'
  BY <1>2, ContactStays
<1>3. \A s \in Sends : SendStep(s) => UNCHANGED <<contact, editing, rows>>
  BY SendAlone
<1>4. ASSUME NEW w \in Workers, NEW p \in Payloads, Deliver(w, p)
      PROVE  UNCHANGED <<contact, editing, rows>>
  BY <1>4 DEF Deliver, db
<1>5. ASSUME NEW w \in Workers,
             Claim(w) \/ Look(w) \/ Judge(w) \/ Resume(w) \/ SlaAnswered(w) \/ Audit(w) \/ Fault(w) \/ Crash(w)
      PROVE  UNCHANGED <<contact, editing, rows>>
  BY <1>5 DEF Claim, Look, Judge, Resume, SlaAnswered, Audit, Fault, Crash, db
<1>6. SlaLapses \/ UNCHANGED vars => UNCHANGED <<contact, editing, rows>>
  BY DEF SlaLapses, db, vars
<1> QED
  BY <1>1, <1>2, <1>3, <1>4, <1>5, <1>6 DEF Next, SendStep, ContactStep

-----------------------------------------------------------------------------
(* Only the recipient's answer counts.                                     *)

\* A notice went to the default number, or to a version of the contact that
\* was active, in a row that says which number that was.
ToOK ==
  \A s \in Sends :
    IF send[s].to.contact = 0 THEN send[s].to.phone = DefaultPhone
    ELSE /\ <<send[s].to.contact, send[s].to.version, send[s].to.phone>> \in rows
         /\ contact # NoContact /\ contact.id = send[s].to.contact
              /\ contact.version = send[s].to.version => contact.active

\* A tap that was judged to count is the recipient's.
ByRecipient(w) ==
  work[w].pc \in {"resume", "running"} /\ ItemOf(w).type = "tap" =>
    ItemOf(w).from = send[work[w].saw.notice].to.phone

MetOK == \A m \in met : m[2] \in Sends /\ send[m[2]].pc # "idle" /\ m[1].from = send[m[2]].to.phone

RecipientInv == ToOK /\ (\A w \in Workers : ByRecipient(w)) /\ MetOK

\* A send that has an address keeps it.
LEMMA ToStays ==
  ASSUME WebInv, [Next]_vars, NEW s \in Sends, send[s].pc # "idle"
  PROVE  send'[s].pc # "idle" /\ send'[s].to = send[s].to
<1>1. CASE Aside
  BY <1>1, AsideKeeps
<1>2. CASE SlaLapses
  BY <1>2 DEF SlaLapses
<1>3. ASSUME NEW w \in Workers, SlaAnswered(w)
      PROVE  send' = send
  BY <1>3, AnsweredSets
<1>4. ASSUME NEW t \in Sends, SendStep(t)
      PROVE  send'[s].pc # "idle" /\ send'[s].to = send[s].to
  <2>1. CASE t # s
    BY <1>4, <2>1, SendAlone
  <2>2. CASE t = s
    <3>1. send \in [Sends -> SendState] /\ send[s] \in SendState
      BY DEF WebInv, Typed, RunTyped
    <3>2. \/ \E p \in {"sent", "refused", "audited", "saved", "over"} : send' = [send EXCEPT ![s].pc = p]
          \/ send' = [send EXCEPT ![s].pc = "sent", ![s].out = TRUE]
          \/ send' = [send EXCEPT ![s].pc = "audited", ![s].audited = TRUE]
      BY <1>4, <2>2 DEF SendStep, Address, Send, AuditSend, SaveNotice, AwaitSla, LoseSend, Sending
    <3> QED
      BY <3>1, <3>2 DEF SendState
  <2> QED
    BY <2>1, <2>2
<1> QED
  BY <1>1, <1>2, <1>3, <1>4 DEF Next, Aside, SendStep, ContactStep

\* A send that is over stays so.
LEMMA OverStays ==
  ASSUME WebInv, [Next]_vars, NEW s \in Sends, send[s].pc = "over"
  PROVE  send'[s].pc = "over"
<1>1. CASE Aside
  BY <1>1, AsideKeeps
<1>2. CASE SlaLapses
  BY <1>2 DEF SlaLapses
<1>3. ASSUME NEW w \in Workers, SlaAnswered(w)
      PROVE  send' = send
  BY <1>3, AnsweredSets
<1>4. ASSUME NEW t \in Sends, SendStep(t)
      PROVE  send'[s].pc = "over"
  BY <1>4, SendAlone
<1> QED
  BY <1>1, <1>2, <1>3, <1>4 DEF Next, Aside, SendStep, ContactStep

\* How the contact changes: not at all, or to none, a new id or a later
\* version; a send is addressed only while it does not.
LEMMA ContactMoves ==
  ASSUME WebInv, ContactInv, [Next]_vars
  PROVE  \/ contact' = contact
         \/ /\ send' = send
            /\ \/ contact' = NoContact
               \/ contact' # NoContact /\ contact'.id \notin Ids
               \/ contact # NoContact /\ contact'.id = contact.id /\ contact'.version > contact.version
                    /\ contact'.version \in Nat
<1>1. ASSUME NEW a \in Admins, ContactStep(a)
      PROVE  \/ contact' = contact
             \/ /\ send' = send
                /\ \/ contact' = NoContact
                   \/ contact' # NoContact /\ contact'.id \notin Ids
                   \/ contact # NoContact /\ contact'.id = contact.id /\ contact'.version > contact.version
                        /\ contact'.version \in Nat
  <2>1. send' = send
    BY <1>1, ContactTypes
  <2>2. CASE ReadContact(a)
    BY <2>2 DEF ReadContact
  <2>3. CASE CommitContact(a)
    <3>1. /\ contact' \in Contact /\ contact' # NoContact
          /\ \/ contact'.id \notin Ids
             \/ contact # NoContact /\ contact'.id = contact.id /\ contact'.version > contact.version
      BY <2>3, CommitSets
    <3> QED
      BY <2>1, <3>1 DEF Contact
  <2>4. CASE RemoveContact(a)
    BY <2>1, <2>4 DEF RemoveContact
  <2> QED
    BY <1>1, <2>2, <2>3, <2>4 DEF ContactStep
<1>2. \A s \in Sends : SendStep(s) => contact' = contact
  BY SendAlone
<1>3. ASSUME NEW w \in Workers, NEW p \in Payloads, Deliver(w, p)
      PROVE  contact' = contact
  BY <1>3 DEF Deliver, db
<1>4. ASSUME NEW w \in Workers,
             Claim(w) \/ Look(w) \/ Judge(w) \/ Resume(w) \/ SlaAnswered(w) \/ Audit(w) \/ Fault(w) \/ Crash(w)
      PROVE  contact' = contact
  BY <1>4 DEF Claim, Look, Judge, Resume, SlaAnswered, Audit, Fault, Crash, db
<1>5. SlaLapses \/ UNCHANGED vars => contact' = contact
  BY DEF SlaLapses, db, vars
<1> QED
  BY <1>1, <1>2, <1>3, <1>4, <1>5 DEF Next, SendStep, ContactStep

\* A version that the contact has left does not come back.
LEMMA VersionsPass ==
  ASSUME WebInv, ContactInv, [Next]_vars, NEW id, NEW version, NEW phone,
         <<id, version, phone>> \in rows, contact' # contact, contact' # NoContact
  PROVE  ~(contact'.id = id /\ contact'.version = version)
<1>1. PICK t \in rows : t[1] = id /\ t[2] = version
  OBVIOUS
<1>2. t[1] \in Ids /\ t[2] \in Nat
  BY DEF Ids, WebInv, Typed, ContactTyped
<1>3. contact # NoContact => contact.version \in Nat
  BY DEF WebInv, Typed, ContactTyped, Contact
<1>4. contact # NoContact /\ contact.id = id => version <= contact.version
  BY <1>1 DEF ContactInv, NewestRow
<1> QED
  BY <1>1, <1>2, <1>3, <1>4, ContactMoves

\* The number a notice went to is the one its recorded version stands for.
LEMMA RecipientIs ==
  ASSUME WebInv, ContactInv, ToOK, NEW s \in Sends, NEW phone \in NoticeRecipient(s)
  PROVE  phone = send[s].to.phone
<1>0. s # NoNotice
  BY SendsAssumption DEF SendsAssumption, Sends, NoNotice
<1>1. CASE send[s].to.contact = 0
  BY <1>0, <1>1 DEF NoticeRecipient, ToOK
<1>2. CASE send[s].to.contact # 0
  <2>1. /\ contact # NoContact /\ contact.id = send[s].to.contact
        /\ contact.version = send[s].to.version /\ phone = contact.phone
    BY <1>0, <1>2 DEF NoticeRecipient
  <2>2. /\ <<contact.id, contact.version, contact.phone>> \in rows
        /\ <<contact.id, contact.version, send[s].to.phone>> \in rows
    BY <1>2, <2>1 DEF ContactInv, NewestRow, ToOK
  <2>3. contact.phone = send[s].to.phone
    BY <2>2 DEF ContactInv, VersionNamesNumber
  <2> QED
    BY <2>1, <2>3
<1> QED
  BY <1>1, <1>2

\* Whose answer does not count will not be counted later.
LEMMA RecipientsShrink ==
  ASSUME WebInv, ContactInv, ToOK, [Next]_vars, NEW s \in Sends, send[s].pc # "idle"
  PROVE  NoticeRecipient(s)' \subseteq NoticeRecipient(s)
<1>1. send'[s].to = send[s].to
  BY ToStays
<1>2. CASE contact' = contact
  BY <1>1, <1>2 DEF NoticeRecipient
<1>3. CASE contact' # contact
  <2>1. CASE send[s].to.contact = 0
    BY <1>1, <2>1 DEF NoticeRecipient
  <2>2. CASE send[s].to.contact # 0
    <3>1. <<send[s].to.contact, send[s].to.version, send[s].to.phone>> \in rows
      BY <2>2 DEF ToOK
    <3>2. contact' = NoContact \/ ~(contact'.id = send[s].to.contact /\ contact'.version = send[s].to.version)
      BY <1>3, <3>1, VersionsPass
    <3> QED
      BY <1>1, <2>2, <3>2 DEF NoticeRecipient
  <2> QED
    BY <2>1, <2>2
<1> QED
  BY <1>2, <1>3

\* Every send keeps a true address.
LEMMA ToNext ==
  ASSUME WebInv, ContactInv, ToOK, [Next /\ SerialEdits]_vars
  PROVE  ToOK'
<1>0. rows \subseteq rows' /\ [Next]_vars
  BY ContactNext
<1> SUFFICES ASSUME NEW s \in Sends
             PROVE  IF send'[s].to.contact = 0 THEN send'[s].to.phone = DefaultPhone
                    ELSE /\ <<send'[s].to.contact, send'[s].to.version, send'[s].to.phone>> \in rows'
                         /\ contact' # NoContact /\ contact'.id = send'[s].to.contact
                              /\ contact'.version = send'[s].to.version => contact'.active
  BY DEF ToOK
<1>1. CASE send'[s].to = send[s].to
  <2>1. CASE send[s].to.contact = 0
    BY <1>1, <2>1 DEF ToOK
  <2>2. CASE send[s].to.contact # 0
    <3>1. /\ <<send[s].to.contact, send[s].to.version, send[s].to.phone>> \in rows
          /\ contact # NoContact /\ contact.id = send[s].to.contact
              /\ contact.version = send[s].to.version => contact.active
      BY <2>2 DEF ToOK
    <3>2. contact' = contact \/ contact' = NoContact
            \/ ~(contact'.id = send[s].to.contact /\ contact'.version = send[s].to.version)
      BY <1>0, <3>1, VersionsPass
    <3> QED
      BY <1>0, <1>1, <2>2, <3>1, <3>2
  <2> QED
    BY <2>1, <2>2
<1>2. CASE Address(s)
  <2>1. /\ send'[s].to = ActiveContact /\ contact' = contact /\ rows' = rows
    <3>1. send \in [Sends -> SendState] /\ send[s] \in SendState
      BY DEF WebInv, Typed, RunTyped
    <3> QED
      BY <1>2, <3>1 DEF Address, SendState, db
  <2>2. contact # NoContact => contact.id # 0
    BY DEF WebInv, Typed, ContactTyped, Contact
  <2> QED
    BY <2>1, <2>2 DEF ActiveContact, ContactInv, NewestRow
<1>3. CASE send[s].pc # "idle"
  BY <1>0, <1>1, <1>3, ToStays
<1>4. CASE send[s].pc = "idle" /\ ~Address(s)
  <2>1. ASSUME NEW t \in Sends, SendStep(t)
        PROVE  send'[s] = send[s]
    <3>1. CASE t # s
      BY <2>1, <3>1, SendAlone
    <3>2. CASE t = s
      BY <1>4, <2>1, <3>2 DEF SendStep, Send, AuditSend, SaveNotice, AwaitSla, LoseSend, Sending
    <3> QED
      BY <3>1, <3>2
  <2>2. ASSUME NEW w \in Workers, SlaAnswered(w)
        PROVE  send' = send
    BY <2>2, AnsweredSets
  <2>3. Aside \/ SlaLapses => send' = send
    BY AsideKeeps DEF SlaLapses
  <2>4. send'[s] = send[s]
    BY <1>0, <2>1, <2>2, <2>3 DEF Next, Aside, SendStep, ContactStep
  <2> QED
    BY <1>1, <2>4
<1> QED
  BY <1>2, <1>3, <1>4

\* What a worker knows of a tap it judged to count.
LEMMA TapKnown ==
  ASSUME WebInv, NEW w \in Workers, work[w].pc \in {"resume", "running"}
  PROVE  /\ Handles(w) /\ work[w].saw.notice \in Sends /\ send[work[w].saw.notice].pc = "over"
<1>1. Handles(w) /\ Busy(w) /\ WorkOK(w)
  BY DEF Handles, Handling, Busy, WebInv
<1>2. Counted(ItemOf(w), work[w].saw)
  BY <1>1 DEF WorkOK, At
<1> QED
  BY <1>1, <1>2 DEF WorkOK, Seen, Waits, Counted

\* A worker that does not move keeps to that.
LEMMA ByRecipientStays ==
  ASSUME WebInv, [Next]_vars, NEW v \in Workers, Still(v), ByRecipient(v)
  PROVE  ByRecipient(v)'
<1>1. /\ work'[v].pc = work[v].pc /\ work'[v].saw = work[v].saw /\ ItemOf(v)' = ItemOf(v)
  BY StillSame DEF WebInv, Typed
<1> SUFFICES ASSUME work[v].pc \in {"resume", "running"}, ItemOf(v).type = "tap"
             PROVE  ItemOf(v).from = send'[work[v].saw.notice].to.phone
  BY <1>1 DEF ByRecipient
<1>2. PICK s \in Sends : s = work[v].saw.notice /\ send[s].pc = "over"
  BY TapKnown
<1>3. send'[s].to = send[s].to
  BY <1>2, ToStays
<1> QED
  BY <1>2, <1>3 DEF ByRecipient

\* Every step keeps to the recipients.
LEMMA RecipientNext ==
  ASSUME WebInv, ContactInv, RecipientInv, [Next /\ SerialEdits]_vars
  PROVE  RecipientInv'
<1>0. /\ [Next]_vars /\ ToOK' /\ WorkTyped
  BY ToNext DEF RecipientInv, WebInv, Typed
<1>1. ASSUME NEW m \in met
      PROVE  m[2] \in Sends /\ send'[m[2]].pc # "idle" /\ m[1].from = send'[m[2]].to.phone
  <2>1. m[2] \in Sends /\ send[m[2]].pc # "idle" /\ m[1].from = send[m[2]].to.phone
    BY DEF RecipientInv, MetOK
  <2> QED
    BY <1>0, <2>1, ToStays
<1>2. CASE UNCHANGED <<work, met>>
  <2>1. \A v \in Workers : ByRecipient(v)'
    BY <1>0, <1>2, ByRecipientStays DEF Still, RecipientInv
  <2> QED
    BY <1>0, <1>1, <1>2, <2>1 DEF RecipientInv, MetOK
<1>3. ASSUME NEW w \in Workers, \A v \in Workers \ {w} : Still(v), met' = met,
             work'[w].pc \notin {"resume", "running"}
      PROVE  RecipientInv'
  <2>1. \A v \in Workers : ByRecipient(v)'
    BY <1>0, <1>3, ByRecipientStays DEF RecipientInv, ByRecipient
  <2> QED
    BY <1>0, <1>1, <1>3, <2>1 DEF RecipientInv, MetOK
<1>4. ASSUME NEW w \in Workers, NEW p \in Payloads, Deliver(w, p)
      PROVE  RecipientInv'
  <2>1. /\ \A v \in Workers \ {w} : Still(v)
        /\ work'[w] = [pc |-> "claim", payload |-> p, i |-> 1, late |-> FALSE, saw |-> head,
                       early |-> FALSE, loaded |-> NoNotice]
        /\ met' = met
    BY <1>4, DeliverSets
  <2>2. work'[w].pc = "claim"
    BY <2>1
  <2> QED
    BY <1>3, <2>1, <2>2
<1>5. ASSUME NEW w \in Workers, Busy(w), met' = met, NEW ok \in BOOLEAN,
             Answer(w, ok) \/ NextItem(w) \/ Goto(w, "look") \/ Goto(w, "audit")
      PROVE  RecipientInv'
  <2>1. CASE Answer(w, ok)
    <3>1. work'[w] = Idle /\ \A v \in Workers \ {w} : Still(v)
      BY <1>0, <1>5, <2>1, AnswerSets
    <3>2. work'[w].pc = "idle"
      BY <3>1 DEF Idle
    <3> QED
      BY <1>3, <1>5, <3>1, <3>2
  <2>2. CASE NextItem(w)
    BY <1>0, <1>3, <1>5, <2>2, NextItemSets
  <2>3. CASE Goto(w, "look")
    BY <1>0, <1>3, <1>5, <2>3, GotoSets DEF Handling
  <2>4. CASE Goto(w, "audit") /\ ~NextItem(w)
    BY <1>0, <1>3, <1>5, <2>4, GotoSets DEF Handling
  <2> QED
    BY <1>5, <2>1, <2>2, <2>3, <2>4
<1>6. ASSUME NEW w \in Workers, Claim(w) \/ Fault(w) \/ Crash(w) \/ Audit(w)
      PROVE  RecipientInv'
  <2>1. /\ Busy(w) /\ met' = met
        /\ \E ok \in BOOLEAN : Answer(w, ok) \/ NextItem(w) \/ Goto(w, "look")
    BY <1>6 DEF Claim, Fault, Crash, Audit, At, Busy, Handling, run
  <2> QED
    BY <1>5, <2>1
<1>7. ASSUME NEW w \in Workers, Look(w)
      PROVE  RecipientInv'
  <2>1. Handles(w) /\ Busy(w) /\ met' = met
    BY <1>7, LookSets, InHand
  <2>2. CASE NextItem(w)
    BY <1>5, <2>1, <2>2
  <2>3. CASE ~NextItem(w)
    <3>1. PICK r \in Work : work' = [work EXCEPT ![w] = r] /\ r.pc = "judge"
      BY <1>7, <2>3, LookSets
    <3>2. work'[w] = r /\ \A v \in Workers \ {w} : Still(v)
      BY <1>0, <3>1, SetWork
    <3> QED
      BY <1>3, <2>1, <3>1, <3>2
  <2> QED
    BY <2>2, <2>3
<1>8. ASSUME NEW w \in Workers, Judge(w)
      PROVE  RecipientInv'
  <2>1. Handles(w) /\ Busy(w) /\ met' = met /\ WorkOK(w)
    BY <1>8, JudgeSets, InHand DEF WebInv
  <2>2. CASE NextItem(w)
    BY <1>5, <2>1, <2>2
  <2>3. CASE ~NextItem(w)
    <3>1. Goto(w, "resume") /\ Counts(ItemOf(w), work[w].saw)
      BY <1>8, <2>3, JudgeSets
    <3>2. /\ \A v \in Workers \ {w} : Still(v)
          /\ work'[w].pc = "resume" /\ work'[w].saw = work[w].saw /\ ItemOf(w)' = ItemOf(w)
      BY <1>0, <2>1, <3>1, GotoSets DEF Handling
    <3>3. ByRecipient(w)'
      <4> SUFFICES ASSUME ItemOf(w).type = "tap"
                   PROVE  ItemOf(w).from = send'[work[w].saw.notice].to.phone
        BY <3>2 DEF ByRecipient
      <4>1. ItemOf(w).from \in NoticeRecipient(work[w].saw.notice) /\ work[w].saw.waiting
        BY <3>1 DEF Counts
      <4>2. PICK s \in Sends : s = work[w].saw.notice /\ send[s].pc = "over"
        BY <2>1, <4>1 DEF WorkOK, Seen, Waits
      <4>3. ItemOf(w).from = send[s].to.phone
        BY <4>1, <4>2, RecipientIs DEF RecipientInv
      <4> QED
        BY <1>0, <4>2, <4>3, ToStays
    <3>4. \A v \in Workers : ByRecipient(v)'
      BY <1>0, <3>2, <3>3, ByRecipientStays DEF RecipientInv
    <3> QED
      BY <1>0, <1>1, <2>1, <3>4 DEF RecipientInv, MetOK
  <2> QED
    BY <2>2, <2>3
<1>9. ASSUME NEW w \in Workers, Resume(w)
      PROVE  RecipientInv'
  <2>1. Handles(w) /\ Busy(w) /\ met' = met /\ work[w].pc = "resume"
    BY <1>9, ResumeSets, InHand DEF Resume, At
  <2>2. CASE Goto(w, "audit")
    BY <1>5, <2>1, <2>2
  <2>3. CASE ~Goto(w, "audit")
    <3>1. PICK r \in Work :
            /\ work' = [work EXCEPT ![w] = r]
            /\ r.pc = "running" /\ r.payload = work[w].payload /\ r.i = work[w].i
            /\ r.saw = work[w].saw
      BY <1>9, <2>3, ResumeSets
    <3>2. work'[w] = r /\ \A v \in Workers \ {w} : Still(v)
      BY <1>0, <3>1, SetWork
    <3>3. ItemOf(w)' = ItemOf(w)
      BY <3>1, <3>2 DEF ItemOf
    <3>4. PICK s \in Sends : s = work[w].saw.notice /\ send[s].pc = "over"
      BY <2>1, TapKnown
    <3>5. send'[s].to = send[s].to
      BY <1>0, <3>4, ToStays
    <3>6. ByRecipient(w)'
      BY <2>1, <3>1, <3>2, <3>3, <3>4, <3>5 DEF RecipientInv, ByRecipient
    <3>7. \A v \in Workers : ByRecipient(v)'
      BY <1>0, <3>2, <3>6, ByRecipientStays DEF RecipientInv
    <3> QED
      BY <1>0, <1>1, <2>1, <3>7 DEF RecipientInv, MetOK
  <2> QED
    BY <2>2, <2>3
<1>10. ASSUME NEW w \in Workers, SlaAnswered(w)
       PROVE  RecipientInv'
  <2>1. /\ Busy(w) /\ Goto(w, "audit") /\ send' = send
        /\ met' = IF ItemOf(w).type = "tap" THEN met \cup {<<ItemOf(w), work[w].saw.notice>>} ELSE met
    BY <1>10, AnsweredSets
  <2>2. work[w].pc = "running"
    BY <1>10 DEF SlaAnswered, At
  <2>3. MetOK'
    <3> SUFFICES ASSUME NEW m \in met', m \notin met
                 PROVE  m[2] \in Sends /\ send'[m[2]].pc # "idle" /\ m[1].from = send'[m[2]].to.phone
      BY <1>1 DEF MetOK
    <3>1. m = <<ItemOf(w), work[w].saw.notice>> /\ ItemOf(w).type = "tap"
      BY <2>1
    <3>2. m[1] = ItemOf(w) /\ m[2] = work[w].saw.notice
      BY <3>1
    <3>3. work[w].saw.notice \in Sends /\ send[work[w].saw.notice].pc = "over"
      BY <2>2, TapKnown
    <3>4. ItemOf(w).from = send[work[w].saw.notice].to.phone
      BY <2>2, <3>1 DEF RecipientInv, ByRecipient
    <3> QED
      BY <2>1, <3>2, <3>3, <3>4
  <2>4. work'[w].pc = "audit" /\ \A v \in Workers \ {w} : Still(v)
    BY <1>0, <2>1, GotoSets DEF Handling
  <2>5. \A v \in Workers : ByRecipient(v)'
    BY <1>0, <2>4, ByRecipientStays DEF RecipientInv, ByRecipient
  <2> QED
    BY <1>0, <2>3, <2>5 DEF RecipientInv
<1>11. ASSUME NEW s \in Sends, SendStep(s)
       PROVE  UNCHANGED <<work, met>>
  BY <1>11, SendAlone
<1>12. SlaLapses \/ UNCHANGED vars => UNCHANGED <<work, met>>
  BY DEF SlaLapses, Other, vars
<1>13. ASSUME NEW a \in Admins, ContactStep(a)
       PROVE  UNCHANGED <<work, met>>
  BY <1>13, ContactTypes
<1> QED
  BY <1>0, <1>2, <1>4, <1>6, <1>7, <1>8, <1>9, <1>10, <1>11, <1>12, <1>13 DEF Next, SendStep, ContactStep

\* In the beginning.
LEMMA RecipientInit ==
  ASSUME Init
  PROVE  RecipientInv
<1>1. \A s \in Sends : send[s].to.contact = 0 /\ send[s].to.phone = DefaultPhone
  BY DEF Init
<1>2. \A w \in Workers : work[w].pc = "idle"
  BY DEF Init, Idle
<1>3. met = {}
  BY DEF Init
<1> QED
  BY <1>1, <1>2, <1>3 DEF RecipientInv, ToOK, ByRecipient, MetOK

-----------------------------------------------------------------------------
(* An answer that was given is not waited for.                             *)

\* A failure of the notice, or a tap on it that says so.
Answers(i) == i.type = "failed" \/ (i.type = "tap" /\ i.quotes)

\* The call does not wait on the item's notice any more, or the item is
\* somebody else's tap.
Settled(i) ==
  Answers(i) =>
    /\ send[i.notice].pc = "over"
    /\ head.waiting /\ head.notice = i.notice => i.type = "tap" /\ i.from \notin NoticeRecipient(i.notice)

\* A worker that looked at the run after the notice's gate was there has seen
\* that gate, if it still is.
LookedOK(w) ==
  work[w].pc = "judge" /\ ~work[w].early =>
    /\ send[ItemOf(w).notice].pc = "over"
    /\ head.waiting /\ head.notice = ItemOf(w).notice =>
         work[w].saw.waiting /\ work[w].saw.notice = ItemOf(w).notice

SettledInv ==
  /\ crashes = 0 => \A i \in Items : log[i].last \in {"ignored", "applied"} => Settled(i)
  /\ \A w \in Workers : LookedOK(w)

\* What is settled stays so.
LEMMA SettledStays ==
  ASSUME WebInv, ContactInv, ToOK, [Next]_vars, NEW i \in Items, Settled(i)
  PROVE  Settled(i)'
<1> SUFFICES ASSUME Answers(i)
             PROVE  /\ send'[i.notice].pc = "over"
                    /\ head'.waiting /\ head'.notice = i.notice =>
                         i.type = "tap" /\ i.from \notin NoticeRecipient(i.notice)'
  BY DEF Settled
<1>1. i.notice \in Sends /\ send[i.notice].pc = "over"
  BY ItemsAssumption DEF ItemsAssumption, Item, Settled
<1>2. send'[i.notice].pc = "over"
  BY <1>1, OverStays
<1>3. CASE Gone(i.notice)
  <2>1. Gone(i.notice)'
    BY <1>1, <1>3, GoneStays
  <2> QED
    BY <1>2, <2>1 DEF Gone
<1>4. CASE ~Gone(i.notice)
  <2>1. i.type = "tap" /\ i.from \notin NoticeRecipient(i.notice)
    BY <1>1, <1>4 DEF Gone, Settled
  <2>2. NoticeRecipient(i.notice)' \subseteq NoticeRecipient(i.notice)
    BY <1>1, RecipientsShrink
  <2> QED
    BY <1>2, <2>1, <2>2
<1> QED
  BY <1>3, <1>4

\* A worker that does not move has still seen it.
LEMMA LookedStays ==
  ASSUME WebInv, [Next]_vars, NEW v \in Workers, LookedOK(v), Still(v)
  PROVE  LookedOK(v)'
<1>1. /\ work'[v].pc = work[v].pc /\ work'[v].saw = work[v].saw /\ work'[v].early = work[v].early
      /\ ItemOf(v)' = ItemOf(v)
  BY StillSame DEF WebInv, Typed
<1> SUFFICES ASSUME work[v].pc = "judge", ~work[v].early
             PROVE  /\ send'[ItemOf(v).notice].pc = "over"
                    /\ head'.waiting /\ head'.notice = ItemOf(v).notice =>
                         work[v].saw.waiting /\ work[v].saw.notice = ItemOf(v).notice
  BY <1>1 DEF LookedOK
<1>2. PICK s \in Sends : s = ItemOf(v).notice
  BY InHand DEF Handles, Handling
<1>3. send[s].pc = "over"
  BY <1>2 DEF LookedOK
<1>4. send'[s].pc = "over"
  BY <1>3, OverStays
<1>5. Gone(s) => Gone(s)'
  BY GoneStays
<1> QED
  BY <1>2, <1>3, <1>4, <1>5 DEF LookedOK, Gone

\* A step of one worker that writes at most a word on its item.
LEMMA SettledStep ==
  ASSUME WebInv, ContactInv, ToOK, SettledInv, [Next]_vars, NEW w \in Workers,
         \A v \in Workers \ {w} : Still(v), LookedOK(w)', crashes' = 0 => crashes = 0,
         \A i \in Items : \/ log'[i].last = log[i].last
                          \/ log'[i].last = "early"
                          \/ crashes = 0 => Settled(i)'
  PROVE  SettledInv'
<1>1. \A v \in Workers : LookedOK(v)'
  BY LookedStays DEF SettledInv
<1>2. ASSUME crashes' = 0, NEW i \in Items, log'[i].last \in {"ignored", "applied"}
      PROVE  Settled(i)'
  BY <1>2, SettledStays DEF SettledInv
<1> QED
  BY <1>1, <1>2 DEF SettledInv

\* A step of no worker.
LEMMA SettledStill ==
  ASSUME WebInv, ContactInv, ToOK, SettledInv, [Next]_vars, UNCHANGED <<work, log>>,
         crashes' = 0 => crashes = 0
  PROVE  SettledInv'
<1>1. \A v \in Workers : LookedOK(v)'
  BY LookedStays DEF SettledInv, Still
<1>2. ASSUME crashes' = 0, NEW i \in Items, log'[i].last \in {"ignored", "applied"}
      PROVE  Settled(i)'
  BY <1>2, SettledStays DEF SettledInv
<1> QED
  BY <1>1, <1>2 DEF SettledInv

\* A look: what is not gone on with is nobody's answer, once its notice's
\* gate is there and no instance was lost.
LEMMA SettledLook ==
  ASSUME WebInv, ContactInv, ToOK, SettledInv, [Next]_vars, NEW w \in Workers, Look(w)
  PROVE  SettledInv'
<1>0. WorkTyped /\ SendOK
  BY DEF WebInv, Typed
<1>1. /\ Handles(w) /\ UNCHANGED <<send, head, crashes>>
  BY LookSets
<1>2. /\ Busy(w) /\ ItemOf(w) \in Items /\ ItemOf(w).notice \in Sends /\ send[ItemOf(w).notice].out
      /\ ItemOf(w) \in Item
  BY <1>1, InHand
<1>3. CASE NextItem(w)
  <2>1. \A v \in Workers \ {w} : Still(v)
    BY <1>0, <1>2, <1>3, NextItemSets
  <2>2. work'[w].pc = "claim"
    BY <1>0, <1>2, <1>3, NextItemSets
  <2>3. ~(\E r \in Work : work' = [work EXCEPT ![w] = r] /\ r.pc = "judge")
    BY <1>0, <2>2, SetWork
  <2>4. /\ ~(ItemOf(w).type \in {"failed", "tap"} /\ ThreadKnown(ItemOf(w)))
        /\ Logged(ItemOf(w), IF Early(ItemOf(w)) THEN "early" ELSE "ignored")
    BY <2>3, LookSets
  <2>5. PICK j \in Items : j = ItemOf(w)
    BY <1>2
  <2>6. \A i \in Items \ {j} : log'[i] = log[i]
    BY <1>0, <2>4, <2>5, LoggedTyped
  <2>7. log'[j].last = "early" \/ (crashes = 0 => Settled(j)')
    <3>1. CASE Early(ItemOf(w))
      BY <1>0, <2>4, <2>5, <3>1, LoggedTyped
    <3>2. CASE ~Early(ItemOf(w)) /\ crashes = 0
      <4>1. send[j.notice].pc = "over" /\ send[j.notice].audited
        BY <1>0, <1>2, <2>5, <3>2 DEF Early, SendOK
      <4>2. ~Answers(j)
        BY <2>4, <2>5, <4>1 DEF ThreadKnown, Answers
      <4> QED
        BY <4>2 DEF Settled, Answers
    <3> QED
      BY <3>1, <3>2
  <2>8. LookedOK(w)'
    BY <2>2 DEF LookedOK
  <2> QED
    BY <1>1, <2>1, <2>6, <2>7, <2>8, SettledStep
<1>4. CASE ~NextItem(w)
  <2>1. PICK r \in Work :
          /\ work' = [work EXCEPT ![w] = r]
          /\ r.pc = "judge" /\ r.payload = work[w].payload /\ r.i = work[w].i
          /\ r.saw = head /\ r.early = Early(ItemOf(w))
    BY <1>4, LookSets
  <2>2. log' = log
    BY <1>4, LookSets
  <2>3. work'[w] = r /\ \A v \in Workers \ {w} : Still(v)
    BY <1>0, <2>1, SetWork
  <2>4. ItemOf(w)' = ItemOf(w)
    BY <2>1, <2>3 DEF ItemOf
  <2>5. LookedOK(w)'
    BY <1>1, <2>1, <2>3, <2>4 DEF LookedOK, Early
  <2> QED
    BY <1>1, <2>2, <2>3, <2>5, SettledStep
<1> QED
  BY <1>3, <1>4

\* A judgement: what does not count is nobody's answer.
LEMMA SettledJudge ==
  ASSUME WebInv, ContactInv, ToOK, SettledInv, [Next]_vars, NEW w \in Workers, Judge(w)
  PROVE  SettledInv'
<1>0. WorkTyped /\ LookedOK(w) /\ work[w].pc = "judge"
  BY DEF WebInv, Typed, SettledInv, Judge, At
<1>1. Handles(w) /\ ItemOf(w).type \in {"failed", "tap"} /\ UNCHANGED <<contact, send, head, crashes>>
  BY JudgeSets
<1>2. Busy(w) /\ ItemOf(w) \in Items /\ ItemOf(w).notice \in Sends
  BY <1>1, InHand
<1>3. CASE NextItem(w)
  <2>1. /\ \A v \in Workers \ {w} : Still(v)
        /\ work'[w].pc = "claim"
    BY <1>0, <1>2, <1>3, NextItemSets
  <2>2. ~Goto(w, "resume")
    BY <1>0, <1>2, <2>1, GotoSets DEF Handling
  <2>3. /\ ~Counts(ItemOf(w), work[w].saw)
        /\ Logged(ItemOf(w), IF work[w].early THEN "early" ELSE "ignored")
    BY <2>2, JudgeSets
  <2>4. PICK j \in Items : j = ItemOf(w)
    BY <1>2
  <2>5. \A i \in Items \ {j} : log'[i] = log[i]
    BY <1>0, <2>3, <2>4, LoggedTyped
  <2>6. log'[j].last = "early" \/ Settled(j)'
    <3>1. CASE work[w].early
      BY <1>0, <2>3, <2>4, <3>1, LoggedTyped
    <3>2. CASE ~work[w].early
      <4>1. /\ send[j.notice].pc = "over"
            /\ head.waiting /\ head.notice = j.notice =>
                 work[w].saw.waiting /\ work[w].saw.notice = j.notice
        BY <1>0, <2>4, <3>2 DEF LookedOK
      <4>2. ASSUME Answers(j), head.waiting, head.notice = j.notice
            PROVE  j.type = "tap" /\ j.from \notin NoticeRecipient(j.notice)
        <5>1. work[w].saw.waiting /\ work[w].saw.notice = j.notice
          BY <4>1, <4>2
        <5> QED
          BY <2>3, <2>4, <4>2, <5>1 DEF Counts, Answers
      <4>3. Settled(j)
        BY <4>1, <4>2 DEF Settled
      <4>4. NoticeRecipient(j.notice)' = NoticeRecipient(j.notice)
        BY <1>1 DEF NoticeRecipient
      <4> QED
        BY <1>1, <4>3, <4>4 DEF Settled, Answers
    <3> QED
      BY <3>1, <3>2
  <2>7. LookedOK(w)'
    BY <2>1 DEF LookedOK
  <2> QED
    BY <1>1, <2>1, <2>5, <2>6, <2>7, SettledStep
<1>4. CASE ~NextItem(w)
  <2>1. Goto(w, "resume") /\ log' = log
    BY <1>4, JudgeSets
  <2>2. /\ \A v \in Workers \ {w} : Still(v)
        /\ work'[w].pc = "resume"
    BY <1>0, <1>2, <2>1, GotoSets DEF Handling
  <2>3. LookedOK(w)'
    BY <2>2 DEF LookedOK
  <2> QED
    BY <1>1, <2>1, <2>2, <2>3, SettledStep
<1> QED
  BY <1>3, <1>4

\* What counted settles its notice, or finds it settled.
LEMMA SettledResolve ==
  ASSUME WebInv, ContactInv, ToOK, SettledInv, [Next]_vars, NEW w \in Workers,
         Resume(w) \/ SlaAnswered(w)
  PROVE  SettledInv'
<1>0. WorkTyped /\ RunTyped
  BY DEF WebInv, Typed
<1>1. /\ Handles(w) /\ Counted(ItemOf(w), work[w].saw) /\ UNCHANGED <<send, crashes>>
  BY ResumeSets, AnsweredSets
<1>2. Busy(w) /\ ItemOf(w) \in Items /\ ItemOf(w).notice \in Sends /\ WorkOK(w)
  BY <1>1, InHand DEF WebInv
<1>3. PICK j \in Items : j = ItemOf(w)
  BY <1>2
<1>4. Answers(j) => send[j.notice].pc = "over"
  <2>1. Answers(j) => work[w].saw.notice = j.notice
    BY <1>1, <1>3 DEF Counted, Answers
  <2>2. send[work[w].saw.notice].pc = "over"
    BY <1>1, <1>2 DEF Counted, WorkOK, Seen
  <2> QED
    BY <2>1, <2>2
<1>5. CASE ~head'.waiting /\ (\A i \in Items \ {j} : log'[i] = log[i]) /\ Goto(w, "audit")
  <2>1. Settled(j)'
    BY <1>1, <1>4, <1>5 DEF Settled, Answers
  <2>2. /\ \A v \in Workers \ {w} : Still(v)
        /\ work'[w].pc = "audit"
    BY <1>0, <1>2, <1>5, GotoSets DEF Handling
  <2>3. LookedOK(w)'
    BY <2>2 DEF LookedOK
  <2> QED
    BY <1>1, <1>5, <2>1, <2>2, <2>3, SettledStep
<1>6. CASE SlaAnswered(w)
  BY <1>3, <1>5, <1>6, AnsweredSets
<1>7. CASE Resume(w) /\ head.outcome # "none"
  <2>1. Goto(w, "audit") /\ Logged(ItemOf(w), "ignored") /\ head' = head
    BY <1>7, ResumeSets
  <2>2. \A i \in Items \ {j} : log'[i] = log[i]
    BY <1>0, <1>3, <2>1, LoggedTyped
  <2>3. ~head'.waiting
    BY <1>0, <1>7, <2>1 DEF RunTyped, Waits
  <2> QED
    BY <1>5, <2>1, <2>2, <2>3
<1>8. CASE Resume(w) /\ head.outcome = "none"
  <2>1. PICK r \in Work : work' = [work EXCEPT ![w] = r] /\ r.pc = "running"
    BY <1>8, ResumeSets
  <2>2. work'[w] = r /\ \A v \in Workers \ {w} : Still(v)
    BY <1>0, <2>1, SetWork
  <2>3. log' = log /\ LookedOK(w)'
    BY <1>8, <2>1, <2>2, ResumeSets DEF LookedOK
  <2> QED
    BY <1>1, <2>2, <2>3, SettledStep
<1> QED
  BY <1>6, <1>7, <1>8

\* Every step keeps answers settled.
LEMMA SettledNext ==
  ASSUME WebInv, ContactInv, ToOK, SettledInv, [Next]_vars
  PROVE  SettledInv'
<1>0. WorkTyped /\ crashes \in Nat
  BY DEF WebInv, Typed, WorkTyped
<1>1. ASSUME NEW w \in Workers, \A v \in Workers \ {w} : Still(v), log' = log,
             crashes' = crashes \/ crashes' = crashes + 1, work'[w].pc # "judge"
      PROVE  SettledInv'
  <2>1. LookedOK(w)' /\ (crashes' = 0 => crashes = 0)
    BY <1>0, <1>1 DEF LookedOK
  <2> QED
    BY <1>1, <2>1, SettledStep
<1>2. ASSUME NEW w \in Workers, NEW p \in Payloads, Deliver(w, p)
      PROVE  SettledInv'
  <2>1. /\ \A v \in Workers \ {w} : Still(v)
        /\ work'[w] = [pc |-> "claim", payload |-> p, i |-> 1, late |-> FALSE, saw |-> head,
                       early |-> FALSE, loaded |-> NoNotice]
        /\ log' = log /\ crashes' = crashes
    BY <1>2, DeliverSets
  <2>2. work'[w].pc = "claim"
    BY <2>1
  <2> QED
    BY <1>1, <2>1, <2>2
<1>3. ASSUME NEW w \in Workers, Claim(w) \/ Audit(w)
      PROVE  SettledInv'
  <2>1. /\ Busy(w) /\ log' = log /\ crashes' = crashes
        /\ Answer(w, TRUE) \/ NextItem(w) \/ Goto(w, "look")
    BY <1>3 DEF Claim, Audit, At, Busy, bounds
  <2>2. CASE Answer(w, TRUE)
    <3>1. work'[w] = Idle /\ \A v \in Workers \ {w} : Still(v)
      BY <1>0, <2>1, <2>2, AnswerSets
    <3>2. work'[w].pc # "judge"
      BY <3>1 DEF Idle
    <3> QED
      BY <1>1, <2>1, <3>1, <3>2
  <2>3. CASE NextItem(w)
    BY <1>0, <1>1, <2>1, <2>3, NextItemSets
  <2>4. CASE Goto(w, "look")
    BY <1>0, <1>1, <2>1, <2>4, GotoSets DEF Handling
  <2> QED
    BY <2>1, <2>2, <2>3, <2>4
<1>4. ASSUME NEW w \in Workers, FailStep(w)
      PROVE  SettledInv'
  <2>1. Busy(w) /\ Answer(w, FALSE) /\ log' = log /\ (crashes' = crashes \/ crashes' = crashes + 1)
    BY <1>4, FailSets
  <2>2. work'[w] = Idle /\ \A v \in Workers \ {w} : Still(v)
    BY <1>0, <2>1, AnswerSets
  <2>3. work'[w].pc # "judge"
    BY <2>2 DEF Idle
  <2> QED
    BY <1>1, <2>1, <2>2, <2>3
<1>5. ASSUME NEW s \in Sends, SendStep(s)
      PROVE  SettledInv'
  <2>1. crashes' = crashes \/ crashes' = crashes + 1
    BY <1>5 DEF SendStep, Address, Send, AuditSend, SaveNotice, AwaitSla, LoseSend, Other, bounds
  <2> QED
    BY <1>0, <1>5, <2>1, SendAlone, SettledStill
<1>6. CASE SlaLapses \/ UNCHANGED vars
  BY <1>6, SettledStill DEF SlaLapses, Other, bounds, vars
<1>7. ASSUME NEW a \in Admins, ContactStep(a)
      PROVE  SettledInv'
  BY <1>7, ContactTypes, SettledStill
<1>8. ASSUME NEW w \in Workers, Look(w) \/ Judge(w) \/ Resume(w) \/ SlaAnswered(w)
      PROVE  SettledInv'
  BY <1>8, SettledLook, SettledJudge, SettledResolve
<1> QED
  BY <1>2, <1>3, <1>4, <1>5, <1>6, <1>7, <1>8 DEF Next, SendStep, ContactStep, FailStep

-----------------------------------------------------------------------------
(* The theorems.                                                           *)

\* In the beginning nothing was handled.
LEMMA QuietInit ==
  ASSUME Init
  PROVE  AppliedInv /\ DropInv /\ SettledInv
<1>1. \A w \in Workers : work[w].pc = "idle"
  BY DEF Init, Idle
<1>2. claims = {} /\ (\A p \in Payloads : meta[p] = "new")
      /\ \A i \in Items : log[i].last = "none" /\ log[i].applied = 0
  BY DEF Init
<1>3. AppliedInv
  BY <1>1, <1>2 DEF AppliedInv
<1>4. DropInv
  BY <1>1, <1>2 DEF DropInv, ClaimsOK, PassedOK, AckedOK, OneHand, Busy
<1>5. SettledInv
  BY <1>1, <1>2 DEF SettledInv, LookedOK
<1> QED
  BY <1>3, <1>4, <1>5

\* The type invariant of Webhook is part of the inductive one.
LEMMA WebTyped ==
  ASSUME WebInv
  PROVE  TypeOK
<1>1. ContactTyped /\ RunTyped /\ WorkTyped
  BY DEF WebInv, Typed
<1>2. \A a \in Admins : editing[a] = Idle \/ editing[a].row \in Contact \cup {NoContact}
  BY <1>1 DEF ContactTyped, Edit
<1>3. head \in Snapshot /\ (head.waiting => head.notice \in Sends /\ head.outcome = "none")
  BY <1>1 DEF RunTyped, Waits
<1> QED
  BY <1>1, <1>2, <1>3 DEF TypeOK, ContactTyped, RunTyped, WorkTyped, SendState, LogState

\* What Meta got a 200 for, and no worker has in hand, was handled.
LEMMA AckedMeansHandled ==
  ASSUME OnePayloadEach, WebInv, DropInv
  PROVE  NothingDropped
<1> SUFFICES ASSUME Stakes, NEW p \in Payloads, meta[p] = "acked",
                    \A w \in Workers : At(w, "idle") \/ work[w].payload # p,
                    NEW j \in 1..Len(p)
             PROVE  log[p[j]].last # "none"
  BY DEF NothingDropped, Delivered, Stakes
<1>1. Safe(p[j]) /\ ClaimsOK
  BY DEF DropInv, AckedOK
<1>2. ASSUME NEW w \in Workers, Handles(w), ItemOf(w) = p[j]
      PROVE  FALSE
  <2>1. /\ Busy(w) /\ work[w].payload \in Payloads
        /\ work[w].i \in 1..Len(work[w].payload)
    BY <1>2, InHand DEF WebInv, Typed
  <2>2. work[w].payload = p
    BY <1>2, <2>1 DEF OnePayloadEach, ItemOf
  <2> QED
    BY <2>1, <2>2 DEF At, Busy
<1> QED
  BY <1>1, <1>2 DEF Safe, ClaimsOK

\* Each item is handled to its end, and resolves the call once, whatever
\* Meta redelivers and whichever workers race (whatsapp_webhook: "each exactly
\* once"; _once, claim_once and release_claim).
THEOREM HandledOnceProved ==
  ASSUME TapsQuote, OnePayloadEach
  PROVE  Spec => []HandledOnce
<1>1. Init => WebInv /\ AppliedInv /\ DropInv
  BY WebInit, QuietInit
<1>2. (WebInv /\ AppliedInv /\ DropInv) /\ [Next]_vars => (WebInv /\ AppliedInv /\ DropInv)'
  BY WebStep, AppliedStep, DropStep
<1>3. WebInv /\ AppliedInv /\ DropInv => HandledOnce
  <2>1. AppliedInv => AppliedOnce
    BY DEF AppliedInv, AppliedOnce
  <2> QED
    BY <2>1, WebTyped, AckedMeansHandled DEF HandledOnce
<1> QED
  BY <1>1, <1>2, <1>3, PTL DEF Spec

\* With one administrator, edits are one after the other.
LEMMA OneAdministrator ==
  ASSUME \A a, b \in Admins : a = b
  PROVE  Spec => SerialSpec
<1>1. WebInv /\ [Next]_vars => [Next /\ SerialEdits]_vars
  <2> SUFFICES ASSUME WebInv, Next, contact' # contact
               PROVE  \A a \in Admins : editing'[a] = Idle
    BY DEF SerialEdits
  <2>1. editing \in [Admins -> Edit \cup {Idle}]
    BY DEF WebInv, Typed, ContactTyped
  <2>2. ASSUME NEW a \in Admins, CommitContact(a) \/ RemoveContact(a) \/ ReadContact(a)
        PROVE  editing'[a] = Idle
    BY <2>1, <2>2 DEF CommitContact, RemoveContact, ReadContact
  <2>3. \E a \in Admins : CommitContact(a) \/ RemoveContact(a) \/ ReadContact(a)
    <3>1. \A s \in Sends : SendStep(s) => contact' = contact
      BY SendAlone
    <3> QED
      BY <3>1 DEF Next, SendStep, SlaLapses, Deliver, Claim, Look, Judge, Resume, SlaAnswered, Audit,
                  Fault, Crash, db
  <2> QED
    BY <2>2, <2>3
<1> QED
  BY <1>1, WebInductive, PTL DEF Spec, SerialSpec

\* The sends, the run, the contact and the recipients together.
LEMMA SerialInductive == SerialSpec => [](WebInv /\ ContactInv /\ RecipientInv)
<1>1. Init => WebInv /\ ContactInv /\ RecipientInv
  BY WebInit, ContactInit, RecipientInit
<1>2. (WebInv /\ ContactInv /\ RecipientInv) /\ [Next /\ SerialEdits]_vars
      => (WebInv /\ ContactInv /\ RecipientInv)'
  BY WebStep, ContactNext, RecipientNext
<1> QED
  BY <1>1, <1>2, PTL DEF SerialSpec

\* Whatever happens to the contact after a notice left, and however late the
\* tap is, an SLA is met by the number the notice went to, and a recorded
\* version vouches for that number (_notice_recipient, _next_update_time).
THEOREM OnlyRecipients == SerialSpec => []OnlyRecipientAnswers
<1>1. WebInv /\ ContactInv /\ RecipientInv => OnlyRecipientAnswers
  BY DEF ContactInv, RecipientInv, MetOK, OnlyRecipientAnswers, AckByRecipient
<1> QED
  BY <1>1, SerialInductive, PTL

\* An answer that counts, once it was dealt with, is not waited for.
LEMMA SettledMeansAnswered ==
  ASSUME OnePayloadEach, WebInv, DropInv, SettledInv
  PROVE  AnswerCounts
<1> SUFFICES ASSUME AtRest, Stakes, head.waiting, NEW p \in Payloads, meta[p] = "acked",
                    NEW n \in 1..Len(p), p[n].notice = head.notice, log[p[n]].last # "early"
             PROVE  /\ p[n].type # "failed"
                    /\ ~(p[n].type = "tap" /\ p[n].quotes /\ p[n].from \in NoticeRecipient(head.notice))
  BY DEF AnswerCounts, Stakes
<1>1. p[n] \in Items /\ log[p[n]] \in LogState
  BY PayloadsAssumption DEF PayloadsAssumption, WebInv, Typed, WorkTyped
<1>2. log[p[n]].last # "none"
  BY AckedMeansHandled DEF AtRest, NothingDropped, Delivered, Stakes
<1>3. log[p[n]].last \in {"ignored", "applied"}
  BY <1>1, <1>2 DEF LogState
<1>4. Settled(p[n])
  BY <1>1, <1>3 DEF SettledInv, Stakes
<1> QED
  BY <1>4 DEF Settled, Answers

\* At rest, a call does not go on waiting for an answer it was given
\* (_handle_status, _handle_ack and resume_run, over every redelivery).
THEOREM AnswersCount ==
  ASSUME OnePayloadEach
  PROVE  SerialSpec => []AnswerCounts
<1>1. Init => DropInv /\ SettledInv
  BY QuietInit
<1>2. (WebInv /\ ContactInv /\ RecipientInv) /\ (DropInv /\ SettledInv) /\ [Next /\ SerialEdits]_vars
      => (DropInv /\ SettledInv)'
  BY DropStep, SettledNext DEF RecipientInv
<1>3. (WebInv /\ ContactInv /\ RecipientInv) /\ (DropInv /\ SettledInv) => AnswerCounts
  BY SettledMeansAnswered
<1> QED
  BY <1>1, <1>2, <1>3, SerialInductive, PTL DEF SerialSpec

=============================================================================
