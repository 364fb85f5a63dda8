--------------------------- MODULE Streaming_proofs ---------------------------
(***************************************************************************)
(* Proofs about Streaming, for any workers, keys, quotes and faults: what  *)
(* the broker no longer holds was settled, what is marked was published,   *)
(* further copies of an impact set are the price of faults, and a quiet    *)
(* key shows its newest message.                                           *)
(***************************************************************************)
EXTENDS Streaming, TLAPS, FiniteSetTheorems, WellFoundedInduction

-----------------------------------------------------------------------------
(* The invariant.                                                          *)

Active == {"upsert", "check", "gate", "publish", "markShock", "mark", "ack", "deadLetter"}
ActiveWork ==
  [pc: Active, key: Keys, n: Nat \ {0}, attempt: 1..MaxAttempts, kind: Kinds \cup {"none"}]

Typed ==
  /\ bus \in Buses /\ today \in 0..LastDay /\ faults \in 0..MaxFaults
  /\ sent \in [Keys -> Nat] /\ next \in [Keys -> Nat \ {0}] /\ latest \in [Keys -> Nat]
  /\ work \in [Workers -> ActiveWork \cup {Idle}]
  /\ impacts \in [ImpactIds -> Nat] /\ handed \subseteq ImpactIds
  /\ buffered \in [Workers -> SUBSET ImpactIds]

\* The bus was given that impact set, and over Pub/Sub has it.
Published(id) == id \in handed /\ (bus = "pubsub" => impacts[id] > 0)

\* What a worker has is no newer than the oldest message not acknowledged;
\* a kind of shock is known from the gate on.
Fits(x) ==
  work[x].pc # "idle" =>
    /\ work[x].n <= sent[work[x].key] /\ work[x].n <= next[work[x].key]
    /\ work[x].kind # "none" => work[x].pc \in {"gate", "publish", "markShock", "mark", "ack"}
    /\ work[x].pc \in {"gate", "markShock"} => work[x].key \in Tickers
    /\ work[x].pc \in {"gate", "publish", "markShock"} => work[x].key \in Rated \/ work[x].kind # "none"

\* Before it acknowledges a message a worker has settled it.
Settles(x) ==
  work[x].pc = "ack" =>
    \/ TickId(work[x].key, work[x].n) \in processed
    \/ <<work[x].key, work[x].n>> \in deadLetters

\* And before it marks a shock it has published it.
Publishes(x) ==
  work[x].pc = "markShock" \/ (work[x].pc = "mark" /\ work[x].key \in Rated) => Published(ImpactOf(x))

\* What a worker wrote to its key stays the newest, but for a straggler.
Writes(x) ==
  \/ work[x].pc \in {"check", "gate", "publish", "markShock", "mark"}
  \/ work[x].pc = "ack" /\ <<work[x].key, work[x].n>> \notin deadLetters
  => work[x].key \in straggler \/ latest[work[x].key] >= work[x].n

WorkOK(x) == Fits(x) /\ Settles(x) /\ Publishes(x) /\ Writes(x)

KeyOK(k) ==
  /\ \A i \in 1..sent[k] : i \in Messages(k)
  /\ next[k] <= sent[k] + 1 /\ latest[k] <= sent[k]
  /\ k \notin straggler =>
       /\ latest[k] <= next[k]
       /\ \A i \in 1..(next[k] - 1) : <<k, i>> \in deadLetters \/ latest[k] >= i

StreamInv ==
  /\ Typed
  /\ \A x \in Workers : WorkOK(x)
  /\ \A k \in Keys : KeyOK(k)
  /\ AckedIsSettled /\ MarkedIsPublished

\* What no step takes back; the latest message may be an older one only where
\* a straggler wrote.
Grows ==
  /\ bus' = bus
  /\ \A k \in Keys : sent'[k] >= sent[k] /\ next'[k] >= next[k]
  /\ \A k \in Keys : k \notin straggler' => latest'[k] >= latest[k]
  /\ processed \subseteq processed' /\ deadLetters \subseteq deadLetters'
  /\ handed \subseteq handed' /\ straggler \subseteq straggler'
  /\ \A id \in ImpactIds : impacts'[id] >= impacts[id]

-----------------------------------------------------------------------------
(* Identifiers.                                                            *)

\* A worker's impact set is one of ImpactIds.
LEMMA KnownId ==
  ASSUME StreamInv, NEW x \in Workers, work[x].pc # "idle",
         work[x].key \in Rated \/ work[x].kind # "none"
  PROVE  ImpactOf(x) \in ImpactIds
<1>1. work[x] \in ActiveWork
  BY DEF StreamInv, Typed, Idle
<1>2. PICK k \in Keys, i \in Nat \ {0}, kind \in Kinds \cup {"none"} :
        k = work[x].key /\ i = work[x].n /\ kind = work[x].kind
  BY <1>1 DEF ActiveWork
<1>3. i \in Messages(k)
  <2>1. i <= sent[k] /\ sent[k] \in Nat
    BY <1>2 DEF StreamInv, WorkOK, Fits, Typed
  <2>2. i \in 1..sent[k]
    BY <2>1
  <2> QED
    BY <2>2 DEF StreamInv, KeyOK
<1>4. CASE k \in Rated
  <2>1. ImpactOf(x) = ImpactId(k, i, "PRICE_SHOCK")
    BY <1>2, <1>4 DEF ImpactOf, ImpactId
  <2> QED
    BY <1>3, <2>1 DEF ImpactIds, Kinds
<1>5. CASE k \notin Rated
  <2>1. kind \in Kinds /\ ImpactOf(x) = ImpactId(k, i, kind)
    BY <1>2, <1>5 DEF ImpactOf
  <2> QED
    BY <1>3, <2>1 DEF ImpactIds
<1> QED
  BY <1>4, <1>5

\* The mark of a tick is no impact set's.
LEMMA TickIsNoImpact ==
  ASSUME KeysAssumption, NEW k \in Tickers, NEW i
  PROVE  TickId(k, i) \notin ImpactIds
<1> SUFFICES ASSUME NEW q \in Keys, NEW j \in Messages(q), NEW kind \in Kinds,
                    TickId(k, i) = ImpactId(q, j, kind)
             PROVE  FALSE
  BY DEF ImpactIds
<1>1. CASE q \in Rated
  <2>1. TickId(k, i) = TickId(q, j)
    BY <1>1 DEF ImpactId
  <2>2. k = q
    BY <2>1 DEF TickId
  <2> QED
    BY <1>1, <2>2, KeysAssumption
<1>2. CASE q \notin Rated
  BY <1>2 DEF ImpactId, TickId, Kinds
<1> QED
  BY <1>1, <1>2

-----------------------------------------------------------------------------
(* How a worker's record changes.                                          *)

\* Goto moves one worker, and changes its pc alone.
LEMMA GotoTyped ==
  ASSUME work \in [Workers -> ActiveWork \cup {Idle}], NEW x \in Workers, work[x].pc # "idle",
         NEW p \in Active, Goto(x, p)
  PROVE  /\ work' \in [Workers -> ActiveWork \cup {Idle}]
         /\ work'[x].pc = p /\ work'[x].key = work[x].key /\ work'[x].n = work[x].n
         /\ work'[x].kind = work[x].kind
         /\ \A y \in Workers \ {x} : work'[y] = work[y]
<1>1. work[x] \in ActiveWork
  BY DEF Idle
<1> DEFINE r == [work[x] EXCEPT !.pc = p]
<1>2. work' = [work EXCEPT ![x] = r]
  BY DEF Goto
<1>3. r \in ActiveWork /\ r.pc = p /\ r.key = work[x].key /\ r.n = work[x].n /\ r.kind = work[x].kind
  BY <1>1 DEF ActiveWork
<1> HIDE DEF r
<1> QED
  BY <1>2, <1>3

\* An attempt that failed begins again with its message, or gives it up.
LEMMA RetryTyped ==
  ASSUME BoundsAssumption, work \in [Workers -> ActiveWork \cup {Idle}], NEW x \in Workers,
         work[x].pc # "idle", Retry(x)
  PROVE  /\ work' \in [Workers -> ActiveWork \cup {Idle}]
         /\ work'[x].pc \in {"upsert", "deadLetter"} /\ work'[x].key = work[x].key
         /\ work'[x].n = work[x].n /\ work'[x].kind = "none"
         /\ \A y \in Workers \ {x} : work'[y] = work[y]
<1>1. work[x] \in ActiveWork
  BY DEF Idle
<1> DEFINE r == AfterException(x)
<1>2. work' = [work EXCEPT ![x] = r]
  BY DEF Retry
<1>3. /\ r \in ActiveWork /\ r.pc \in {"upsert", "deadLetter"} /\ r.key = work[x].key
      /\ r.n = work[x].n /\ r.kind = "none"
  <2>1. CASE work[x].attempt < MaxAttempts
    <3>1. r = [work[x] EXCEPT !.pc = "upsert", !.attempt = @ + 1, !.kind = "none"]
      BY <2>1 DEF AfterException
    <3>2. work[x].attempt + 1 \in 1..MaxAttempts
      BY <1>1, <2>1, BoundsAssumption DEF ActiveWork
    <3> QED
      BY <1>1, <3>1, <3>2 DEF ActiveWork, Active
  <2>2. CASE ~(work[x].attempt < MaxAttempts)
    <3>1. r = [work[x] EXCEPT !.pc = "deadLetter", !.kind = "none"]
      BY <2>2 DEF AfterException
    <3> QED
      BY <1>1, <3>1 DEF ActiveWork, Active
  <2> QED
    BY <2>1, <2>2
<1> HIDE DEF r
<1> QED
  BY <1>2, <1>3

-----------------------------------------------------------------------------
(* What the rest keeps while one worker moves.                             *)

\* A worker that does not move stands as it stood, as messages are added and
\* settled.
LEMMA OtherWorkers ==
  ASSUME StreamInv, Typed', Grows, NEW y \in Workers, work'[y] = work[y]
  PROVE  WorkOK(y)'
<1>1. CASE work[y].pc = "idle"
  BY <1>1 DEF WorkOK, Fits, Settles, Publishes, Writes
<1>2. CASE work[y].pc # "idle"
  <2>1. work[y] \in ActiveWork
    BY <1>2 DEF StreamInv, Typed, Idle
  <2>2. PICK k \in Keys, i \in Nat \ {0} : k = work[y].key /\ i = work[y].n
    BY <2>1 DEF ActiveWork
  <2>3. /\ sent[k] \in Nat /\ next[k] \in Nat /\ latest[k] \in Nat
        /\ sent'[k] \in Nat /\ next'[k] \in Nat /\ latest'[k] \in Nat
        /\ sent'[k] >= sent[k] /\ next'[k] >= next[k]
        /\ k \notin straggler' => k \notin straggler /\ latest'[k] >= latest[k]
    BY <2>2 DEF StreamInv, Typed, Grows
  <2>4. WorkOK(y)
    BY DEF StreamInv
  <2>5. Fits(y)'
    BY <2>2, <2>3, <2>4 DEF WorkOK, Fits
  <2>6. Settles(y)'
    BY <2>4 DEF WorkOK, Settles, Grows
  <2>7. Publishes(y)'
    <3> SUFFICES ASSUME work[y].pc = "markShock" \/ (work[y].pc = "mark" /\ work[y].key \in Rated)
                 PROVE  Published(ImpactOf(y))'
      BY DEF Publishes
    <3>1. PICK id \in ImpactIds : id = ImpactOf(y) /\ Published(id)
      <4>1. Published(ImpactOf(y)) /\ (work[y].key \in Rated \/ work[y].kind # "none")
        BY <1>2, <2>4 DEF WorkOK, Publishes, Fits
      <4> QED
        BY <1>2, <4>1, KnownId
    <3>2. ImpactOf(y)' = id
      BY <3>1 DEF ImpactOf
    <3>3. impacts[id] \in Nat /\ impacts'[id] \in Nat /\ impacts'[id] >= impacts[id] /\ bus' = bus
          /\ handed \subseteq handed'
      BY DEF StreamInv, Typed, Grows
    <3>4. Published(id)'
      BY <3>1, <3>3 DEF Published
    <3> QED
      BY <3>2, <3>4 DEF Published
  <2>8. Writes(y)'
    BY <2>2, <2>3, <2>4 DEF WorkOK, Writes, Grows
  <2> QED
    BY <2>5, <2>6, <2>7, <2>8 DEF WorkOK
<1> QED
  BY <1>1, <1>2

\* Marks of what was published stay so.
LEMMA MarksStay ==
  ASSUME StreamInv, Typed', Grows, \A id \in (processed' \ processed) \cap ImpactIds : Published(id)'
  PROVE  MarkedIsPublished'
<1> SUFFICES ASSUME NEW id \in processed' \cap ImpactIds PROVE Published(id)'
  BY DEF MarkedIsPublished, Published
<1>1. CASE id \in processed
  <2>1. Published(id)
    BY <1>1 DEF StreamInv, MarkedIsPublished, Published
  <2>2. impacts[id] \in Nat /\ impacts'[id] \in Nat /\ impacts'[id] >= impacts[id]
    BY DEF StreamInv, Typed, Grows
  <2> QED
    BY <2>1, <2>2 DEF Published, Grows
<1>2. CASE id \notin processed
  BY <1>2
<1> QED
  BY <1>1, <1>2

\* A step of one worker that touches no key.
LEMMA WorkerStep ==
  ASSUME StreamInv, Typed', Grows, NEW x \in Workers, \A y \in Workers \ {x} : work'[y] = work[y],
         WorkOK(x)', UNCHANGED <<sent, next, latest, straggler>>,
         \A id \in (processed' \ processed) \cap ImpactIds : Published(id)'
  PROVE  StreamInv'
<1>1. \A y \in Workers : WorkOK(y)'
  BY OtherWorkers
<1>2. \A k \in Keys : KeyOK(k)'
  BY DEF StreamInv, KeyOK, Grows
<1>3. AckedIsSettled'
  BY DEF StreamInv, AckedIsSettled, Grows
<1>4. MarkedIsPublished'
  BY MarksStay
<1> QED
  BY <1>1, <1>2, <1>3, <1>4 DEF StreamInv

-----------------------------------------------------------------------------
(* The steps.                                                              *)

\* What a worker's record says while it has a message.
LEMMA HasMessage ==
  ASSUME StreamInv, NEW x \in Workers, work[x].pc # "idle"
  PROVE  /\ work[x] \in ActiveWork /\ work[x].key \in Keys /\ work[x].n \in Nat \ {0}
         /\ work[x].key \in Rated \/ work[x].key \in Tickers
         /\ sent[work[x].key] \in Nat /\ next[work[x].key] \in Nat \ {0} /\ latest[work[x].key] \in Nat
<1>1. work[x] \in ActiveWork
  BY DEF StreamInv, Typed, Idle
<1>2. work[x].key \in Keys /\ work[x].n \in Nat \ {0}
  BY <1>1 DEF ActiveWork
<1> QED
  BY <1>1, <1>2 DEF StreamInv, Typed, Keys

\* In the beginning.
LEMMA StreamInit ==
  ASSUME BoundsAssumption, Init
  PROVE  StreamInv
<1>1. Typed
  BY DEF Init, Typed, BoundsAssumption
<1>2. \A x \in Workers : WorkOK(x)
  BY DEF Init, Idle, WorkOK, Fits, Settles, Publishes, Writes
<1>3. ASSUME NEW k \in Keys
      PROVE  KeyOK(k)
  <2>1. sent[k] = 0 /\ next[k] = 1 /\ latest[k] = 0
    BY DEF Init
  <2> QED
    BY <2>1 DEF KeyOK
<1>4. AckedIsSettled
  <2>1. \A k \in Keys : next[k] = 1
    BY DEF Init
  <2> QED
    BY <2>1 DEF AckedIsSettled
<1>5. MarkedIsPublished
  BY DEF Init, MarkedIsPublished
<1> QED
  BY <1>1, <1>2, <1>3, <1>4, <1>5 DEF StreamInv

\* The feeds and the calendar: messages are added at a key's end.
FeedStep == Poll \/ run_scenario \/ (\E c \in Rated : PublishDowngrade(c)) \/ load_daily_closes \/ NextDay

\* A feed adds messages the key knows, and touches nothing of the consumers.
LEMMA FeedsAdd ==
  ASSUME FeedAssumption, StreamInv, FeedStep
  PROVE  /\ UNCHANGED <<bus, next, work, processed, latest, impacts, handed, buffered, deadLetters,
                        straggler, faults>>
         /\ sent' \in [Keys -> Nat] /\ today' \in 0..LastDay
         /\ \A k \in Keys : sent'[k] >= sent[k] /\ \A i \in 1..sent'[k] : i \in Messages(k)
<1>0. /\ sent \in [Keys -> Nat] /\ today \in 0..LastDay
      /\ \A k \in Keys : sent[k] \in Nat /\ \A i \in 1..sent[k] : i \in Messages(k)
  BY DEF StreamInv, Typed, KeyOK
<1>1. ASSUME NEW published \in SUBSET Tickers, PublishTicks(published)
      PROVE  /\ UNCHANGED <<bus, next, work, processed, latest, impacts, handed, buffered, deadLetters,
                            straggler, faults, today>>
             /\ sent' = [k \in Keys |-> IF k \in published THEN sent[k] + 1 ELSE sent[k]]
             /\ \A k \in published : sent[k] < Len(Quotes[k])
  BY <1>1 DEF PublishTicks
<1>2. ASSUME NEW published \in SUBSET Tickers, PublishTicks(published), NEW k \in Keys,
             NEW i \in 1..sent'[k]
      PROVE  i \in Messages(k)
  <2>1. CASE k \in published /\ i \notin 1..sent[k]
    <3>1. i = sent[k] + 1
      BY <1>0, <1>1, <1>2, <2>1
    <3>2. sent[k] < Len(Quotes[k]) /\ Len(Quotes[k]) \in Nat
      BY <1>1, <1>2, <2>1, FeedAssumption DEF FeedAssumption
    <3>3. i \in 1..Len(Quotes[k])
      BY <1>0, <3>1, <3>2
    <3>4. k \notin Rated
      BY <1>2, <2>1, KeysAssumption DEF KeysAssumption
    <3> QED
      BY <3>3, <3>4 DEF Messages
  <2>2. CASE k \notin published \/ i \in 1..sent[k]
    BY <1>0, <1>1, <1>2, <2>2
  <2> QED
    BY <2>1, <2>2
<1>3. ASSUME NEW published \in SUBSET Tickers, PublishTicks(published)
      PROVE  /\ UNCHANGED <<bus, next, work, processed, latest, impacts, handed, buffered, deadLetters,
                            straggler, faults>>
             /\ sent' \in [Keys -> Nat] /\ today' \in 0..LastDay
             /\ \A k \in Keys : sent'[k] >= sent[k] /\ \A i \in 1..sent'[k] : i \in Messages(k)
  BY <1>0, <1>1, <1>2, <1>3
<1>4. CASE Poll
  BY <1>3, <1>4 DEF Poll
<1>5. CASE run_scenario
  BY <1>3, <1>5, KeysAssumption DEF run_scenario, KeysAssumption
<1>6. ASSUME NEW c \in Rated, PublishDowngrade(c)
      PROVE  /\ UNCHANGED <<bus, next, work, processed, latest, impacts, handed, buffered, deadLetters,
                            straggler, faults>>
             /\ sent' \in [Keys -> Nat] /\ today' \in 0..LastDay
             /\ \A k \in Keys : sent'[k] >= sent[k] /\ \A i \in 1..sent'[k] : i \in Messages(k)
  <2>1. /\ sent[c] < Downgrades[c] /\ c \in Keys /\ Downgrades[c] \in Nat
        /\ sent' = [sent EXCEPT ![c] = sent[c] + 1]
    BY <1>6, FeedAssumption DEF PublishDowngrade, Keys, FeedAssumption
  <2>2. \A k \in Keys : sent'[k] = IF k = c THEN sent[c] + 1 ELSE sent[k]
    BY <1>0, <2>1
  <2>3. ASSUME NEW k \in Keys, NEW i \in 1..sent'[k]
        PROVE  i \in Messages(k)
    <3>1. CASE k = c
      <4>1. i \in 1..Downgrades[c]
        BY <1>0, <2>1, <2>2, <3>1
      <4> QED
        BY <3>1, <4>1 DEF Messages
    <3>2. CASE k # c
      BY <1>0, <2>2, <3>2
    <3> QED
      BY <3>1, <3>2
  <2> QED
    BY <1>0, <1>6, <2>1, <2>2, <2>3 DEF PublishDowngrade
<1>7. CASE load_daily_closes
  BY <1>0, <1>7 DEF load_daily_closes
<1>8. CASE NextDay
  <2>1. today < LastDay /\ today' = today + 1
    BY <1>8 DEF NextDay
  <2> QED
    BY <1>0, <1>8, <2>1, BoundsAssumption DEF NextDay, BoundsAssumption
<1> QED
  BY <1>4, <1>5, <1>6, <1>7, <1>8 DEF FeedStep

\* So it keeps the invariant.
LEMMA FeedsKeep ==
  ASSUME FeedAssumption, StreamInv, FeedStep
  PROVE  StreamInv'
<1>1. /\ UNCHANGED <<bus, next, work, processed, latest, impacts, handed, buffered, deadLetters,
                     straggler, faults>>
      /\ sent' \in [Keys -> Nat] /\ today' \in 0..LastDay
      /\ \A k \in Keys : sent'[k] >= sent[k] /\ \A i \in 1..sent'[k] : i \in Messages(k)
  BY FeedsAdd
<1>2. Typed'
  BY <1>1 DEF StreamInv, Typed
<1>3. Grows
  <2>1. /\ \A k \in Keys : next[k] \in Nat /\ latest[k] \in Nat
        /\ \A id \in ImpactIds : impacts[id] \in Nat
    BY DEF StreamInv, Typed
  <2> QED
    BY <1>1, <2>1 DEF Grows
<1>4. \A y \in Workers : WorkOK(y)'
  BY <1>1, <1>2, <1>3, OtherWorkers
<1>5. ASSUME NEW k \in Keys
      PROVE  KeyOK(k)'
  <2>1. KeyOK(k) /\ sent[k] \in Nat /\ next[k] \in Nat /\ latest[k] \in Nat /\ sent'[k] \in Nat
    BY <1>1 DEF StreamInv, Typed
  <2> QED
    BY <1>1, <2>1 DEF KeyOK
<1>6. AckedIsSettled' /\ MarkedIsPublished'
  BY <1>1 DEF StreamInv, AckedIsSettled, MarkedIsPublished
<1> QED
  BY <1>2, <1>4, <1>5, <1>6 DEF StreamInv

\* A worker takes the oldest message not acknowledged.
LEMMA DeliverKeeps ==
  ASSUME BoundsAssumption, StreamInv, NEW x \in Workers, NEW k \in Keys,
         Deliver(x, k) \/ DeliverAgain(x, k)
  PROVE  /\ StreamInv'
         /\ work'[x] = StartOf(k, next[k]) /\ \A y \in Workers \ {x} : work'[y] = work[y]
<1>1. /\ work' = [work EXCEPT ![x] = StartOf(k, next[k])] /\ next[k] <= sent[k]
      /\ UNCHANGED <<bus, today, sent, next, processed, latest, closes, impacts, handed,
                     buffered, deadLetters, straggler>>
      /\ faults' \in 0..MaxFaults
  BY DEF Deliver, DeliverAgain, Fault, StreamInv, Typed, BoundsAssumption
<1>2. next[k] \in Nat \ {0} /\ sent[k] \in Nat
  BY DEF StreamInv, Typed
<1> DEFINE r == StartOf(k, next[k])
<1>3. r \in ActiveWork /\ r.pc = "upsert" /\ r.key = k /\ r.n = next[k] /\ r.kind = "none"
  BY <1>2, BoundsAssumption DEF StartOf, ActiveWork, Active
<1> HIDE DEF r
<1>4. work'[x] = r /\ \A y \in Workers \ {x} : work'[y] = work[y]
  BY <1>1 DEF StreamInv, Typed, r
<1>5. work' \in [Workers -> ActiveWork \cup {Idle}]
  BY <1>1, <1>3 DEF StreamInv, Typed, r
<1>6. Typed'
  BY <1>1, <1>5 DEF StreamInv, Typed
<1>7. Grows
  <2>1. /\ \A q \in Keys : sent[q] \in Nat /\ next[q] \in Nat /\ latest[q] \in Nat
        /\ \A id \in ImpactIds : impacts[id] \in Nat
    BY DEF StreamInv, Typed
  <2> QED
    BY <1>1, <2>1 DEF Grows
<1>8. WorkOK(x)'
  BY <1>1, <1>2, <1>3, <1>4 DEF WorkOK, Fits, Settles, Publishes, Writes
<1> QED
  BY <1>1, <1>4, <1>6, <1>7, <1>8, WorkerStep DEF r

\* Numbers that do not change grow.
LEMMA Still ==
  ASSUME StreamInv, UNCHANGED <<bus, sent, next, latest>>,
         processed \subseteq processed', deadLetters \subseteq deadLetters',
         handed \subseteq handed', straggler \subseteq straggler',
         \A id \in ImpactIds : impacts'[id] = impacts[id] \/ impacts'[id] = impacts[id] + 1
  PROVE  Grows
<1>1. /\ \A q \in Keys : sent[q] \in Nat /\ next[q] \in Nat /\ latest[q] \in Nat
      /\ \A id \in ImpactIds : impacts[id] \in Nat
  BY DEF StreamInv, Typed
<1>2. \A id \in ImpactIds : impacts'[id] >= impacts[id]
  BY <1>1
<1> QED
  BY <1>1, <1>2 DEF Grows

\* upsert_latest_price: a message not acknowledged yet is the newest so far.
LEMMA UpsertKeeps ==
  ASSUME StreamInv, NEW x \in Workers, Upsert(x)
  PROVE  StreamInv' /\ work'[x].pc = "check"
<1>0. work[x].pc = "upsert" /\ work[x].pc # "idle"
  BY DEF Upsert
<1>1. PICK k \in Keys, n \in Nat \ {0} : k = work[x].key /\ n = work[x].n
  BY <1>0, HasMessage
<1>2. /\ latest' = [latest EXCEPT ![k] = n]
      /\ straggler' = IF n < next[k] THEN straggler \cup {k} ELSE straggler
      /\ Goto(x, "check")
      /\ UNCHANGED <<bus, today, sent, next, processed, closes, impacts, handed,
                     buffered, deadLetters, faults>>
  BY <1>1 DEF Upsert
<1>3. /\ work' \in [Workers -> ActiveWork \cup {Idle}]
      /\ work'[x].pc = "check" /\ work'[x].key = k /\ work'[x].n = n /\ work'[x].kind = work[x].kind
      /\ \A y \in Workers \ {x} : work'[y] = work[y]
  BY <1>0, <1>1, <1>2, GotoTyped DEF StreamInv, Typed, Active
<1>4. /\ \A q \in Keys : sent[q] \in Nat /\ next[q] \in Nat /\ latest[q] \in Nat
      /\ \A id \in ImpactIds : impacts[id] \in Nat
      /\ \A q \in Keys : latest'[q] = IF q = k THEN n ELSE latest[q]
      /\ latest' \in [Keys -> Nat]
  BY <1>2 DEF StreamInv, Typed
<1>5. /\ n <= sent[k] /\ n <= next[k] /\ work[x].kind = "none"
      /\ k \notin straggler' => n = next[k] /\ k \notin straggler
      /\ k \notin straggler => latest[k] <= next[k]
  <2>1. n <= sent[k] /\ n <= next[k] /\ work[x].kind = "none"
    BY <1>0, <1>1 DEF StreamInv, WorkOK, Fits
  <2>2. k \notin straggler' => n = next[k] /\ k \notin straggler
    BY <1>2, <1>4, <2>1
  <2> QED
    BY <2>1, <2>2 DEF StreamInv, KeyOK
<1>6. Typed'
  BY <1>2, <1>3, <1>4 DEF StreamInv, Typed
<1>7. Grows
  <2>1. \A q \in Keys : q \notin straggler' => latest'[q] >= latest[q]
    BY <1>4, <1>5
  <2> QED
    BY <1>2, <1>4, <2>1 DEF Grows
<1>8. WorkOK(x)'
  <2>1. Fits(x)'
    BY <1>2, <1>3, <1>5 DEF Fits
  <2>2. Settles(x)' /\ Publishes(x)'
    BY <1>3 DEF Settles, Publishes
  <2>3. Writes(x)'
    BY <1>3, <1>4 DEF Writes
  <2> QED
    BY <2>1, <2>2, <2>3 DEF WorkOK
<1>9. \A y \in Workers : WorkOK(y)'
  BY <1>3, <1>6, <1>7, <1>8, OtherWorkers
<1>10. ASSUME NEW q \in Keys
       PROVE  KeyOK(q)'
  <2>1. KeyOK(q)
    BY DEF StreamInv
  <2>2. CASE q = k
    <3>1. latest'[q] = n /\ n <= sent[q]
      BY <1>4, <1>5, <2>2
    <3>2. k \notin straggler' => n = next[k] /\ \A i \in 1..(next[k] - 1) : n >= i
      BY <1>4, <1>5
    <3> QED
      BY <1>2, <1>4, <2>1, <2>2, <3>1, <3>2 DEF KeyOK
  <2>3. CASE q # k
    BY <1>2, <1>4, <2>1, <2>3 DEF KeyOK
  <2> QED
    BY <2>2, <2>3
<1>11. AckedIsSettled' /\ MarkedIsPublished'
  BY <1>2 DEF StreamInv, AckedIsSettled, MarkedIsPublished
<1> QED
  BY <1>3, <1>6, <1>9, <1>10, <1>11 DEF StreamInv

\* is_already_processed and the classification.
LEMMA CheckKeeps ==
  ASSUME StreamInv, NEW x \in Workers, Check(x)
  PROVE  /\ StreamInv'
         /\ \A y \in Workers \ {x} : work'[y] = work[y]
         /\ work'[x].key = work[x].key /\ work'[x].n = work[x].n
         /\ \/ work'[x].pc \in {"ack", "mark"}
            \/ /\ work'[x].pc = "publish" /\ work[x].key \in Rated
               /\ TickId(work[x].key, work[x].n) \notin processed
            \/ work'[x].pc = "gate" /\ work'[x].kind \in Kinds /\ work[x].key \notin Rated
         /\ work'[x].pc = "mark" => work[x].key \notin Rated
<1>0. work[x].pc = "check" /\ work[x].pc # "idle"
  BY DEF Check
<1>1. /\ work[x] \in ActiveWork /\ work[x].key \in Keys /\ work[x].n \in Nat \ {0}
      /\ work[x].key \in Rated \/ work[x].key \in Tickers
      /\ work[x].kind = "none" /\ WorkOK(x)
  <2>1. WorkOK(x)
    BY DEF StreamInv
  <2>2. work[x].kind = "none"
    BY <1>0, <2>1 DEF WorkOK, Fits
  <2> QED
    BY <1>0, <2>1, <2>2, HasMessage
<1>2. PICK k \in Keys, n \in Nat \ {0} : k = work[x].key /\ n = work[x].n
  BY <1>1
<1> DEFINE kind == classify_price_move(Quotes[k][n].price, latest_close_before(k, Quotes[k][n].day))
           r == IF TickId(k, n) \in processed THEN [work[x] EXCEPT !.pc = "ack"]
                ELSE IF k \in Rated THEN [work[x] EXCEPT !.pc = "publish"]
                ELSE IF kind = "none" THEN [work[x] EXCEPT !.pc = "mark"]
                ELSE [work[x] EXCEPT !.pc = "gate", !.kind = kind]
<1>3. /\ work' = [work EXCEPT ![x] = r]
      /\ UNCHANGED <<bus, today, sent, next, processed, latest, closes, impacts, handed,
                     buffered, deadLetters, straggler, faults>>
  BY <1>2 DEF Check
<1>4. kind \in Kinds \cup {"none"}
  BY DEF classify_price_move, Kinds
<1> HIDE DEF kind
<1>5. /\ r \in ActiveWork /\ r.key = k /\ r.n = n
      /\ \/ r.pc = "ack" /\ TickId(k, n) \in processed /\ r.kind = "none"
         \/ r.pc = "publish" /\ k \in Rated /\ r.kind = "none" /\ TickId(k, n) \notin processed
         \/ r.pc = "mark" /\ k \notin Rated /\ r.kind = "none"
         \/ r.pc = "gate" /\ k \notin Rated /\ r.kind = kind /\ kind # "none"
  BY <1>1, <1>2, <1>4 DEF ActiveWork, Active
<1> HIDE DEF r
<1>6. /\ work'[x] = r /\ (\A y \in Workers \ {x} : work'[y] = work[y])
      /\ work' \in [Workers -> ActiveWork \cup {Idle}]
  BY <1>3, <1>5 DEF StreamInv, Typed
<1>7. Typed' /\ Grows
  BY <1>3, <1>6, Still DEF StreamInv, Typed
<1>8. WorkOK(x)'
  BY <1>0, <1>1, <1>2, <1>3, <1>5, <1>6 DEF WorkOK, Fits, Settles, Publishes, Writes
<1>9. StreamInv'
  BY <1>3, <1>6, <1>7, <1>8, WorkerStep
<1> QED
  BY <1>2, <1>4, <1>5, <1>6, <1>9

\* The same shock of an earlier tick is not raised again.
LEMMA ShockGateKeeps ==
  ASSUME StreamInv, NEW x \in Workers, ShockGate(x)
  PROVE  StreamInv'
<1>0. work[x].pc = "gate" /\ work[x].pc # "idle" /\ WorkOK(x)
  BY DEF ShockGate, StreamInv
<1>1. PICK p \in {"mark", "publish"} : Goto(x, p)
  BY DEF ShockGate
<1>2. UNCHANGED <<bus, today, sent, next, processed, latest, closes, impacts, handed,
                  buffered, deadLetters, straggler, faults>>
  BY DEF ShockGate
<1>3. /\ work' \in [Workers -> ActiveWork \cup {Idle}]
      /\ work'[x].pc = p /\ work'[x].key = work[x].key /\ work'[x].n = work[x].n
      /\ work'[x].kind = work[x].kind
      /\ \A y \in Workers \ {x} : work'[y] = work[y]
  BY <1>0, <1>1, GotoTyped DEF StreamInv, Typed, Active
<1>4. Typed' /\ Grows
  BY <1>2, <1>3, Still DEF StreamInv, Typed
<1>5. work[x].key \notin Rated
  BY <1>0, KeysAssumption DEF WorkOK, Fits, KeysAssumption
<1>6. WorkOK(x)'
  BY <1>0, <1>2, <1>3, <1>5 DEF WorkOK, Fits, Settles, Publishes, Writes
<1> QED
  BY <1>2, <1>3, <1>4, <1>6, WorkerStep

\* An impact set is given to the bus: it is on the topic, or, over Kafka
\* only, left in the producer.
LEMMA PublishKeeps ==
  ASSUME BoundsAssumption, StreamInv, NEW x \in Workers, Publish(x) \/ PublishBuffered(x)
  PROVE  StreamInv'
<1>0. work[x].pc = "publish" /\ work[x].pc # "idle" /\ WorkOK(x)
  BY DEF Publish, PublishBuffered, StreamInv
<1>1. PICK id \in ImpactIds : id = ImpactOf(x)
  BY <1>0, KnownId DEF WorkOK, Fits
<1>2. /\ handed' = handed \cup {id}
      /\ UNCHANGED <<bus, today, sent, next, processed, latest, closes, deadLetters, straggler>>
      /\ \/ impacts' = [impacts EXCEPT ![id] = @ + 1] /\ UNCHANGED <<buffered, faults>>
         \/ /\ bus = "kafka" /\ impacts' = impacts /\ Fault
            /\ buffered' = [buffered EXCEPT ![x] = @ \cup {id}]
  BY <1>1 DEF Publish, PublishBuffered
<1>3. PICK p \in {"mark", "markShock"} :
        Goto(x, p) /\ (p = "mark" <=> work[x].key \in Rated)
  BY DEF Publish, PublishBuffered, AfterPublish
<1>4. /\ work' \in [Workers -> ActiveWork \cup {Idle}]
      /\ work'[x].pc = p /\ work'[x].key = work[x].key /\ work'[x].n = work[x].n
      /\ work'[x].kind = work[x].kind
      /\ \A y \in Workers \ {x} : work'[y] = work[y]
  BY <1>0, <1>3, GotoTyped DEF StreamInv, Typed, Active
<1>5. /\ impacts' \in [ImpactIds -> Nat] /\ impacts[id] \in Nat
      /\ \A i \in ImpactIds : impacts'[i] = impacts[i] \/ impacts'[i] = impacts[i] + 1
      /\ bus # "kafka" => impacts'[id] = impacts[id] + 1
      /\ faults' \in 0..MaxFaults
      /\ buffered' \in [Workers -> SUBSET ImpactIds]
  BY <1>2, BoundsAssumption DEF StreamInv, Typed, Fault, BoundsAssumption
<1>6. Typed'
  BY <1>2, <1>4, <1>5 DEF StreamInv, Typed
<1>7. Grows
  BY <1>2, <1>5, Still
<1>8. Published(id)'
  <2>1. id \in handed'
    BY <1>2
  <2>2. bus' = "pubsub" => impacts'[id] > 0
    BY <1>2, <1>5
  <2> QED
    BY <2>1, <2>2 DEF Published
<1>9. ImpactOf(x)' = id
  BY <1>1, <1>4 DEF ImpactOf
<1>10. WorkOK(x)'
  <2>1. Fits(x)' /\ Settles(x)' /\ Writes(x)'
    BY <1>0, <1>2, <1>3, <1>4, HasMessage DEF WorkOK, Fits, Settles, Writes
  <2>2. Publishes(x)'
    BY <1>8, <1>9 DEF Publishes, Published
  <2> QED
    BY <2>1, <2>2 DEF WorkOK
<1> QED
  BY <1>2, <1>4, <1>6, <1>7, <1>10, WorkerStep

\* What was left in the producer gets through.
LEMMA DeliverBufferedKeeps ==
  ASSUME StreamInv, NEW x \in Workers, NEW id \in buffered[x], DeliverBuffered(x, id)
  PROVE  StreamInv'
<1>1. /\ id \in ImpactIds /\ impacts' = [impacts EXCEPT ![id] = @ + 1]
      /\ buffered' = [buffered EXCEPT ![x] = @ \ {id}]
      /\ UNCHANGED <<bus, today, sent, next, work, processed, latest, closes, handed,
                     deadLetters, straggler, faults>>
  BY DEF DeliverBuffered, StreamInv, Typed
<1>2. /\ impacts' \in [ImpactIds -> Nat]
      /\ \A i \in ImpactIds : impacts'[i] = impacts[i] \/ impacts'[i] = impacts[i] + 1
      /\ buffered' \in [Workers -> SUBSET ImpactIds]
  BY <1>1 DEF StreamInv, Typed
<1>3. Typed' /\ Grows
  BY <1>1, <1>2, Still DEF StreamInv, Typed
<1>4. WorkOK(x)'
  BY <1>1, <1>3, OtherWorkers
<1> QED
  BY <1>1, <1>3, <1>4, WorkerStep

\* The mark of a shock, which was published.
LEMMA MarkShockKeeps ==
  ASSUME StreamInv, NEW x \in Workers, MarkShock(x)
  PROVE  StreamInv' /\ work[x].key \notin Rated
<1>0. work[x].pc = "markShock" /\ work[x].pc # "idle" /\ WorkOK(x)
  BY DEF MarkShock, StreamInv
<1>1. /\ processed' = processed \cup {ImpactOf(x)} /\ Goto(x, "mark")
      /\ UNCHANGED <<bus, today, sent, next, latest, closes, impacts, handed,
                     buffered, deadLetters, straggler, faults>>
  BY DEF MarkShock
<1>2. /\ work' \in [Workers -> ActiveWork \cup {Idle}]
      /\ work'[x].pc = "mark" /\ work'[x].key = work[x].key /\ work'[x].n = work[x].n
      /\ work'[x].kind = work[x].kind
      /\ \A y \in Workers \ {x} : work'[y] = work[y]
  BY <1>0, <1>1, GotoTyped DEF StreamInv, Typed, Active
<1>3. Typed' /\ Grows
  BY <1>1, <1>2, Still DEF StreamInv, Typed
<1>4. work[x].key \notin Rated
  BY <1>0, KeysAssumption DEF WorkOK, Fits, KeysAssumption
<1>5. WorkOK(x)'
  BY <1>0, <1>1, <1>2, <1>4 DEF WorkOK, Fits, Settles, Publishes, Writes
<1>6. \A id \in processed' \ processed : Published(id)'
  BY <1>0, <1>1 DEF WorkOK, Publishes, Published
<1> QED
  BY <1>1, <1>2, <1>3, <1>4, <1>5, <1>6, WorkerStep

\* The mark of a message: of a downgrade, it is the impact set's.
LEMMA MarkMessageKeeps ==
  ASSUME StreamInv, NEW x \in Workers, MarkMessage(x)
  PROVE  StreamInv'
<1>0. work[x].pc = "mark" /\ work[x].pc # "idle" /\ WorkOK(x)
  BY DEF MarkMessage, StreamInv
<1>1. /\ processed' = processed \cup {TickId(work[x].key, work[x].n)} /\ Goto(x, "ack")
      /\ UNCHANGED <<bus, today, sent, next, latest, closes, impacts, handed,
                     buffered, deadLetters, straggler, faults>>
  BY DEF MarkMessage
<1>2. /\ work' \in [Workers -> ActiveWork \cup {Idle}]
      /\ work'[x].pc = "ack" /\ work'[x].key = work[x].key /\ work'[x].n = work[x].n
      /\ work'[x].kind = work[x].kind
      /\ \A y \in Workers \ {x} : work'[y] = work[y]
  BY <1>0, <1>1, GotoTyped DEF StreamInv, Typed, Active
<1>3. Typed' /\ Grows
  BY <1>1, <1>2, Still DEF StreamInv, Typed
<1>4. WorkOK(x)'
  <2>1. Settles(x)'
    BY <1>1, <1>2 DEF Settles
  <2> QED
    BY <1>0, <1>1, <1>2, <2>1 DEF WorkOK, Fits, Publishes, Writes
<1>5. ASSUME NEW id \in (processed' \ processed) \cap ImpactIds
      PROVE  Published(id)'
  <2>1. id = TickId(work[x].key, work[x].n)
    BY <1>1
  <2>2. work[x].key \in Rated
    BY <1>0, <2>1, HasMessage, TickIsNoImpact, KeysAssumption
  <2>3. Published(id)
    BY <1>0, <2>1, <2>2 DEF WorkOK, Publishes, ImpactOf, ImpactId
  <2> QED
    BY <1>1, <2>3 DEF Published
<1> QED
  BY <1>1, <1>2, <1>3, <1>4, <1>5, WorkerStep

\* An exception: another attempt, or the dead letter.
LEMMA RetryKeeps ==
  ASSUME BoundsAssumption, StreamInv, NEW x \in Workers,
         FailDecode(x) \/ FailStep(x) \/ \E through \in BOOLEAN : FailPublish(x, through)
  PROVE  /\ StreamInv'
         /\ work'[x].pc \in {"upsert", "deadLetter"} /\ work'[x].key = work[x].key
         /\ work'[x].n = work[x].n /\ \A y \in Workers \ {x} : work'[y] = work[y]
<1>0. /\ work[x].pc # "idle" /\ WorkOK(x) /\ Retry(x)
      /\ UNCHANGED <<bus, today, sent, next, processed, latest, closes, buffered, deadLetters, straggler>>
      /\ faults' \in 0..MaxFaults
  BY BoundsAssumption DEF FailDecode, FailStep, FailPublish, Fault, StreamInv, Typed, BoundsAssumption
<1>1. /\ impacts' \in [ImpactIds -> Nat] /\ handed \subseteq handed' /\ handed' \subseteq ImpactIds
      /\ \A i \in ImpactIds : impacts'[i] = impacts[i] \/ impacts'[i] = impacts[i] + 1
  <2>1. CASE UNCHANGED <<impacts, handed>>
    BY <2>1 DEF StreamInv, Typed
  <2>2. ASSUME NEW through \in BOOLEAN, FailPublish(x, through)
        PROVE  /\ impacts' \in [ImpactIds -> Nat] /\ handed \subseteq handed' /\ handed' \subseteq ImpactIds
               /\ \A i \in ImpactIds : impacts'[i] = impacts[i] \/ impacts'[i] = impacts[i] + 1
    <3>1. work[x].pc = "publish"
      BY <2>2 DEF FailPublish
    <3>2. PICK id \in ImpactIds : id = ImpactOf(x)
      BY <1>0, <3>1, KnownId DEF WorkOK, Fits
    <3>3. /\ impacts' = [impacts EXCEPT ![id] = IF through THEN @ + 1 ELSE @]
          /\ handed' = handed \cup {id}
      BY <2>2, <3>2 DEF FailPublish
    <3> QED
      BY <3>3 DEF StreamInv, Typed
  <2> QED
    BY <2>1, <2>2 DEF FailDecode, FailStep
<1>2. /\ work' \in [Workers -> ActiveWork \cup {Idle}]
      /\ work'[x].pc \in {"upsert", "deadLetter"} /\ work'[x].key = work[x].key
      /\ work'[x].n = work[x].n /\ work'[x].kind = "none"
      /\ \A y \in Workers \ {x} : work'[y] = work[y]
  BY <1>0, RetryTyped DEF StreamInv, Typed
<1>3. Typed' /\ Grows
  BY <1>0, <1>1, <1>2, Still DEF StreamInv, Typed
<1>4. WorkOK(x)'
  BY <1>0, <1>2 DEF WorkOK, Fits, Settles, Publishes, Writes
<1> QED
  BY <1>0, <1>2, <1>3, <1>4, WorkerStep

\* The dead letter is on its topic.
LEMMA DeadLetterKeeps ==
  ASSUME StreamInv, NEW x \in Workers, PublishDeadLetter(x)
  PROVE  StreamInv'
<1>0. work[x].pc = "deadLetter" /\ work[x].pc # "idle" /\ WorkOK(x)
  BY DEF PublishDeadLetter, StreamInv
<1>1. /\ deadLetters' = deadLetters \cup {<<work[x].key, work[x].n>>} /\ Goto(x, "ack")
      /\ UNCHANGED <<bus, today, sent, next, processed, latest, closes, impacts, handed,
                     buffered, straggler, faults>>
  BY DEF PublishDeadLetter
<1>2. /\ work' \in [Workers -> ActiveWork \cup {Idle}]
      /\ work'[x].pc = "ack" /\ work'[x].key = work[x].key /\ work'[x].n = work[x].n
      /\ work'[x].kind = work[x].kind
      /\ \A y \in Workers \ {x} : work'[y] = work[y]
  BY <1>0, <1>1, GotoTyped DEF StreamInv, Typed, Active
<1>3. Typed' /\ Grows
  BY <1>1, <1>2, Still DEF StreamInv, Typed
<1>4. WorkOK(x)'
  <2>1. Settles(x)' /\ Writes(x)'
    BY <1>1, <1>2 DEF Settles, Writes
  <2> QED
    BY <1>0, <1>1, <1>2, <2>1 DEF WorkOK, Fits, Publishes
<1> QED
  BY <1>1, <1>2, <1>3, <1>4, WorkerStep

\* A worker lets go of its message unacknowledged.
LEMMA LetGoKeeps ==
  ASSUME BoundsAssumption, StreamInv, NEW x \in Workers, FailDeadLetter(x) \/ Crash(x)
  PROVE  StreamInv' /\ work'[x] = Idle /\ \A y \in Workers \ {x} : work'[y] = work[y]
<1>1. /\ work' = [work EXCEPT ![x] = Idle] /\ faults' \in 0..MaxFaults
      /\ buffered' \in [Workers -> SUBSET ImpactIds]
      /\ UNCHANGED <<bus, today, sent, next, processed, latest, closes, impacts, handed,
                     deadLetters, straggler>>
  BY BoundsAssumption DEF FailDeadLetter, Crash, Fault, StreamInv, Typed, BoundsAssumption
<1>2. /\ work' \in [Workers -> ActiveWork \cup {Idle}] /\ work'[x] = Idle
      /\ \A y \in Workers \ {x} : work'[y] = work[y]
  BY <1>1 DEF StreamInv, Typed
<1>3. Typed' /\ Grows
  BY <1>1, <1>2, Still DEF StreamInv, Typed
<1>4. WorkOK(x)'
  BY <1>2 DEF WorkOK, Fits, Settles, Publishes, Writes, Idle
<1> QED
  BY <1>1, <1>2, <1>3, <1>4, WorkerStep

\* commit(msg), acknowledge: what was settled goes.
LEMMA AcknowledgeKeeps ==
  ASSUME StreamInv, NEW x \in Workers, Acknowledge(x)
  PROVE  StreamInv'
<1>0. work[x].pc = "ack" /\ work[x].pc # "idle" /\ WorkOK(x)
  BY DEF Acknowledge, StreamInv
<1>1. PICK k \in Keys, n \in Nat \ {0} : k = work[x].key /\ n = work[x].n
  BY <1>0, HasMessage
<1>2. /\ next' = [next EXCEPT ![k] = IF @ = n THEN @ + 1 ELSE @]
      /\ work' = [work EXCEPT ![x] = Idle]
      /\ UNCHANGED <<bus, today, sent, processed, latest, closes, impacts, handed,
                     buffered, deadLetters, straggler, faults>>
  BY <1>1 DEF Acknowledge
<1>3. /\ \A q \in Keys : sent[q] \in Nat /\ next[q] \in Nat \ {0} /\ latest[q] \in Nat
      /\ \A id \in ImpactIds : impacts[id] \in Nat
      /\ \A q \in Keys : next'[q] = IF q = k /\ next[k] = n THEN n + 1 ELSE next[q]
      /\ next' \in [Keys -> Nat \ {0}]
  BY <1>2 DEF StreamInv, Typed
<1>4. /\ work' \in [Workers -> ActiveWork \cup {Idle}] /\ work'[x] = Idle
      /\ \A y \in Workers \ {x} : work'[y] = work[y]
  BY <1>2 DEF StreamInv, Typed
<1>5. Typed'
  BY <1>2, <1>3, <1>4 DEF StreamInv, Typed
<1>6. Grows
  BY <1>2, <1>3 DEF Grows
<1>7. WorkOK(x)'
  BY <1>4 DEF WorkOK, Fits, Settles, Publishes, Writes, Idle
<1>8. \A y \in Workers : WorkOK(y)'
  BY <1>4, <1>5, <1>6, <1>7, OtherWorkers
<1>9. /\ n <= sent[k]
      /\ TickId(k, n) \in processed \/ <<k, n>> \in deadLetters
      /\ <<k, n>> \notin deadLetters => k \in straggler \/ latest[k] >= n
  BY <1>0, <1>1 DEF WorkOK, Fits, Settles, Writes
<1>10. ASSUME NEW q \in Keys
       PROVE  KeyOK(q)'
  <2>1. KeyOK(q)
    BY DEF StreamInv
  <2>2. CASE q = k /\ next[k] = n
    BY <1>2, <1>3, <1>9, <2>1, <2>2 DEF KeyOK
  <2>3. CASE ~(q = k /\ next[k] = n)
    BY <1>2, <1>3, <2>1, <2>3 DEF KeyOK
  <2> QED
    BY <2>2, <2>3
<1>11. AckedIsSettled'
  <2> SUFFICES ASSUME NEW q \in Keys, NEW i \in 1..(next'[q] - 1)
               PROVE  TickId(q, i) \in processed \/ <<q, i>> \in deadLetters
    BY <1>2 DEF AckedIsSettled
  <2>1. CASE i \in 1..(next[q] - 1)
    BY <2>1 DEF StreamInv, AckedIsSettled
  <2>2. CASE i \notin 1..(next[q] - 1)
    <3>1. q = k /\ i = n
      BY <1>3, <2>2
    <3> QED
      BY <1>9, <3>1
  <2> QED
    BY <2>1, <2>2
<1>12. MarkedIsPublished'
  BY <1>2 DEF StreamInv, MarkedIsPublished
<1> QED
  BY <1>5, <1>8, <1>10, <1>11, <1>12 DEF StreamInv

\* Every step keeps the invariant.
LEMMA StreamStep ==
  ASSUME StreamInv, [Next]_vars
  PROVE  StreamInv'
<1>1. CASE UNCHANGED vars
  BY <1>1 DEF vars, StreamInv, Typed, WorkOK, Fits, Settles, Publishes, Writes, Published, ImpactOf,
              KeyOK, AckedIsSettled, MarkedIsPublished
<1>2. CASE FeedStep
  BY <1>2, FeedsKeep, FeedAssumption
<1>3. ASSUME NEW x \in Workers, Step(x)
      PROVE  StreamInv'
  BY <1>3, BoundsAssumption, UpsertKeeps, CheckKeeps, ShockGateKeeps, PublishKeeps, MarkShockKeeps,
     MarkMessageKeeps, RetryKeeps, DeadLetterKeeps, AcknowledgeKeeps DEF Step
<1>4. ASSUME NEW x \in Workers, PublishBuffered(x) \/ FailStep(x) \/ FailDeadLetter(x) \/ Crash(x)
      PROVE  StreamInv'
  BY <1>4, BoundsAssumption, PublishKeeps, RetryKeeps, LetGoKeeps
<1>5. ASSUME NEW x \in Workers, NEW k \in Keys, Deliver(x, k) \/ DeliverAgain(x, k)
      PROVE  StreamInv'
  BY <1>5, BoundsAssumption, DeliverKeeps
<1>6. ASSUME NEW x \in Workers, NEW through \in BOOLEAN, FailPublish(x, through)
      PROVE  StreamInv'
  BY <1>6, BoundsAssumption, RetryKeeps
<1>7. ASSUME NEW x \in Workers, NEW id \in buffered[x], DeliverBuffered(x, id)
      PROVE  StreamInv'
  BY <1>7, DeliverBufferedKeeps
<1> QED
  BY <1>1, <1>2, <1>3, <1>4, <1>5, <1>6, <1>7 DEF Next, FeedStep

-----------------------------------------------------------------------------
(* Copies.  The impact sets on the topic or in a producer, with those that *)
(* a worker may still publish, are at most one more than the faults; and   *)
(* that one is spent only by what ends in a mark.                          *)

Possible(x) == {ImpactId(work[x].key, work[x].n, kind) : kind \in Kinds}

\* Past the gate a worker publishes whatever was marked meanwhile.
MayPublish(id) ==
  {x \in Workers :
     \/ work[x].pc = "publish" /\ ImpactOf(x) = id
     \/ /\ id \notin processed
        /\ \/ work[x].pc = "gate" /\ ImpactOf(x) = id
           \/ work[x].pc \in {"upsert", "check"} /\ id \in Possible(x)}

Marking(id) ==
  {x \in Workers :
     /\ work[x].pc = "markShock" \/ (work[x].pc = "mark" /\ work[x].key \in Rated)
     /\ ImpactOf(x) = id}

Buffering(id) == {x \in Workers : id \in buffered[x]}
Copies(id) == impacts[id] + Cardinality(Buffering(id))

CopiesOK(id) ==
  /\ Copies(id) + Cardinality(MayPublish(id)) <= faults + 1
  /\ id \notin processed /\ MayPublish(id) = {} /\ Marking(id) = {} => Copies(id) <= faults
CopiesInv == \A id \in ImpactIds : CopiesOK(id)

\* A set that changes in one place.
LEMMA CountStep ==
  ASSUME NEW S, NEW T, NEW x, IsFiniteSet(S), IsFiniteSet(T), T \ {x} \subseteq S
  PROVE  /\ Cardinality(S) \in Nat /\ Cardinality(T) \in Nat
         /\ Cardinality(T) <= Cardinality(S) + 1
         /\ (x \in T => x \in S) => Cardinality(T) <= Cardinality(S)
         /\ x \in S /\ x \notin T => Cardinality(T) + 1 <= Cardinality(S)
<1>1. Cardinality(S) \in Nat /\ Cardinality(T) \in Nat
  BY FS_CardinalityType
<1>2. /\ IsFiniteSet(S \ {x})
      /\ Cardinality(S \ {x}) = IF x \in S THEN Cardinality(S) - 1 ELSE Cardinality(S)
      /\ Cardinality(T \ {x}) = IF x \in T THEN Cardinality(T) - 1 ELSE Cardinality(T)
  BY FS_RemoveElement
<1>3. Cardinality(T \ {x}) <= Cardinality(S \ {x})
  BY <1>2, FS_Subset
<1> QED
  BY <1>1, <1>2, <1>3

\* One worker's step, and what it does to the copies of one impact set: with
\* a fault one more is due; without, a copy was due already or starts anew.
LEMMA CopiesStep ==
  ASSUME KeysAssumption, Typed, Typed', NEW x \in Workers,
         \A y \in Workers \ {x} : work'[y] = work[y] /\ buffered'[y] = buffered[y],
         processed \subseteq processed', NEW id \in ImpactIds, CopiesOK(id),
         \/ /\ faults' = faults + 1
            /\ Copies(id)' <= Copies(id) \/ (x \in MayPublish(id) /\ Copies(id)' <= Copies(id) + 1)
         \/ /\ faults' = faults /\ Copies(id)' <= Copies(id)
            /\ x \in MayPublish(id)' => x \in MayPublish(id)
            /\ x \in Marking(id) => x \in Marking(id)' \/ id \in processed'
         \/ /\ faults' = faults /\ Copies(id)' <= Copies(id) + 1
            /\ x \in MayPublish(id) /\ x \notin MayPublish(id)' /\ x \in Marking(id)'
         \/ /\ faults' = faults /\ Copies(id)' <= Copies(id)
            /\ MayPublish(id) = {} /\ Marking(id) = {} /\ id \notin processed /\ x \in MayPublish(id)'
  PROVE  CopiesOK(id)'
<1> DEFINE M == MayPublish(id)
           N == MayPublish(id)'
<1>1. IsFiniteSet(M) /\ IsFiniteSet(N) /\ IsFiniteSet(Buffering(id)) /\ IsFiniteSet(Buffering(id)')
  BY FS_Subset, KeysAssumption DEF MayPublish, Buffering, KeysAssumption
<1>2. /\ N \ {x} \subseteq M
      /\ id \notin processed' => M \ {x} \subseteq N
      /\ Marking(id) \ {x} \subseteq Marking(id)'
  <2>1. \A y \in Workers \ {x} : work'[y] = work[y]
    OBVIOUS
  <2>2. \A y \in Workers \ {x} : ImpactOf(y)' = ImpactOf(y) /\ Possible(y)' = Possible(y)
    BY <2>1 DEF ImpactOf, Possible
  <2>3. N \ {x} \subseteq M
    BY <2>1, <2>2 DEF MayPublish
  <2>4. id \notin processed' => M \ {x} \subseteq N
    BY <2>1, <2>2 DEF MayPublish
  <2>5. Marking(id) \ {x} \subseteq Marking(id)'
    BY <2>1, <2>2 DEF Marking
  <2> QED
    BY <2>3, <2>4, <2>5
<1>3. /\ Cardinality(M) \in Nat /\ Cardinality(N) \in Nat /\ Cardinality(N) <= Cardinality(M) + 1
      /\ (x \in N => x \in M) => Cardinality(N) <= Cardinality(M)
      /\ x \in M /\ x \notin N => Cardinality(N) + 1 <= Cardinality(M)
  BY <1>1, <1>2, CountStep
<1>4. x \in M => Cardinality(M) >= 1
  BY <1>1, <1>3, FS_EmptySet
<1>5. Copies(id) \in Nat /\ Copies(id)' \in Nat /\ faults \in Nat
  <2>1. impacts[id] \in Nat /\ impacts'[id] \in Nat /\ faults \in Nat
    BY DEF Typed
  <2>2. Cardinality(Buffering(id)) \in Nat /\ Cardinality(Buffering(id)') \in Nat
    BY <1>1, FS_CardinalityType
  <2> QED
    BY <2>1, <2>2 DEF Copies
<1>6. M = {} => Cardinality(M) = 0
  BY FS_EmptySet
<1> DEFINE c == Copies(id)
           d == Copies(id)'
           m == Cardinality(M)
           o == Cardinality(N)
<1>7. c + m <= faults + 1 /\ (id \notin processed /\ M = {} /\ Marking(id) = {} => c <= faults)
  BY DEF CopiesOK
<1>8. CASE faults' = faults + 1 /\ (d <= c \/ (x \in M /\ d <= c + 1))
  <2>1. d + o <= faults + 2
    <3> HIDE DEF c, d, m, o, M, N
    <3>1. m \in Nat /\ o \in Nat /\ o <= m + 1 /\ (x \in M => o <= m)
      BY <1>3 DEF m, o
    <3>2. c \in Nat /\ d \in Nat /\ faults \in Nat
      BY <1>5 DEF c, d
    <3> QED
      BY <1>7, <1>8, <3>1, <3>2
  <2>2. d <= faults + 1
    <3> HIDE DEF c, d, m, o, M, N
    <3>1. m \in Nat /\ (x \in M => m >= 1)
      BY <1>3, <1>4 DEF m
    <3>2. c \in Nat /\ d \in Nat /\ faults \in Nat
      BY <1>5 DEF c, d
    <3> QED
      BY <1>7, <1>8, <3>1, <3>2
  <2>3. d + o <= faults' + 1 /\ d <= faults'
    <3> HIDE DEF d, o
    <3> QED
      BY <1>3, <1>5, <1>8, <2>1, <2>2 DEF d, o
  <2> QED
    BY <2>3 DEF CopiesOK
<1>9. CASE /\ faults' = faults /\ d <= c /\ (x \in N => x \in M)
           /\ x \in Marking(id) => x \in Marking(id)' \/ id \in processed'
  <2>1. d + o <= faults + 1
    <3> HIDE DEF c, d, m, o, M, N
    <3>1. m \in Nat /\ o \in Nat /\ o <= m
      BY <1>3, <1>9 DEF m, o
    <3>2. c \in Nat /\ d \in Nat /\ faults \in Nat
      BY <1>5 DEF c, d
    <3> QED
      BY <1>7, <1>9, <3>1, <3>2
  <2>2. ASSUME id \notin processed', N = {}, Marking(id)' = {}
        PROVE  d <= faults
    <3>1. Marking(id) = {} /\ id \notin processed
      BY <1>2, <1>9, <2>2
    <3>2. c <= faults
      <4>1. CASE x \in M
        <5> HIDE DEF c, d, m, o, M, N
        <5>1. m \in Nat /\ m >= 1
          BY <1>3, <1>4, <4>1 DEF m
        <5> QED
          BY <1>5, <1>7, <5>1 DEF c
      <4>2. CASE x \notin M
        <5>1. M = {}
          BY <1>2, <2>2, <4>2
        <5> QED
          BY <1>7, <3>1, <5>1
      <4> QED
        BY <4>1, <4>2
    <3> HIDE DEF c, d
    <3> QED
      BY <1>5, <1>9, <3>2 DEF c, d
  <2> QED
    BY <1>9, <2>1, <2>2 DEF CopiesOK
<1>10. CASE /\ faults' = faults /\ d <= c + 1 /\ x \in M /\ x \notin N /\ x \in Marking(id)'
  <2>1. d + o <= faults + 1
    <3> HIDE DEF c, d, m, o, M, N
    <3>1. m \in Nat /\ o \in Nat /\ o + 1 <= m
      BY <1>3, <1>10 DEF m, o
    <3>2. c \in Nat /\ d \in Nat /\ faults \in Nat
      BY <1>5 DEF c, d
    <3> QED
      BY <1>7, <1>10, <3>1, <3>2
  <2> QED
    BY <1>10, <2>1 DEF CopiesOK
<1>11. CASE /\ faults' = faults /\ d <= c
            /\ M = {} /\ Marking(id) = {} /\ id \notin processed /\ x \in N
  <2>1. d + o <= faults + 1
    <3> HIDE DEF c, d, m, o, M, N
    <3>1. m = 0 /\ o \in Nat /\ o <= m + 1
      BY <1>3, <1>6, <1>11 DEF m, o
    <3>2. c \in Nat /\ d \in Nat /\ faults \in Nat
      BY <1>5 DEF c, d
    <3> QED
      BY <1>7, <1>11, <3>1, <3>2
  <2> QED
    BY <1>11, <2>1 DEF CopiesOK
<1> QED
  BY <1>8, <1>9, <1>10, <1>11

\* An impact set is of one key.
LEMMA OneKey ==
  ASSUME NEW k, NEW i, NEW q, NEW j, NEW kind \in Kinds \cup {"none"}, NEW other \in Kinds \cup {"none"},
         ImpactId(k, i, kind) = ImpactId(q, j, other)
  PROVE  k = q
<1>1. CASE k \in Rated /\ q \in Rated
  BY <1>1 DEF ImpactId, TickId
<1>2. CASE ~(k \in Rated /\ q \in Rated)
  BY <1>2 DEF ImpactId, TickId, Kinds
<1> QED
  BY <1>1, <1>2

\* The impact set of a message is one of those it may raise, from the gate on.
LEMMA OwnIsPossible ==
  ASSUME StreamInv, NEW x \in Workers, work[x].pc # "idle",
         work[x].key \in Rated \/ work[x].kind # "none"
  PROVE  ImpactOf(x) \in Possible(x)
<1>1. work[x].kind \in Kinds \cup {"none"}
  BY HasMessage DEF ActiveWork
<1>2. CASE work[x].kind \in Kinds
  BY <1>2 DEF ImpactOf, Possible
<1>3. CASE work[x].key \in Rated
  <2>1. ImpactOf(x) = ImpactId(work[x].key, work[x].n, "PRICE_SHOCK")
    BY <1>3 DEF ImpactOf, ImpactId
  <2> QED
    BY <2>1 DEF Possible, Kinds
<1> QED
  BY <1>1, <1>2, <1>3

\* Copies do not change with what a worker does elsewhere.
LEMMA CopiesStill ==
  ASSUME UNCHANGED <<impacts, buffered>>, NEW id
  PROVE  Copies(id)' = Copies(id)
<1>1. Buffering(id)' = Buffering(id)
  BY DEF Buffering
<1> QED
  BY <1>1 DEF Copies

\* Whoever may publish or mark the impact set of a key is busy with it.
LEMMA OnlyBusy ==
  ASSUME StreamInv, NEW k \in Keys, Busy(k) = {}, NEW i, NEW kind \in Kinds
  PROVE  MayPublish(ImpactId(k, i, kind)) = {} /\ Marking(ImpactId(k, i, kind)) = {}
<1> SUFFICES ASSUME NEW y \in Workers, work[y].pc # "idle",
                    ImpactOf(y) = ImpactId(k, i, kind) \/ ImpactId(k, i, kind) \in Possible(y)
             PROVE  FALSE
  BY DEF MayPublish, Marking
<1>1. work[y].kind \in Kinds \cup {"none"}
  BY HasMessage DEF ActiveWork
<1>2. PICK other \in Kinds \cup {"none"} : ImpactId(work[y].key, work[y].n, other) = ImpactId(k, i, kind)
  BY <1>1 DEF ImpactOf, Possible
<1>3. work[y].key = k
  BY <1>2, OneKey
<1> QED
  BY <1>3 DEF Busy

\* A step without a fault that brings no copy and makes none due.
LEMMA CopiesQuiet ==
  ASSUME KeysAssumption, StreamInv, StreamInv', CopiesInv, NEW x \in Workers,
         \A y \in Workers \ {x} : work'[y] = work[y],
         UNCHANGED <<impacts, buffered, faults>>, processed \subseteq processed',
         \A id \in ImpactIds :
           /\ x \in MayPublish(id)' => x \in MayPublish(id)
           /\ x \in Marking(id) => x \in Marking(id)' \/ id \in processed'
  PROVE  CopiesInv'
<1> SUFFICES ASSUME NEW id \in ImpactIds PROVE CopiesOK(id)'
  BY DEF CopiesInv
<1>1. Typed /\ Typed' /\ CopiesOK(id)
  BY DEF StreamInv, CopiesInv
<1>2. Copies(id)' = Copies(id) /\ Copies(id) <= Copies(id)
  <2>1. Copies(id)' = Copies(id)
    BY CopiesStill
  <2>2. IsFiniteSet(Buffering(id)) /\ impacts[id] \in Nat
    BY <1>1, FS_Subset DEF Buffering, KeysAssumption, Typed
  <2> QED
    BY <2>1, <2>2, FS_CardinalityType DEF Copies
<1> QED
  BY <1>1, <1>2, CopiesStep

\* A step with a fault that brings no copy.
LEMMA CopiesFault ==
  ASSUME KeysAssumption, StreamInv, StreamInv', CopiesInv, NEW x \in Workers,
         \A y \in Workers \ {x} : work'[y] = work[y] /\ buffered'[y] = buffered[y],
         Fault, processed \subseteq processed',
         impacts' = impacts, buffered'[x] \subseteq buffered[x]
  PROVE  CopiesInv'
<1> SUFFICES ASSUME NEW id \in ImpactIds PROVE CopiesOK(id)'
  BY DEF CopiesInv
<1>1. Typed /\ Typed' /\ CopiesOK(id) /\ faults' = faults + 1
  BY DEF StreamInv, CopiesInv, Fault
<1>2. Copies(id)' <= Copies(id)
  <2>1. Buffering(id)' \subseteq Buffering(id)
    BY DEF Buffering
  <2>2. IsFiniteSet(Buffering(id)) /\ impacts[id] \in Nat
    BY <1>1, FS_Subset DEF Buffering, KeysAssumption, Typed
  <2>3. /\ Cardinality(Buffering(id)') <= Cardinality(Buffering(id))
        /\ Cardinality(Buffering(id)') \in Nat /\ Cardinality(Buffering(id)) \in Nat
    BY <2>1, <2>2, FS_Subset, FS_CardinalityType
  <2> QED
    BY <2>2, <2>3 DEF Copies
<1> QED
  BY <1>1, <1>2, CopiesStep

\* One more impact set on the topic, or in the producer.
LEMMA OneMore ==
  ASSUME KeysAssumption, Typed, Typed', NEW x \in Workers, NEW i \in ImpactIds,
         \/ impacts' = [impacts EXCEPT ![i] = @ + 1] /\ UNCHANGED buffered
         \/ impacts' = impacts /\ UNCHANGED buffered
         \/ impacts' = impacts /\ buffered' = [buffered EXCEPT ![x] = @ \cup {i}]
  PROVE  \A id \in ImpactIds : /\ Copies(id)' <= Copies(id) + 1
                               /\ id # i => Copies(id)' <= Copies(id)
<1> SUFFICES ASSUME NEW id \in ImpactIds
             PROVE  Copies(id)' <= Copies(id) + 1 /\ (id # i => Copies(id)' <= Copies(id))
  OBVIOUS
<1>1. /\ impacts[id] \in Nat /\ impacts'[id] \in Nat
      /\ IsFiniteSet(Buffering(id)) /\ IsFiniteSet(Buffering(id)')
  BY FS_Subset DEF Typed, Buffering, KeysAssumption
<1>2. Cardinality(Buffering(id)) \in Nat /\ Cardinality(Buffering(id)') \in Nat
  BY <1>1, FS_CardinalityType
<1>3. CASE UNCHANGED buffered
  <2>1. Buffering(id)' = Buffering(id)
    BY <1>3 DEF Buffering
  <2>2. impacts'[id] <= impacts[id] + 1 /\ (id # i => impacts'[id] <= impacts[id])
    BY <1>1, <1>3 DEF Typed
  <2> QED
    BY <1>1, <1>2, <2>1, <2>2 DEF Copies
<1>4. CASE impacts' = impacts /\ buffered' = [buffered EXCEPT ![x] = @ \cup {i}]
  <2>1. /\ Buffering(id)' \ {x} \subseteq Buffering(id)
        /\ id # i => (x \in Buffering(id)' => x \in Buffering(id))
    BY <1>4 DEF Buffering, Typed
  <2>2. /\ Cardinality(Buffering(id)') <= Cardinality(Buffering(id)) + 1
        /\ id # i => Cardinality(Buffering(id)') <= Cardinality(Buffering(id))
    BY <1>1, <2>1, CountStep
  <2> QED
    BY <1>1, <1>2, <1>4, <2>2 DEF Copies
<1> QED
  BY <1>3, <1>4

\* Deliveries: the first of a key makes a copy due, which none was.
LEMMA DeliverCopies ==
  ASSUME StreamInv, CopiesInv, NEW x \in Workers, NEW k \in Keys,
         Deliver(x, k) \/ DeliverAgain(x, k)
  PROVE  CopiesInv'
<1>1. /\ StreamInv' /\ work'[x] = StartOf(k, next[k])
      /\ \A y \in Workers \ {x} : work'[y] = work[y]
  BY DeliverKeeps, BoundsAssumption
<1>2. work[x].pc = "idle" /\ UNCHANGED <<processed, impacts, buffered>>
  BY DEF Deliver, DeliverAgain
<1>3. CASE DeliverAgain(x, k)
  <2>1. Fault
    BY <1>3 DEF DeliverAgain
  <2> QED
    BY <1>1, <1>2, <2>1, CopiesFault, KeysAssumption
<1>4. CASE Deliver(x, k)
  <2>1. Busy(k) = {} /\ faults' = faults
    BY <1>4 DEF Deliver
  <2> SUFFICES ASSUME NEW id \in ImpactIds PROVE CopiesOK(id)'
    BY DEF CopiesInv
  <2>2. Typed /\ Typed' /\ CopiesOK(id)
    BY <1>1 DEF StreamInv, CopiesInv
  <2>3. Copies(id)' <= Copies(id)
    <3>1. Copies(id)' = Copies(id)
      BY <1>2, CopiesStill
    <3>2. IsFiniteSet(Buffering(id)) /\ impacts[id] \in Nat
      BY <2>2, FS_Subset, KeysAssumption DEF Buffering, KeysAssumption, Typed
    <3> QED
      BY <3>1, <3>2, FS_CardinalityType DEF Copies
  <2>4. x \notin Marking(id)
    BY <1>2 DEF Marking
  <2>5. CASE x \notin MayPublish(id)'
    BY <1>1, <1>2, <2>1, <2>2, <2>3, <2>4, <2>5, CopiesStep, KeysAssumption
  <2>6. CASE x \in MayPublish(id)'
    <3>1. work'[x].pc = "upsert" /\ work'[x].key = k
      BY <1>1 DEF StartOf
    <3>2. id \notin processed /\ id \in Possible(x)'
      BY <1>2, <2>6, <3>1 DEF MayPublish
    <3>3. PICK kind \in Kinds : id = ImpactId(k, work'[x].n, kind)
      BY <3>1, <3>2 DEF Possible
    <3>4. MayPublish(id) = {} /\ Marking(id) = {}
      BY <2>1, <3>3, OnlyBusy
    <3> QED
      BY <1>1, <1>2, <2>1, <2>2, <2>3, <2>6, <3>2, <3>4, CopiesStep, KeysAssumption
  <2> QED
    BY <2>5, <2>6
<1> QED
  BY <1>3, <1>4

\* Before the bus is reached, and after: no copy is made, and a mark is not
\* forgone.
LEMMA QuietCopies ==
  ASSUME StreamInv, CopiesInv, NEW x \in Workers,
         \/ Upsert(x) \/ Check(x) \/ ShockGate(x) \/ MarkShock(x) \/ MarkMessage(x)
         \/ FailDecode(x) \/ PublishDeadLetter(x) \/ Acknowledge(x)
  PROVE  CopiesInv'
<1>0. StreamInv' /\ WorkOK(x) /\ work[x].pc # "idle"
  BY BoundsAssumption, UpsertKeeps, CheckKeeps, ShockGateKeeps, MarkShockKeeps, MarkMessageKeeps,
     RetryKeeps, DeadLetterKeeps, AcknowledgeKeeps
  DEF StreamInv, Upsert, Check, ShockGate, MarkShock, MarkMessage, FailDecode, PublishDeadLetter, Acknowledge
<1>1. UNCHANGED <<impacts, buffered, faults>> /\ processed \subseteq processed'
  BY DEF Upsert, Check, ShockGate, MarkShock, MarkMessage, FailDecode, PublishDeadLetter, Acknowledge
<1>2. work \in [Workers -> ActiveWork \cup {Idle}]
  BY DEF StreamInv, Typed
<1>3. ASSUME NEW p \in Active, Goto(x, p)
      PROVE  /\ work'[x].pc = p /\ work'[x].key = work[x].key /\ work'[x].n = work[x].n
             /\ work'[x].kind = work[x].kind
             /\ \A y \in Workers \ {x} : work'[y] = work[y]
             /\ ImpactOf(x)' = ImpactOf(x) /\ Possible(x)' = Possible(x)
  <2>1. /\ work'[x].pc = p /\ work'[x].key = work[x].key /\ work'[x].n = work[x].n
        /\ work'[x].kind = work[x].kind
        /\ \A y \in Workers \ {x} : work'[y] = work[y]
    BY <1>0, <1>2, <1>3, GotoTyped
  <2> QED
    BY <2>1 DEF ImpactOf, Possible
<1> DEFINE Keeps == /\ \A y \in Workers \ {x} : work'[y] = work[y]
                    /\ \A id \in ImpactIds :
                         /\ x \in MayPublish(id)' => x \in MayPublish(id)
                         /\ x \in Marking(id) => x \in Marking(id)' \/ id \in processed'
<1>4. ASSUME Upsert(x) PROVE Keeps
  <2>1. Goto(x, "check") /\ work[x].pc = "upsert" /\ processed' = processed /\ "check" \in Active
    BY <1>4 DEF Upsert, Active
  <2> QED
    BY <1>3, <2>1 DEF MayPublish, Marking
<1>5. ASSUME Check(x) PROVE Keeps
  <2>1. /\ \A y \in Workers \ {x} : work'[y] = work[y]
        /\ work'[x].key = work[x].key /\ work'[x].n = work[x].n
        /\ \/ work'[x].pc \in {"ack", "mark"}
           \/ work'[x].pc = "publish" /\ work[x].key \in Rated
              /\ TickId(work[x].key, work[x].n) \notin processed
           \/ work'[x].pc = "gate" /\ work'[x].kind \in Kinds /\ work[x].key \notin Rated
    BY <1>5, CheckKeeps
  <2>2. work[x].pc = "check" /\ processed' = processed
    BY <1>5 DEF Check
  <2>3. ASSUME NEW id \in ImpactIds, x \in MayPublish(id)'
        PROVE  x \in MayPublish(id)
    <3>1. id \notin processed /\ id = ImpactOf(x)'
      BY <2>1, <2>2, <2>3 DEF MayPublish, ImpactOf, ImpactId
    <3>2. id \in Possible(x)
      <4>1. ImpactOf(x)' \in Possible(x)'
        BY <1>0, <2>1, <2>3, OwnIsPossible DEF MayPublish, ImpactOf, Possible, ImpactId, Kinds
      <4>2. Possible(x)' = Possible(x)
        BY <2>1 DEF Possible
      <4> QED
        BY <3>1, <4>1, <4>2
    <3> QED
      BY <2>2, <3>1, <3>2 DEF MayPublish
  <2> QED
    BY <2>1, <2>2, <2>3 DEF Marking
<1>6. ASSUME ShockGate(x) PROVE Keeps
  <2>1. PICK p \in {"mark", "publish"} : Goto(x, p) /\ (p = "publish" => ImpactOf(x) \notin processed)
    BY <1>6 DEF ShockGate
  <2>2. work[x].pc = "gate" /\ processed' = processed /\ p \in Active
    BY <1>6 DEF ShockGate, Active
  <2> QED
    BY <1>3, <2>1, <2>2 DEF MayPublish, Marking
<1>7. ASSUME MarkShock(x) PROVE Keeps
  <2>1. /\ Goto(x, "mark") /\ work[x].pc = "markShock" /\ "mark" \in Active
        /\ processed' = processed \cup {ImpactOf(x)}
    BY <1>7 DEF MarkShock, Active
  <2> QED
    BY <1>3, <2>1 DEF MayPublish, Marking
<1>8. ASSUME MarkMessage(x) PROVE Keeps
  <2>1. /\ Goto(x, "ack") /\ work[x].pc = "mark" /\ "ack" \in Active
        /\ processed' = processed \cup {TickId(work[x].key, work[x].n)}
    BY <1>8 DEF MarkMessage, Active
  <2>2. work[x].key \in Rated => ImpactOf(x) = TickId(work[x].key, work[x].n)
    BY DEF ImpactOf, ImpactId
  <2> QED
    BY <1>3, <2>1, <2>2 DEF MayPublish, Marking
<1>9. ASSUME FailDecode(x) PROVE Keeps
  <2>1. /\ work'[x].pc \in {"upsert", "deadLetter"} /\ work'[x].key = work[x].key
        /\ work'[x].n = work[x].n /\ (\A y \in Workers \ {x} : work'[y] = work[y])
    BY <1>9, RetryKeeps, BoundsAssumption
  <2>2. work[x].pc = "upsert" /\ processed' = processed /\ Possible(x)' = Possible(x)
    BY <1>9, <2>1 DEF FailDecode, Possible
  <2> QED
    BY <2>1, <2>2 DEF MayPublish, Marking
<1>10. ASSUME PublishDeadLetter(x) PROVE Keeps
  <2>1. Goto(x, "ack") /\ work[x].pc = "deadLetter" /\ "ack" \in Active
    BY <1>10 DEF PublishDeadLetter, Active
  <2> QED
    BY <1>3, <2>1 DEF MayPublish, Marking
<1>11. ASSUME Acknowledge(x) PROVE Keeps
  <2>1. work' = [work EXCEPT ![x] = Idle] /\ work[x].pc = "ack"
    BY <1>11 DEF Acknowledge
  <2>2. work'[x].pc = "idle" /\ \A y \in Workers \ {x} : work'[y] = work[y]
    BY <1>2, <2>1 DEF Idle
  <2> QED
    BY <2>1, <2>2 DEF MayPublish, Marking
<1>12. Keeps
  BY <1>4, <1>5, <1>6, <1>7, <1>8, <1>9, <1>10, <1>11
<1> QED
  BY <1>0, <1>1, <1>12, CopiesQuiet, KeysAssumption

\* The copy that was due is made: a mark is due instead, or a fault was.
LEMMA PublishCopies ==
  ASSUME StreamInv, CopiesInv, NEW x \in Workers,
         Publish(x) \/ PublishBuffered(x) \/ \E through \in BOOLEAN : FailPublish(x, through)
  PROVE  CopiesInv'
<1>0. StreamInv' /\ WorkOK(x) /\ work[x].pc = "publish" /\ work[x].pc # "idle"
  BY BoundsAssumption, PublishKeeps, RetryKeeps DEF StreamInv, Publish, PublishBuffered, FailPublish
<1>1. PICK i \in ImpactIds : i = ImpactOf(x)
  BY <1>0, KnownId DEF WorkOK, Fits
<1>2. /\ processed' = processed
      /\ \/ impacts' = [impacts EXCEPT ![i] = @ + 1] /\ UNCHANGED buffered
         \/ impacts' = impacts /\ UNCHANGED buffered
         \/ impacts' = impacts /\ buffered' = [buffered EXCEPT ![x] = @ \cup {i}]
  <2>1. ASSUME NEW through \in BOOLEAN, FailPublish(x, through)
        PROVE  /\ processed' = processed
               /\ \/ impacts' = [impacts EXCEPT ![i] = @ + 1] /\ UNCHANGED buffered
                  \/ impacts' = impacts /\ UNCHANGED buffered
    <3>1. /\ processed' = processed /\ UNCHANGED buffered
          /\ impacts' = [impacts EXCEPT ![i] = IF through THEN @ + 1 ELSE @]
      BY <1>1, <2>1 DEF FailPublish
    <3> QED
      BY <3>1 DEF StreamInv, Typed
  <2> QED
    BY <1>1, <2>1 DEF Publish, PublishBuffered
<1>3. /\ \A y \in Workers \ {x} : work'[y] = work[y] /\ buffered'[y] = buffered[y]
      /\ Publish(x) => /\ work'[x].pc \in {"mark", "markShock"}
                       /\ work'[x].pc = "mark" => work'[x].key \in Rated
                       /\ ImpactOf(x)' = ImpactOf(x)
  <2>1. \A y \in Workers \ {x} : buffered'[y] = buffered[y]
    BY <1>2 DEF StreamInv, Typed
  <2>2. ASSUME Publish(x) \/ PublishBuffered(x)
        PROVE  /\ work'[x].pc \in {"mark", "markShock"}
               /\ work'[x].pc = "mark" => work'[x].key \in Rated
               /\ ImpactOf(x)' = ImpactOf(x)
               /\ \A y \in Workers \ {x} : work'[y] = work[y]
    <3>1. PICK p \in {"mark", "markShock"} :
            Goto(x, p) /\ p \in Active /\ (p = "mark" <=> work[x].key \in Rated)
      BY <2>2 DEF Publish, PublishBuffered, AfterPublish, Active
    <3>2. /\ work'[x].pc = p /\ work'[x].key = work[x].key /\ work'[x].n = work[x].n
          /\ work'[x].kind = work[x].kind
          /\ \A y \in Workers \ {x} : work'[y] = work[y]
      BY <1>0, <3>1, GotoTyped DEF StreamInv, Typed
    <3> QED
      BY <3>1, <3>2 DEF ImpactOf
  <2> QED
    BY <2>1, <2>2, RetryKeeps, BoundsAssumption
<1>4. SUFFICES ASSUME NEW id \in ImpactIds PROVE CopiesOK(id)'
  BY DEF CopiesInv
<1>5. Typed /\ Typed' /\ CopiesOK(id)
  BY <1>0 DEF StreamInv, CopiesInv
<1>6. Copies(id)' <= Copies(id) + 1 /\ (id # i => Copies(id)' <= Copies(id))
  BY <1>2, <1>5, OneMore, KeysAssumption
<1>7. id = i => x \in MayPublish(id)
  BY <1>0, <1>1 DEF MayPublish
<1>8. CASE Publish(x)
  <2>1. faults' = faults
    BY <1>8 DEF Publish
  <2>2. x \notin MayPublish(id)' /\ x \notin Marking(id)
    BY <1>0, <1>3, <1>8 DEF MayPublish, Marking
  <2>3. id = i => x \in Marking(id)'
    BY <1>1, <1>3, <1>8 DEF Marking
  <2> QED
    BY <1>2, <1>3, <1>5, <1>6, <1>7, <2>1, <2>2, <2>3, CopiesStep, KeysAssumption
<1>9. CASE ~Publish(x)
  <2>1. faults' = faults + 1
    BY <1>9 DEF PublishBuffered, FailPublish, Fault
  <2> QED
    BY <1>2, <1>3, <1>5, <1>6, <1>7, <2>1, CopiesStep, KeysAssumption
<1> QED
  BY <1>8, <1>9

\* Other faults.
LEMMA FaultCopies ==
  ASSUME StreamInv, CopiesInv, NEW x \in Workers, FailStep(x) \/ FailDeadLetter(x) \/ Crash(x)
  PROVE  CopiesInv'
<1>1. StreamInv' /\ \A y \in Workers \ {x} : work'[y] = work[y]
  BY BoundsAssumption, RetryKeeps, LetGoKeeps
<1>2. Fault /\ impacts' = impacts /\ processed' = processed
  BY DEF FailStep, FailDeadLetter, Crash
<1>3. /\ \A y \in Workers \ {x} : buffered'[y] = buffered[y]
      /\ buffered'[x] \subseteq buffered[x]
  BY DEF FailStep, FailDeadLetter, Crash, StreamInv, Typed
<1> QED
  BY <1>1, <1>2, <1>3, CopiesFault, KeysAssumption

\* From the producer to the topic: the same copy.
LEMMA BufferedCopies ==
  ASSUME StreamInv, CopiesInv, NEW x \in Workers, NEW i \in buffered[x], DeliverBuffered(x, i)
  PROVE  CopiesInv'
<1>1. /\ i \in ImpactIds /\ impacts' = [impacts EXCEPT ![i] = @ + 1]
      /\ buffered' = [buffered EXCEPT ![x] = @ \ {i}]
      /\ UNCHANGED <<work, processed, faults>>
  BY DEF DeliverBuffered, StreamInv, Typed
<1> SUFFICES ASSUME NEW id \in ImpactIds PROVE CopiesOK(id)'
  BY DEF CopiesInv
<1>2. StreamInv' /\ Typed /\ Typed' /\ CopiesOK(id)
  BY DeliverBufferedKeeps DEF StreamInv, CopiesInv
<1>3. /\ impacts[id] \in Nat /\ impacts'[id] = (IF id = i THEN impacts[id] + 1 ELSE impacts[id])
      /\ IsFiniteSet(Buffering(id)) /\ IsFiniteSet(Buffering(id)')
  BY <1>1, <1>2, FS_Subset, KeysAssumption DEF Typed, Buffering, KeysAssumption
<1>4. /\ Buffering(id)' \ {x} \subseteq Buffering(id)
      /\ x \in Buffering(id)' => x \in Buffering(id)
      /\ id = i => x \in Buffering(id) /\ x \notin Buffering(id)'
  BY <1>1, <1>2 DEF Buffering, Typed
<1>5. /\ Cardinality(Buffering(id)) \in Nat /\ Cardinality(Buffering(id)') \in Nat
      /\ Cardinality(Buffering(id)') <= Cardinality(Buffering(id))
      /\ id = i => Cardinality(Buffering(id)') + 1 <= Cardinality(Buffering(id))
  BY <1>3, <1>4, CountStep
<1>6. Copies(id)' <= Copies(id)
  BY <1>3, <1>5 DEF Copies
<1>7. /\ x \in MayPublish(id)' => x \in MayPublish(id)
      /\ x \in Marking(id) => x \in Marking(id)'
  BY <1>1 DEF MayPublish, Marking, ImpactOf, Possible
<1>8. \A y \in Workers \ {x} : work'[y] = work[y] /\ buffered'[y] = buffered[y]
  BY <1>1, <1>2 DEF Typed
<1> QED
  BY <1>1, <1>2, <1>6, <1>7, <1>8, CopiesStep, KeysAssumption

\* Every step accounts for its copies.
LEMMA CopiesNext ==
  ASSUME StreamInv, CopiesInv, [Next]_vars
  PROVE  CopiesInv'
<1>1. CASE UNCHANGED <<work, processed, impacts, buffered, faults>>
  <2> SUFFICES ASSUME NEW id \in ImpactIds PROVE CopiesOK(id)'
    BY DEF CopiesInv
  <2>1. MayPublish(id)' = MayPublish(id) /\ Marking(id)' = Marking(id) /\ Copies(id)' = Copies(id)
    BY <1>1, CopiesStill DEF MayPublish, Marking, ImpactOf, Possible
  <2> QED
    BY <1>1, <2>1 DEF CopiesInv, CopiesOK
<1>2. CASE FeedStep \/ UNCHANGED vars
  BY <1>1, <1>2, FeedsAdd, FeedAssumption DEF vars
<1>3. ASSUME NEW x \in Workers, Step(x) \/ PublishBuffered(x) \/ FailStep(x) \/ FailDeadLetter(x) \/ Crash(x)
      PROVE  CopiesInv'
  BY <1>3, QuietCopies, PublishCopies, FaultCopies DEF Step
<1>4. ASSUME NEW x \in Workers, NEW k \in Keys, Deliver(x, k) \/ DeliverAgain(x, k)
      PROVE  CopiesInv'
  BY <1>4, DeliverCopies
<1>5. ASSUME NEW x \in Workers, NEW through \in BOOLEAN, FailPublish(x, through)
      PROVE  CopiesInv'
  BY <1>5, PublishCopies
<1>6. ASSUME NEW x \in Workers, NEW id \in buffered[x], DeliverBuffered(x, id)
      PROVE  CopiesInv'
  BY <1>6, BufferedCopies
<1> QED
  BY <1>2, <1>3, <1>4, <1>5, <1>6 DEF Next, FeedStep

\* No copy, and none due, in the beginning.
LEMMA CopiesInit ==
  ASSUME Init
  PROVE  CopiesInv
<1> SUFFICES ASSUME NEW id \in ImpactIds PROVE CopiesOK(id)
  BY DEF CopiesInv
<1>1. MayPublish(id) = {} /\ Buffering(id) = {} /\ impacts[id] = 0 /\ faults = 0
  BY DEF Init, MayPublish, Buffering, Idle
<1> QED
  BY <1>1, FS_EmptySet DEF CopiesOK, Copies

-----------------------------------------------------------------------------
(* What the invariant says of the properties.                              *)

\* The greatest of some numbers up to n.
LEMMA MaxOf ==
  ASSUME NEW n \in Nat, NEW S \in SUBSET (1..n), S # {}
  PROVE  Max(S) \in S /\ \A i \in S : Max(S) >= i
<1> DEFINE R == OpToRel(<, Nat)
           T == {n - i : i \in S}
<1>1. IsWellFoundedOn(R, Nat) /\ T \subseteq Nat /\ T # {}
  <2>1. IsWellFoundedOn(R, Nat)
    BY NatLessThanWellFounded, Zenon
  <2>2. ASSUME NEW i \in S PROVE n - i \in Nat /\ n - i \in T
    BY SMT
  <2>3. PICK k \in S : TRUE
    OBVIOUS
  <2>4. T # {}
    BY <2>2, <2>3, Zenon
  <2>5. ASSUME NEW t \in T PROVE t \in Nat
    <3>1. PICK i \in S : t = n - i
      BY <2>5, Zenon
    <3> QED
      BY <2>2, <3>1
  <2> QED
    BY <2>1, <2>4, <2>5
<1>2. \A i, j \in Nat : <<j, i>> \in R <=> j < i
  BY DEF OpToRel
<1> HIDE DEF R, T
<1>3. \E t \in T : \A u \in T : ~(<<u, t>> \in R)
  BY <1>1, WFMin
<1>4. PICK t \in T : \A u \in T : ~(<<u, t>> \in R)
  BY <1>3
<1>5. PICK m \in S : t = n - m
  BY DEF T
<1>6. \A i \in S : m >= i
  <2> SUFFICES ASSUME NEW i \in S PROVE m >= i
    OBVIOUS
  <2>1. n - i \in T /\ ~(n - i < t) /\ n - i \in Nat /\ t \in Nat
    BY <1>1, <1>2, <1>4 DEF T
  <2> QED
    BY <1>5, <2>1
<1>7. \E m2 \in S : \A i \in S : m2 >= i
  BY <1>6
<1> QED
  BY <1>7 DEF Max

\* The type invariant of Streaming is part of the inductive one.
LEMMA StreamTypeOK ==
  ASSUME StreamInv
  PROVE  TypeOK
<1>1. \A k \in Keys : next[k] <= sent[k] + 1 /\ latest[k] <= sent[k]
  BY DEF StreamInv, KeyOK
<1>2. ASSUME NEW x \in Workers
      PROVE  /\ work[x].pc \in {"idle", "upsert", "check", "gate", "publish", "markShock",
                                "mark", "ack", "deadLetter"}
             /\ work[x].attempt \in 0..MaxAttempts
             /\ work[x].pc # "idle" => work[x].n \in 1..sent[work[x].key]
             /\ work[x].kind # "none" => work[x].pc \in {"gate", "publish", "markShock", "mark", "ack"}
  <2>1. CASE work[x] = Idle
    BY <2>1, BoundsAssumption DEF Idle, BoundsAssumption
  <2>2. CASE work[x] # Idle
    <3>1. work[x] \in ActiveWork
      BY <2>2 DEF StreamInv, Typed
    <3>2. work[x].pc \in Active /\ work[x].attempt \in 0..MaxAttempts
      BY <3>1, BoundsAssumption DEF ActiveWork, BoundsAssumption
    <3>3. work[x].pc # "idle"
      BY <3>2 DEF Active
    <3>4. Fits(x)
      BY DEF StreamInv, WorkOK
    <3> QED
      BY <3>2, <3>3, <3>4, HasMessage DEF Active, Fits
  <2> QED
    BY <2>1, <2>2
<1> QED
  BY <1>1, <1>2 DEF StreamInv, Typed, TypeOK

\* When everything sent on a key is settled, its newest price is the one shown.
LEMMA QuietShowsNewest ==
  ASSUME StreamInv
  PROVE  LatestIsNewest
<1> SUFFICES ASSUME NEW k \in Keys \ straggler, next[k] > sent[k],
                    NEW written, written = {i \in 1..sent[k] : <<k, i>> \notin Poison /\ <<k, i>> \notin deadLetters},
                    written # {}
             PROVE  latest[k] >= Max(written)
  BY DEF LatestIsNewest
<1>1. sent[k] \in Nat /\ next[k] \in Nat /\ latest[k] \in Nat
  BY DEF StreamInv, Typed
<1>2. Max(written) \in written
  BY <1>1, MaxOf
<1>3. Max(written) \in 1..(next[k] - 1) /\ <<k, Max(written)>> \notin deadLetters
  BY <1>1, <1>2
<1> QED
  BY <1>3 DEF StreamInv, KeyOK

\* An impact set has no more copies than there were faults, and one.
LEMMA CopiesCounted ==
  ASSUME StreamInv, CopiesInv
  PROVE  CopiesNeedFaults
<1> SUFFICES ASSUME NEW id \in ImpactIds PROVE impacts[id] <= 1 + faults
  BY DEF CopiesNeedFaults
<1>1. IsFiniteSet(Buffering(id)) /\ IsFiniteSet(MayPublish(id))
  BY FS_Subset, KeysAssumption DEF Buffering, MayPublish, KeysAssumption
<1>2. /\ Cardinality(Buffering(id)) \in Nat /\ Cardinality(MayPublish(id)) \in Nat
      /\ impacts[id] \in Nat /\ faults \in Nat
  BY <1>1, FS_CardinalityType DEF StreamInv, Typed
<1>3. impacts[id] + Cardinality(Buffering(id)) + Cardinality(MayPublish(id)) <= faults + 1
  BY DEF CopiesInv, CopiesOK, Copies
<1> QED
  BY <1>2, <1>3

-----------------------------------------------------------------------------
(* Theorems.                                                               *)

\* The invariant of the broker, the workers and the keys, with the account
\* of the copies, holds in every state.
THEOREM StreamInductive == Spec => [](StreamInv /\ CopiesInv)
<1>1. Init => StreamInv /\ CopiesInv
  BY StreamInit, CopiesInit, BoundsAssumption
<1>2. StreamInv /\ CopiesInv /\ [Next]_vars => (StreamInv /\ CopiesInv)'
  BY StreamStep, CopiesNext
<1> QED
  BY <1>1, <1>2, PTL DEF Spec

\* What the broker no longer holds was handled to its end or dead-lettered,
\* whatever crashed (event_agent.py acknowledges last).
THEOREM AckedLast == Spec => []AckedIsSettled
<1>1. StreamInv => AckedIsSettled
  BY DEF StreamInv
<1> QED
  BY <1>1, StreamInductive, PTL

\* A shock is on market.impact before it is marked, and there once unless a
\* fault bought it another copy (event_agent.py marks last).
THEOREM PublishedOnceProved == Spec => []PublishedOnce
<1>1. StreamInv /\ CopiesInv => PublishedOnce
  BY StreamTypeOK, CopiesCounted DEF StreamInv, PublishedOnce
<1> QED
  BY <1>1, StreamInductive, PTL

\* A quiet key shows its newest message, unless a straggler wrote last
\* (upsert_latest_price is unconditional).
THEOREM NewestShown == Spec => []LatestIsNewest
<1>1. StreamInv => LatestIsNewest
  BY QuietShowsNewest
<1> QED
  BY <1>1, StreamInductive, PTL
=============================================================================
