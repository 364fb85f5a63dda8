------------------------------ MODULE Streaming ------------------------------
(***************************************************************************)
(* From market data to impact sets: the feed pollers and the simulator     *)
(* publish ticks and downgrades; the Event Agent (streaming/               *)
(* event_agent.py) handles them, as a Kafka loop or behind the Pub/Sub     *)
(* push endpoint and pull worker, and publishes impact sets.               *)
(*                                                                         *)
(* A key is a ticker of market.prices or a counterparty of market.events.  *)
(* Its messages are numbered in publish order and handled in that order:   *)
(* both buses keep the order of a key.  A message is delivered again after *)
(* a crash, after an exception, and when the broker stops waiting for the  *)
(* worker that has it.  Each commit of a handler is a step of its own.     *)
(***************************************************************************)
EXTENDS Integers, Sequences, FiniteSets, FiniteSetsExt

CONSTANTS
  Workers,
  Tickers, Rated,  \* the keys of market.prices and of market.events
  Crypto,          \* the tickers CoinGecko prices
  Scenario,        \* the tickers a scripted scenario shocks
  Quotes,          \* Quotes[k][i]: [day, price] of tick i of ticker k
  Downgrades,      \* Downgrades[c]: how many downgrades of c there will be
  Official,        \* Official[k][d]: the close of day d
  Poison,          \* messages no attempt can handle, <<key, number>>
  Buses,           \* subset of {"pubsub", "kafka"}
  LastDay,         \* bound on the days that pass
  MaxAttempts,     \* EVENT_AGENT_MAX_ATTEMPTS
  COINGECKO_MAX_RETRIES,
  MaxFaults        \* bound on failures, crashes and expired deliveries

Keys == Tickers \cup Rated
EOD_WINDOW_DAYS == 7

ASSUME KeysAssumption ==
  /\ Tickers \cap Rated = {} /\ IsFiniteSet(Keys) /\ IsFiniteSet(Workers)
  /\ Crypto \subseteq Tickers /\ Scenario \subseteq Tickers
ASSUME FeedAssumption ==
  /\ \A k \in Tickers : Quotes[k] \in Seq([day: Nat, price: Nat])
  /\ Downgrades \in [Rated -> Nat]
ASSUME BoundsAssumption ==
  /\ MaxAttempts \in Nat \ {0} /\ LastDay \in Nat /\ COINGECKO_MAX_RETRIES \in Nat
  /\ MaxFaults \in Nat
  /\ Buses \subseteq {"pubsub", "kafka"}

VARIABLES
  bus,          \* settings.event_bus
  today,
  sent,         \* per key: messages published so far
  next,         \* per key: the oldest message not acknowledged
  work,         \* per worker: the message it has and where it is
  processed,    \* rows of processed_events
  latest,       \* per key: the message behind latest_prices or the rating
  closes,       \* rows of price_history, <<ticker, day>>
  impacts,      \* per impact id: messages on market.impact
  handed,       \* history: impact ids given to publish()
  buffered,     \* per worker: Kafka messages flush() left in the producer
  deadLetters,  \* messages on market.dead-letter
  straggler,    \* history: keys written for a message already acknowledged
  faults        \* history: failures, crashes and expired deliveries

vars == <<bus, today, sent, next, work, processed, latest, closes, impacts, handed,
          buffered, deadLetters, straggler, faults>>

TickId(k, i) == <<"message", k, i>>
Kinds == {"PRICE_SHOCK", "VOL_SPIKE"}

\* One shock per ticker, day and severity; an event keeps its own id.
ImpactId(k, i, kind) ==
  IF k \in Rated THEN TickId(k, i) ELSE <<kind, k, Quotes[k][i].day>>

Messages(k) == IF k \in Rated THEN 1..Downgrades[k] ELSE 1..Len(Quotes[k])

ImpactIds == UNION {{ImpactId(k, i, kind) : i \in Messages(k), kind \in Kinds} : k \in Keys}

Abs(n) == IF n < 0 THEN -n ELSE n

\* The most recent close loaded of a day before d; 0 when there is none.
latest_close_before(k, d) ==
  LET days == {e \in 0..(d - 1) : <<k, e>> \in closes}
  IN IF days = {} THEN 0 ELSE Official[k][Max(days)]

classify_price_move(price, prior) ==
  IF prior <= 0 THEN "none"
  ELSE IF 100 * Abs(price - prior) >= 15 * prior THEN "VOL_SPIKE"
  ELSE IF 100 * Abs(price - prior) >= 7 * prior THEN "PRICE_SHOCK"
  ELSE "none"

Fault == faults < MaxFaults /\ faults' = faults + 1

Idle == [pc |-> "idle", key |-> "none", n |-> 0, attempt |-> 0, kind |-> "none"]

Init ==
  /\ bus \in Buses
  /\ today = 0
  /\ sent = [k \in Keys |-> 0]
  /\ next = [k \in Keys |-> 1]
  /\ work = [x \in Workers |-> Idle]
  /\ processed = {}
  /\ latest = [k \in Keys |-> 0]
  /\ closes = {}
  /\ impacts = [id \in ImpactIds |-> 0]
  /\ handed = {}
  /\ buffered = [x \in Workers |-> {}]
  /\ deadLetters = {}
  /\ straggler = {}
  /\ faults = 0

(***************************************************************************)
(* Where messages come from.                                               *)
(***************************************************************************)
\* Responses of CoinGecko: how many 429s come before another answer.  The
\* client asks once and then COINGECKO_MAX_RETRIES times more.
GetWithRetry(throttled) == throttled <= COINGECKO_MAX_RETRIES

\* Both feeds price every ticker they are asked for or raise.
YFinancePrices(asked, quoted) == asked \subseteq quoted

CoinGeckoPrices(asked, quoted, throttled) ==
  asked = {} \/ (GetWithRetry(throttled) /\ asked \subseteq quoted)

\* One feed down leaves the other's tickers without a price too.
CompositePrices(asked, quoted, throttled) ==
  /\ YFinancePrices(asked \ Crypto, quoted)
  /\ CoinGeckoPrices(asked \cap Crypto, quoted, throttled)

PublishTicks(published) ==
  /\ published # {}
  /\ \A k \in published :
       sent[k] < Len(Quotes[k]) /\ Quotes[k][sent[k] + 1].day = today
  /\ sent' = [k \in Keys |-> IF k \in published THEN sent[k] + 1 ELSE sent[k]]
  /\ UNCHANGED <<bus, today, next, work, processed, latest, closes, impacts, handed,
                 buffered, deadLetters, straggler, faults>>

\* One iteration of the live poller: a tick of every ticker, or none; when
\* flush() raises, some of them are on the topic all the same.
Poll ==
  \E quoted, lost \in SUBSET Tickers, throttled \in 0..(COINGECKO_MAX_RETRIES + 1) :
    /\ CompositePrices(Tickers, quoted, throttled)
    /\ PublishTicks(Tickers \ lost)

\* make simulate: only the scenario's tickers.
run_scenario ==
  \E quoted \in SUBSET Tickers :
    /\ CompositePrices(Scenario, quoted, 0)
    /\ PublishTicks(Scenario)

PublishDowngrade(c) ==
  /\ sent[c] < Downgrades[c]
  /\ sent' = [sent EXCEPT ![c] = @ + 1]
  /\ UNCHANGED <<bus, today, next, work, processed, latest, closes, impacts, handed,
                 buffered, deadLetters, straggler, faults>>

\* Each ticker's history is fetched by itself, so a gap holds back only that
\* ticker: from yfinance (no rows: none) or from CoinGecko.
get_price_history(k, quoted, throttled) ==
  k \in quoted /\ (k \in Crypto => GetWithRetry(throttled))

\* The week's closes of the tickers that could be fetched, in one commit.
load_daily_closes ==
  \E quoted \in SUBSET Tickers, throttled \in {0, COINGECKO_MAX_RETRIES + 1} :
    LET loaded == {k \in Tickers : get_price_history(k, quoted, throttled)}
    IN /\ closes' = closes \cup (loaded \X (Max({0, today - EOD_WINDOW_DAYS + 1})..today))
       /\ closes' # closes
       /\ UNCHANGED <<bus, today, sent, next, work, processed, latest, impacts, handed,
                      buffered, deadLetters, straggler, faults>>

NextDay ==
  /\ today < LastDay
  /\ today' = today + 1
  /\ UNCHANGED <<bus, sent, next, work, processed, latest, closes, impacts, handed,
                 buffered, deadLetters, straggler, faults>>

(***************************************************************************)
(* Delivery.  next[k] is Kafka's committed offset, or Pub/Sub's first      *)
(* outstanding message of the ordering key.                                *)
(***************************************************************************)
Busy(k) == {x \in Workers : work[x].key = k}

StartOf(k, i) == [pc |-> "upsert", key |-> k, n |-> i, attempt |-> 1, kind |-> "none"]

Deliver(x, k) ==
  /\ work[x].pc = "idle"
  /\ Busy(k) = {}
  /\ next[k] <= sent[k]
  /\ work' = [work EXCEPT ![x] = StartOf(k, next[k])]
  /\ UNCHANGED <<bus, today, sent, next, processed, latest, closes, impacts, handed,
                 buffered, deadLetters, straggler, faults>>

\* The broker stops waiting (ack deadline, session timeout) for a worker that
\* is still running, and hands its key to another.
DeliverAgain(x, k) ==
  /\ work[x].pc = "idle"
  /\ Busy(k) # {}
  /\ next[k] <= sent[k]
  /\ work' = [work EXCEPT ![x] = StartOf(k, next[k])]
  /\ Fault
  /\ UNCHANGED <<bus, today, sent, next, processed, latest, closes, impacts, handed,
                 buffered, deadLetters, straggler>>

(***************************************************************************)
(* The handler, commit by commit.                                          *)
(***************************************************************************)
Goto(x, pc) == work' = [work EXCEPT ![x].pc = pc]

\* Mutant: only a tick that moved the price is written to latest_prices.
Upsert_OnMoves(x) ==
  LET k == work[x].key
      q == Quotes[k][work[x].n]
      moved == k \in Rated \/ classify_price_move(q.price, latest_close_before(k, q.day)) # "none"
  IN
  /\ work[x].pc = "upsert"
  /\ <<k, work[x].n>> \notin Poison
  /\ latest' = [latest EXCEPT ![k] = IF moved THEN work[x].n ELSE @]
  /\ straggler' = straggler
  /\ Goto(x, "check")
  /\ UNCHANGED <<bus, today, sent, next, processed, closes, impacts, handed,
                 buffered, deadLetters, faults>>

\* upsert_latest_price, upsert_rating_downgrade: unconditional.
Upsert(x) ==
  LET k == work[x].key IN
  /\ work[x].pc = "upsert"
  /\ <<k, work[x].n>> \notin Poison
  /\ latest' = [latest EXCEPT ![k] = work[x].n]
  /\ straggler' = IF work[x].n < next[k] THEN straggler \cup {k} ELSE straggler
  /\ Goto(x, "check")
  /\ UNCHANGED <<bus, today, sent, next, processed, closes, impacts, handed,
                 buffered, deadLetters, faults>>

\* is_already_processed, then the prior close and the classification.
Check(x) ==
  LET k == work[x].key
      i == work[x].n
      q == Quotes[k][i]
      kind == classify_price_move(q.price, latest_close_before(k, q.day))
  IN
  /\ work[x].pc = "check"
  /\ work' = [work EXCEPT ![x] =
       IF TickId(k, i) \in processed THEN [@ EXCEPT !.pc = "ack"]
       ELSE IF k \in Rated THEN [@ EXCEPT !.pc = "publish"]
       ELSE IF kind = "none" THEN [@ EXCEPT !.pc = "mark"]
       ELSE [@ EXCEPT !.pc = "gate", !.kind = kind]]
  /\ UNCHANGED <<bus, today, sent, next, processed, latest, closes, impacts, handed,
                 buffered, deadLetters, straggler, faults>>

ImpactOf(x) == ImpactId(work[x].key, work[x].n, work[x].kind)

\* Mutant: the shock is marked before it is published.
ShockGate_MarksFirst(x) ==
  /\ work[x].pc = "gate"
  /\ Goto(x, IF ImpactOf(x) \in processed THEN "mark" ELSE "publish")
  /\ processed' = processed \cup {ImpactOf(x)}
  /\ UNCHANGED <<bus, today, sent, next, latest, closes, impacts, handed,
                 buffered, deadLetters, straggler, faults>>

\* The same shock, from an earlier tick of the day, is not raised again.
ShockGate(x) ==
  /\ work[x].pc = "gate"
  /\ Goto(x, IF ImpactOf(x) \in processed THEN "mark" ELSE "publish")
  /\ UNCHANGED <<bus, today, sent, next, processed, latest, closes, impacts, handed,
                 buffered, deadLetters, straggler, faults>>

AfterPublish(x) == IF work[x].key \in Rated THEN "mark" ELSE "markShock"

\* publish and flush: the broker has the message when flush returns...
Publish(x) ==
  /\ work[x].pc = "publish"
  /\ impacts' = [impacts EXCEPT ![ImpactOf(x)] = @ + 1]
  /\ handed' = handed \cup {ImpactOf(x)}
  /\ Goto(x, AfterPublish(x))
  /\ UNCHANGED <<bus, today, sent, next, processed, latest, closes,
                 buffered, deadLetters, straggler, faults>>

\* ...except that Kafka's flush() also returns, without raising, after ten
\* seconds with the message still in the producer's queue.
PublishBuffered(x) ==
  /\ work[x].pc = "publish"
  /\ bus = "kafka"
  /\ Fault
  /\ buffered' = [buffered EXCEPT ![x] = @ \cup {ImpactOf(x)}]
  /\ handed' = handed \cup {ImpactOf(x)}
  /\ Goto(x, AfterPublish(x))
  /\ UNCHANGED <<bus, today, sent, next, processed, latest, closes, impacts,
                 deadLetters, straggler>>

DeliverBuffered(x, id) ==
  /\ id \in buffered[x]
  /\ buffered' = [buffered EXCEPT ![x] = @ \ {id}]
  /\ impacts' = [impacts EXCEPT ![id] = @ + 1]
  /\ UNCHANGED <<bus, today, sent, next, work, processed, latest, closes, handed,
                 deadLetters, straggler, faults>>

MarkShock(x) ==
  /\ work[x].pc = "markShock"
  /\ processed' = processed \cup {ImpactOf(x)}
  /\ Goto(x, "mark")
  /\ UNCHANGED <<bus, today, sent, next, latest, closes, impacts, handed,
                 buffered, deadLetters, straggler, faults>>

MarkMessage(x) ==
  /\ work[x].pc = "mark"
  /\ processed' = processed \cup {TickId(work[x].key, work[x].n)}
  /\ Goto(x, "ack")
  /\ UNCHANGED <<bus, today, sent, next, latest, closes, impacts, handed,
                 buffered, deadLetters, straggler, faults>>

(***************************************************************************)
(* Retries, the dead letter, the acknowledgement.                          *)
(***************************************************************************)

\* Mutant: a message out of attempts is logged and acknowledged.
AfterException_Drops(x) ==
  IF work[x].attempt < MaxAttempts
  THEN [work[x] EXCEPT !.pc = "upsert", !.attempt = @ + 1, !.kind = "none"]
  ELSE [work[x] EXCEPT !.pc = "ack", !.kind = "none"]

\* Mutant: the last exception leaves the loop, as it did before MM-93.
AfterException_Raises(x) ==
  IF work[x].attempt < MaxAttempts
  THEN [work[x] EXCEPT !.pc = "upsert", !.attempt = @ + 1, !.kind = "none"]
  ELSE Idle

\* Where an exception leaves a worker: one more attempt from the top, or the
\* dead letter once the attempts are spent.
AfterException(x) ==
  IF work[x].attempt < MaxAttempts
  THEN [work[x] EXCEPT !.pc = "upsert", !.attempt = @ + 1, !.kind = "none"]
  ELSE [work[x] EXCEPT !.pc = "deadLetter", !.kind = "none"]

Retry(x) == work' = [work EXCEPT ![x] = AfterException(x)]

\* A message that cannot be decoded fails every attempt the same way.
FailDecode(x) ==
  /\ work[x].pc = "upsert"
  /\ <<work[x].key, work[x].n>> \in Poison
  /\ Retry(x)
  /\ UNCHANGED <<bus, today, sent, next, processed, latest, closes, impacts, handed,
                 buffered, deadLetters, straggler, faults>>

\* A database statement raises; what was committed stays.
FailStep(x) ==
  /\ work[x].pc \in {"upsert", "check", "gate", "markShock", "mark"}
  /\ Fault
  /\ Retry(x)
  /\ UNCHANGED <<bus, today, sent, next, processed, latest, closes, impacts, handed,
                 buffered, deadLetters, straggler>>

\* flush() raises, whether or not the message got through (a timed-out
\* Pub/Sub future may still succeed).
FailPublish(x, through) ==
  /\ work[x].pc = "publish"
  /\ Fault
  /\ impacts' = [impacts EXCEPT ![ImpactOf(x)] = IF through THEN @ + 1 ELSE @]
  /\ handed' = handed \cup {ImpactOf(x)}
  /\ Retry(x)
  /\ UNCHANGED <<bus, today, sent, next, processed, latest, closes,
                 buffered, deadLetters, straggler>>

PublishDeadLetter(x) ==
  /\ work[x].pc = "deadLetter"
  /\ deadLetters' = deadLetters \cup {<<work[x].key, work[x].n>>}
  /\ Goto(x, "ack")
  /\ UNCHANGED <<bus, today, sent, next, processed, latest, closes, impacts, handed,
                 buffered, straggler, faults>>

\* The dead letter cannot be published: the exception leaves the handler and
\* the message is not acknowledged.
FailDeadLetter(x) ==
  /\ work[x].pc = "deadLetter"
  /\ Fault
  /\ work' = [work EXCEPT ![x] = Idle]
  /\ UNCHANGED <<bus, today, sent, next, processed, latest, closes, impacts, handed,
                 buffered, deadLetters, straggler>>

\* commit(msg), acknowledge or 204: only after the handler returned.
Acknowledge(x) ==
  LET k == work[x].key IN
  /\ work[x].pc = "ack"
  /\ next' = [next EXCEPT ![k] = IF @ = work[x].n THEN @ + 1 ELSE @]
  /\ work' = [work EXCEPT ![x] = Idle]
  /\ UNCHANGED <<bus, today, sent, processed, latest, closes, impacts, handed,
                 buffered, deadLetters, straggler, faults>>

\* The process goes, and with it the Kafka messages still in its producer.
Crash(x) ==
  /\ work[x].pc # "idle" \/ buffered[x] # {}
  /\ Fault
  /\ work' = [work EXCEPT ![x] = Idle]
  /\ buffered' = [buffered EXCEPT ![x] = {}]
  /\ UNCHANGED <<bus, today, sent, next, processed, latest, closes, impacts, handed,
                 deadLetters, straggler>>

Step(x) ==
  \/ Upsert(x) \/ Check(x) \/ ShockGate(x) \/ Publish(x) \/ MarkShock(x)
  \/ MarkMessage(x) \/ FailDecode(x) \/ PublishDeadLetter(x) \/ Acknowledge(x)

Next ==
  \/ Poll
  \/ run_scenario
  \/ \E c \in Rated : PublishDowngrade(c)
  \/ load_daily_closes
  \/ NextDay
  \/ \E x \in Workers :
       \/ Step(x)
       \/ PublishBuffered(x)
       \/ FailStep(x)
       \/ FailDeadLetter(x)
       \/ Crash(x)
       \/ \E k \in Keys : Deliver(x, k) \/ DeliverAgain(x, k)
       \/ \E through \in BOOLEAN : FailPublish(x, through)
       \/ \E id \in buffered[x] : DeliverBuffered(x, id)

\* A running worker goes on and the broker delivers what waits; the feeds,
\* the calendar and the faults owe nothing.
Fairness ==
  /\ \A x \in Workers : WF_vars(Step(x))
  /\ \A k \in Keys : WF_vars(\E x \in Workers : Deliver(x, k))

Spec == Init /\ [][Next]_vars /\ Fairness

(***************************************************************************)
(* Properties.                                                             *)
(***************************************************************************)
TypeOK ==
  /\ bus \in Buses /\ today \in 0..LastDay
  /\ sent \in [Keys -> Nat] /\ next \in [Keys -> Nat \ {0}]
  /\ \A x \in Workers :
       /\ work[x].pc \in {"idle", "upsert", "check", "gate", "publish", "markShock",
                          "mark", "ack", "deadLetter"}
       /\ work[x].attempt \in 0..MaxAttempts
       /\ work[x].pc # "idle" => work[x].n \in 1..sent[work[x].key]
       /\ work[x].kind # "none" => work[x].pc \in {"gate", "publish", "markShock", "mark", "ack"}
  /\ impacts \in [ImpactIds -> Nat]
  /\ handed \subseteq ImpactIds
  /\ \A k \in Keys : next[k] <= sent[k] + 1 /\ latest[k] <= sent[k]

\* A message the broker no longer holds was handled to its end or is on the
\* dead-letter topic: neither three bad attempts nor a crash loses one.
AckedIsSettled ==
  \A k \in Keys : \A i \in 1..(next[k] - 1) :
    TickId(k, i) \in processed \/ <<k, i>> \in deadLetters

\* A shock marked processed, which later ticks then keep quiet about, was
\* given to the bus first; over Pub/Sub it is on market.impact.
MarkedIsPublished ==
  \A id \in processed \cap ImpactIds :
    /\ id \in handed
    /\ bus = "pubsub" => impacts[id] > 0

\* One shock per ticker, day and severity: each further copy of an impact
\* set is the price of a fault, never of a later tick of the same day.
CopiesNeedFaults ==
  \A id \in ImpactIds : impacts[id] <= 1 + faults

\* Once a key is quiet its latest price (its rating) is that of the newest
\* message that could be read, unless a worker the broker had given up on
\* wrote last.
LatestIsNewest ==
  \A k \in Keys \ straggler :
    Busy(k) = {} /\ next[k] > sent[k] =>
      LET written == {i \in 1..sent[k] : <<k, i>> \notin Poison /\ <<k, i>> \notin deadLetters}
      IN written # {} => latest[k] >= Max(written)

\* No message wedges its key: every one published is handled or dead-lettered
\* and the next one gets its turn.
NoKeyIsWedged ==
  \A k \in Keys : \A i \in Messages(k) : sent[k] >= i ~> next[k] > i

\* A shock is on market.impact before anything is told so, and once unless a
\* fault bought it another copy.
PublishedOnce == TypeOK /\ MarkedIsPublished /\ CopiesNeedFaults
=============================================================================
