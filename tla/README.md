# MarginMaestro in TLA+

Models, model checks and machine-checked proofs about MarginMaestro, the margin-call
service of this repository: a market move or the daily run makes a counterparty's exposure
exceed its CSA threshold, a LangGraph run raises a call, one person (two for elite clients)
signs it, the client is notified, and an SLA clock decides between "met" and an incident.

Source paths below are relative to `src/src/` unless they start with `src/infra`,
`src/firebase`, `src/frontend` or `src/tests`.

## 1. Inventory

| Component | State it keeps | Operations | What makes it correct |
|---|---|---|---|
| Orchestrator (`agents/orchestrator.py`) | the channels of `MarginCallState` | nine nodes, three of them gates that `interrupt()`; `start_run`, `resume_run`, `reevaluate_run` | nothing reaches a client unsigned; one notice, one resolution; a signed figure is fixed; every open call waits at a gate someone can answer |
| Checkpointer (`persistence/db/checkpoint_saver.py`) | the head checkpoint per thread, recorded interrupts and resume values | `get_tuple`, `put`, `put_writes` | the head is what the last superstep left |
| Endpoints (`api/main.py`) | none of their own | approve, manager-approve, respond, check-sla, the internal SLA target, Pub/Sub push, daily run, simulate | a request acts only on the gate it is for |
| Policy (`agents/margin_policy.py`) | the row `cp-lease:<cp>` | `dispatch_trigger`: take the lease, find the open call, start, re-evaluate or leave alone | one open call per counterparty |
| Impact consumer (`streaming/impact_consumer.py`, `persistence/claims.py`) | the rows `run:<event>:<cp>` | `handle_impact` | each (trigger, counterparty) once, none dropped |
| Simulate panel (`api/simulate.py`) | none | dispatch without a claim | as above, by the lease alone |
| Feeds, simulator, Event Agent, buses (`streaming/`, `adapters/pubsub_*`, `persistence/daily_close.py`) | latest prices, closes, marks in `processed_events`, messages in flight | tick or event to impact set, three attempts, dead letter | no shock lost, none raised twice, the newest price stays |
| Internal posts (`agents/internal_notifications.py`) | a claim row per key | `post_once` | approvers are told of every pending figure, once |
| SLA scheduler (`adapters/cloud_tasks_sla.py`) | a named Cloud Task per thread | schedule, retry until answered | a paused call is eventually looked at |
| WhatsApp webhook, contacts (`api/whatsapp_webhook.py`, `persistence/contacts.py`) | a claim per item, contact versions | statuses, acknowledgements, contact edits | an acknowledgement by the notified contact counts, nobody else's does |
| Models, retrieval, guardrails, notice (`agents/csa_rag.py`, `agents/communication.py`, `agents/notice_pdf.py`, `adapters/guarded_llm.py`, `rag/`) | chunks on file, cached pseudonyms | ingest, retrieve, screen, draft, fill | nothing unscreened is told, nothing unfinished is sent, its figures add up |
| Calculations (`calc/`, `warehouse/vector_calc.py`, `api/exposure.py`) | the board's cached CSA terms | breach, thresholds, materiality, optimizer, trade diff | four readings of one exposure agree; the tools find the best answer |
| Feed, trace, real-time status (`api/margin_calls.py`, `api/margin_call_trace.py`, `realtime/`) | per process, what was last published; the Firestore document | list, buckets, history, totals, trace, `publish` | they tell all and only what the runs say and the reader may see |
| Row-level security (`persistence/db/rls.py`, `src/firebase/firestore.rules`) | access rows | `scope_for`, read in five places | the five agree |
| Reports (`warehouse/reports.py`) | a cache per process | five reports | never another's scope, never older than the cache time |
| Warehouse (`warehouse/`) | partitions of facts and dimensions, chunk files, the closes cache | live load, backfill, refresh, simulated walk | a day is there once, from one job; the simulated book can be redrawn |
| Desk jobs, rate limiter (`api/desk.py`, `api/rate_limit.py`) | a job row; hits per user | create, dispatch, run, poll; `check` | each turn is answered, an answer that was read stays, the limit holds |
| Governance, desk assistant's agent, operations, pages | | | not modelled; reasons in section 7 |

**How they interact.** Feeds and the simulator publish ticks and downgrades; the Event Agent
stores prices and publishes impact sets. Pub/Sub pushes an impact set (Cloud Scheduler posts
the daily run, an approver clicks simulate). The consumer claims each counterparty and hands
it to the policy, which, under the counterparty's lease, reads the threads' checkpoints and
starts a graph run or restarts an open call's. The run asks the models for CSA terms and
drafts, and pauses at gates. People, the client (respond, or a tap on WhatsApp) and Cloud Tasks resume it
through endpoints that look at the pending gate and invoke the graph. After each invocation
the status is published; feed, trace and reports are computed from checkpoints and warehouse tables. Shared are
checkpoints, rows of `processed_events` and tables. Nothing else is locked: the lease
serialises triggers against triggers only, not against people, clients or timers.

**What is hard.** Up to four Cloud Run instances (`src/infra/gcp/cloud_run.tf`), each with a
thread pool, interleave between every check and the act it allows, between a node's effect
and its checkpoint, and between two database transactions. Nodes raise (LLM, Slack,
ServiceNow, prices). Instances are lost. Pub/Sub, Cloud Tasks and Meta redeliver. The SLA
timer races the answer. A re-evaluation re-enters a graph that already has a past. Warehouse jobs overlap
on partitions that are deleted, then appended. Per-process caches outlive what they hold.
The hazards, each at its line, are in `PROJECT.json`.

## 2. Modules

| Module | Models |
|---|---|
| `Orchestrator` | one run (thread): graph, checkpoints, invocations, and the requests that drive it |
| `MarginCall` | the abstract specification: what one call promises to those who see it |
| `OrchestratorCall` | the refinement mapping from the one to the other |
| `MarginPolicy` | triggers to calls: delivery, claims, lease, dispatch, the stage each thread shows |
| `Webhook` | the sends of one call's notice, its contact, and what Meta reports about them |
| `Streaming` | ticks and downgrades to impact sets: feeds, buses, the Event Agent's commits, closes |
| `Warehouse` | live load, backfill and refresh over partitions that are dropped and appended |
| `Simulation`, `History` | the simulated book: its walk and chunk files; the closes behind it and their cache |
| `Calendar` | a set of days in ascending order, as both of them read the pricing table |
| `Calc` | the calculation engine and its vectorised twin, as operators |
| `Exposure` (extends `Calc`) | the rows an exposure is computed from, and its readers: run, event, board |
| `Breakdown` (extends `Exposure`) | one run and the arithmetic its PDF notice sets out |
| `Tools` | collateral optimizer and trade diff |
| `Desk` | a chat turn: limiter, job row, dispatch, worker, polls |
| `Status` | one call's checkpoints, its trace, and the publication of its status |
| `Access` | a user's scope and its readers |
| `Feed`, `Reports` (extend `Access`) | the margin-call feed; the reports and their cache |
| `Notices` | what a model is told and a client is sent, while the CSA is re-ingested |
| `MC_*` | instances for TLC; `MC_Console` (status, feed, reports, notices), `MC_Exposure` (rows, notice, tools), `MC_MarginPolicy`, `MC_Webhook` and `MC_Simulation` explore several parts, chosen by a variable `part`, one at a time |
| `OrchestratorCall_proofs`, `MarginPolicy_proofs`, `Webhook_proofs`, `Streaming_proofs`, `Desk_proofs`, `Console_proofs`, `Warehouse_proofs`, `Figures_proofs` | theorems (section 5) |

### Orchestrator, MarginCall, OrchestratorCall

A *request* is a record (operation, person, decision, figure). `inv[r]` is what became of it:

    idle -> checked -> running <-> saving -> done       (refused, failed)
    reevaluate: idle -> checked -> stamped -> running ...

`checked` is the point after the endpoint read the pending gate (`RequirePendingNode`,
`InternalSlaCheck`) or the policy read the open call's stage (`PolicyCheck`) and before it
acts on that. `Invoke` loads the head as it is by then. `running` stands before a node with a
private copy of the channels; each node action is the node's whole handler, its posts and
other effects included, and ends in `Return` (a new private copy, checkpoint not saved yet) or
`Pause`. `Save` writes the checkpoint, which becomes the head even if another request wrote
one meanwhile: LangGraph does not compare. A pause is recorded on the checkpoint the
invocation began its superstep from. `Fault` is an exception, or the instance lost, anywhere in between;
the timer and a delivery status are then tried again, and so is a start whose breach check was not saved yet (`MayStart`),
on the thread the first attempt left behind: its input is saved over whatever that one had reached.

The channels kept are the ones control flow reads; figures are members of a small set plus
"no call" and "not evaluated". The breach check is a nondeterministic choice of a figure,
with the materiality gate free to hold back a call never raised before. A re-evaluation
keeps the decision channels, as `reevaluate_run` does. `await_sla_response` loops on
`interrupt()`: LangGraph replays the node on resume, so an early check (`polled`) is read
again before the newer answer, against the clock as it then is (`SlaResolves`,
`SlaOutcome`). `notices`, `incidents` and `signed` are histories of what the world saw and of who signed what.

`MarginCall` knows no graph, checkpoint or request: a figure may be revised until someone
signs it and not after; an elite client's needs a second person; the client is told the signed figure,
once; the call is then met, or breached and escalated, once. `OrchestratorCall` maps the head checkpoint to it, except that the
client is told when the notice goes out and the call is escalated when the incident is opened, whether or not the
node's checkpoint follows. `ImplementsMarginCall` is checked for requests that do not overlap; it is false otherwise (below).

### MarginPolicy

A *worker* is one request in one instance, with the program point between database
transactions as `pc`: claim, lease, (takeover), find, start or update, evaluate, (audit), release,
unclaim. An exception may come between any two of them: outside the consumer's `try`, which ends the request (`FailRequest`);
out of the dispatch, before its decision is carried out (`FailDispatch`); or after that, out of the audit record of a
re-evaluation or the lease's DELETE (`FailLate`), when the consumer gives the claim back for what was done. `stranded` is a history
of what such exceptions left behind: a claim, a lease row, a decision on a thread that is started again. A thread is reduced to what `find_open_call` and the dispatch read of it. `messages` is the
subscription's view of each impact set. `Crash` loses a worker and leaves its rows. `Expire`
is the lease's fifteen-minute TTL, which outlasts a dispatch, so that only a lost worker's row
expires. People sign or reject (`Approve`) and calls end (`Resolve`) at any time if
`HumansOverlap`, else only while no dispatch is under way.

### Webhook

A *send* goes `idle -> addressed -> sent -> audited -> saved -> over`: contact read, Meta asked,
audit row, checkpoint, SLA gate recorded. Each is a transaction or an external call of its own, and
Meta may report from `sent` on. `head` is what the run's checkpoint shows. A *worker* handles one payload, item by item:
claim, look (`_values`), judge (the reasons of `_handle_status` and `_handle_ack`, with the contact as it is by then), resume, audit.
`Resume` loads the head again. `meta` is Meta's view: a payload is posted until a 200 arrives
on a connection it still listens to (`late`). An edit of the contact is a read
and a commit; whatever the clock then reads (`Times`), the version must be new.

### Streaming

A key is a ticker or a rated counterparty; its messages are numbered and handled in order, as
both buses have it. A worker goes through the commits of `handle_tick` and `handle_event`: price, shock test, publication, marks.
A message is delivered again after a crash, an exception, or when the broker stops waiting for the worker that
has it, who then goes on as a straggler. Over Kafka "published" is "handed to the producer". Feeds retry, polls may fail, closes are loaded at the end of a day.

### Warehouse, Simulation, History

A day's slice of a table is the sequence of row sets appended to it: right is one set, of the last job. A *job* (live
load, chunk, dimensions, refresh) is its sequence of deletes and appends with other jobs between any two.
`Simulation` walks the trading days over any exposures: settlement, breach, return, renegotiation, in the
source's order, and cuts chunks from the walk. `History` downloads batches with retries, writes one cache file, aligns
and fills; a close is named by the day it was printed.

### Calc, Exposure, Breakdown, Tools

Money is an integer in units that keep percent weights and the VIX multiplier exact. `Exposure`'s actions are the rows' changes
and those of the market feed's `quotes`: a run is priced from the feed (`get_prices`), which may have no price or be a simulation's shocked one, the board
from the prices stored last (`latest_prices`). What is checked are the four computations over them. `Breakdown` reads rows node by node and keeps what it read. `Tools` has a request as its state and no steps but stuttering.

### Desk, Status, Access, Feed, Reports, Notices

`Desk`: request threads read the clock, then take the lock; a turn becomes a row, a task or an inline run; deliveries may overlap.
`Status`: an invocation appends its checkpoints, then its publication goes read, check, set, remember, with a memory per instance. A node may raise, which ends the
invocation with the checkpoints it had by then and publishes nothing; a start that failed, or ended without a breach, may be dispatched again on its thread.
`Feed`: a read lists threads in the caller's session and fetches states one by one, firm-wide; the list is the set of its rows, whose order is that of their time of occurrence.
The policy looks at a run (`LookAtRun`) and restarts it later (`RestartRun`), whatever an approver did in between; `crossed` is the history of such a run. One invocation at a time moves a run here;
overlapping ones are `Orchestrator`'s.
`Reports`: a request looks its scope up, then serves the cache or queries, once or twice. `Notices`: a text is the set of things in it that some check looks for;
a chunk is its section and the edition it was cut from. A notice that left ends its SLA clock, or is reported as failed by WhatsApp (`ReportFailed`), which escalates it at once.

## 3. Runs

| Run | Question | Instance | States |
|---|---|---|---|
| `orch_overlap` | do notices stay signed and incidents due, under full overlap? | start, approval, second signature, re-evaluation, timer and response overlapping on an elite WhatsApp call; two figures; one fault, a failed start tried again | 782 k |
| `orch_serial` | one request at a time, is the life cycle the one promised, and does it end? | ten requests that can reach an elite call, any order, one fault, a failed start tried again, fairness | 237 k |
| `policy` | one open call, exclusive leases, each trigger once, none lost? | two workers; part "faults": a trigger of two counterparties against one of the first, redelivered, one exception anywhere, late ones included, one lost worker; part "triggers": daily, intraday and simulated trigger of one counterparty, duplicated | 1.6 M |
| `webhook` | is each item of Meta's dealt with once, no answer lost, only the notified number's tap counted? | part "delivery": four items in two payloads, two workers, a timeout, an exception, a crash; part "contacts": two overlapping sends, taps on either, two edits of the contact | 2.7 M |
| `streaming_faults` | is no shock lost, none doubled for nothing, and no key wedged? | a shock that stays for two ticks, two downgrades of which one cannot be decoded, two workers, both buses, two faults | 427 k |
| `warehouse_jobs` | does a re-run repair whatever was left? | any two jobs over three days, one of them the simulated book's, on an empty warehouse or one doubled throughout; one failing step | 5.3 M |
| `exposure_rows` | do four computations agree, does a notice add up, do the tools find the best answer? | two counterparties, two tickers, one short; a feed that quotes one of them anew or not at all; two CSAs; all requests to the tools | 618 k |
| `simulation_walk` | is the simulated book consistent, complete and repeatable? | six trading days over two quarters; before it three backfills, four symbols, one kill | 1.1 M |
| `desk_turns` | does the limit hold, is each turn answered, does a read answer stay? | two turns, limit of one per window, two workers, two faults, fairness | 1.3 M |
| `console` | do trace, document, feed and reports tell the truth, and only screened text and whole notices leave? | one call and two instances, two evaluations, one fault; two runs and a changing scope; a run looked at, answered and restarted; three requests and a two-second cache; one call from ingestion to incident | 3.5 M |
| `orch_second_signature`, `policy_takeover` | (violations, below) | the smallest instances | |

An invariant that names several facts (`HandledOnce`, `PublishedOnce`, `WalkIsConsistent`, `FeedIsTrue`, `NoticeIsTrue` and
others) is the conjunction of named parts, each stated and commented in its module, the module's type invariant among them where it has no run of its own.

**Bounds.** Two figures tell a repriced call from the signed one. Three people give two
signatories and an outsider. The clock needs one tick before and one after the deadline;
`Tick` can always pass a deadline that is being waited for. One fault hits any point of any request; a
retry after it sees the result. Two workers are enough for every race over one row; two
counterparties, for a failure half way through the list, whose loop is per entry; three
triggers, for two to race after a first call is open. Two or three deliveries give a retry and the
dead letter. Two sends are what two overlapping approvals
give, two edits change a contact and change it back. In `Streaming` two faults are fewer than the attempts or deliveries after which things
are given up, except where `Poison` uses them up. In `Warehouse` an overlap of two jobs is every overlap a partition can tell apart, since its slice only
grows or empties; `Leftover` stands for what earlier ones left. A call window of two days is smaller than the days modelled, so that a call falls out of it. `BetweenSnapshots`
merges steps that read and write nothing another job sees. `MC_Warehouse` leaves out the price, counterparty and
instrument tables, whose steps are those of the tables that stay. In `Tools` values are divisible by the haircut rates and required amounts fall below, on and above what an item covers.
In `Breakdown` all rows are there from the start and one ticker moves. `History` gives one ticker any series over four days, the other two decide which days are trading
days; batches of two, two attempts, fill of one. `Notices` has three editions, the first of which alone yields terms, an SLA and a cache time of two ticks and three ticks of time, so that
each can pass while a draft is made, and not. In `Desk` two turns and a limit of one give a refusal and a wait. In
`Feed` and `Reports` two users, one of them firm-wide, and one counterparty that changes hands. The policy looks at and restarts a run (`Retriggered`) in a part of its own with that one run. In `Status` two evaluations (`MaxEvaluations`) and a fault give a start that fails and is tried again,
one dispatched again after no breach, and a re-evaluation. Deadlock is not checked: requests, messages
and jobs are finite and the systems rest when they are over.

**What passes.**

- Orchestrator, under full overlap and faults: `EveryNoticeSigned`, `NeverEscalatedEarly`. One request at a
  time: `ImplementsMarginCall`, `TwoPeopleSigned`; every pending step is shown by feed and policy alike
  (`PendingStepIsShown`) and announced with its figure (`PendingFigureAnnounced`); without faults no open call is left without
  a gate (`NoOpenCallStranded`); an armed SLA clock resolves (`SlaClockResolves`).
- Policy: `OneCallAtATime` (one open call), with a failed and a lost dispatch of two triggers as with three triggers and no failure, unless an exception left a lease row behind or had a run started again on
  a thread that has a decision by then; `AtMostOnce`, unless an exception followed the dispatch, for which the claim is given back; `LeaseTracksHolder` while no worker is lost and no DELETE of a
  lease fails; `NothingLost` while no worker is lost and no exception leaves a claim behind.
- Webhook: `HandledOnce`, unless an instance is lost or an error meets a timeout; `AnswerCounts` for what is judged once the
  gate is there; `OnlyRecipientAnswers`, with one administrator.
- Streaming: `AckedIsSettled`, `PublishedOnce`, `LatestIsNewest` but for a straggler's key, `NoKeyIsWedged`.
- Warehouse: `ReRunRepairs` for a job nobody overlapped, `VersionInForce` for the day just loaded.
  `WalkIsConsistent`, `ChunksAreComplete`, `BookIsRepeatable`.
- Calculations: `TwinsAgree`, `ImpactIsTheDifference`, `BoardWithinRun` while the feed quotes the stored prices, `NoticeAddsUp`, `CheapestToDeliver`, `BreaksExplainTheGap`.
- Desk: `ReadIsKept` but for overlapping deliveries, `LimiterHolds`, `EveryTurnIsRead`.
- Console: `TraceIsHistory` but for the step a later start's input adds; `DocFollows` for one publishing instance; `FeedIsTrue`, whose stages are compared for runs at rest and, as its
  public counts, not for a run restarted over an approver's answer; `ServedAsDue`; `ToldIsScreened`; `NoticeIsTrue`.

**What does not** (violation runs, each the smallest trace TLC finds):

| Run | What happens |
|---|---|
| `orch_second_signature` | two `/approve` requests, in two instances, both find the first gate pending. The second one's payload is taken by the manager's gate: one role gave both signatures, and no manager is recorded |
| `policy_takeover` | two triggers read the same expired lease and both update it: two open calls |

**Seen while modelling, no run kept.** Each was reproduced with TLC on a variant of the
constants or with a property not kept here, or follows from the lines named.

*Margin call*
- An approval that lands between the policy's look at the call and the restart of its graph: the signed
  figure is evaluated again (`ImplementsMarginCall` with overlapping requests).
- `escalate` raises after the breach was saved. Retries of the timer see an outcome and stop: no incident, shown as escalated.
- A node that raises (Slack down after the approval, prices missing in a re-evaluation)
  leaves an open call with no gate. `_require_pending_node` then says it "has already finished its
  lifecycle", while the policy counts it as open and lets it absorb later triggers. For such a call of
  the standard tier `open_call_stage` says "awaiting manager approval" and the feed "awaiting approval"; a comment says the one mirrors the other.
- A response after the deadline is taken as met if no check came before it.
- An approver may adjust a call to 0.
- A post that Slack refuses keeps its claim and is not sent again: `PendingFigureAnnounced` is of the claim and the figure in it.

*Triggers*
- An instance lost between its claim and its dispatch: the redelivery finds the claim, skips the counterparty and is acknowledged.
- A duplicate delivery skips the claimed counterparty and acknowledges the message
  while the first is still running and may fail, or find the counterparty busy.
- An exception out of `graph_factory`, or out of `release_run` itself, leaves a claim whose trigger was not dealt with: the redelivery skips the counterparty.
- The lease's DELETE raises after an evaluation that found no breach, or the audit record of a re-evaluation raises: the claim is given back, and the redelivered trigger is
  evaluated again, though it is said to be "exactly once per (event, counterparty)" (`streaming/impact_consumer.py:11`).
- A lease row whose DELETE failed is, once expired, taken over as in `policy_takeover`, with no instance lost.
- A dispatch that fails after its trigger was stamped on the call is retried, and the retry
  finds the trigger already applied and evaluates nothing.
- With people acting during a dispatch (`HumansOverlap = TRUE`), a call rejected between the
  policy's look and the restart pauses for approval again but counts as closed; the next trigger raises a
  second call. With failures and three triggers, a run started again on the thread of its failed
  attempt keeps that attempt's decision, with the same result.

*WhatsApp*
- An item that is slow and then fails is dropped: Meta times out and redelivers, the
  redelivery is skipped with a 200, and the claim released later is claimed by nobody.
- A failed status or a tap on a notice that Meta already has, but whose gate is not recorded yet, is
  ignored and keeps its claim (`AnswerCounts` without its exception for `early`).
- Two administrators who read the same row and commit give two numbers one version.
- A tap that does not quote its notice can resolve two gates: it is taken, the audit after it raises, the claim is given
  back, and the redelivered tap is judged against the notice of a second send. The proof of `HandledOnce` stopped there;
  TLC finds the trace once `Items` has such a tap. Taps quote the notice in what Meta sends.

*Market data*
- `flush` returns with the message still queued (`streaming/producer.py:46`), the shock is marked: lost if the process ends.

*Console*
- Two instances publish one call's status in the opposite order of its checkpoints: each remembers its own (`realtime/publisher.py:109`), the document stays stale until the next change.
- Two deliveries of a desk job at once: the second answer replaces the one already read. An error text longer than its column (`persistence/db/models.py:292`) makes the write of the error fail.
- A report of two queries (`stress_backtest`, `concentration`) can show the tables before and after a load.
- The board ignores rating triggers and keeps terms from before a re-ingestion: it can show less than a run raises. It is priced from the stored prices, a run from the live feed: when the
  feed has moved on, fails or is a simulation's, the board can show a call no run raises, and be available when no run can evaluate.
- An elite call approved between the policy's look (`agents/margin_policy.py:187`) and the restart, and re-evaluated to no breach, is shown by the feed as awaiting a manager for ever, while the
  policy has no open call. The one "mirrors" the other (`agents/orchestrator.py:973`), which "must not drift" (`src/tests/unit/test_margin_policy.py:465`).
- A start that fails in a node is tried again on its thread: the trace shows the node that failed as completed, by the input checkpoint of the second attempt. The trace
  "reconstructs exactly which agent ran" (`api/margin_call_trace.py:15`).
- An adjusted call restarted over its approval and found without a breach is counted by the public page and not by its counterparty's history.

*Notices*
- A shortened CSA leaves its trailing chunks on file (`rag/ingest.py:56`). Terms and quoted clauses can be of different editions.
- A model outage while a PDF is drafted is not among the exceptions `send_notification` handles: the node raises. A screening outage becomes `GuardrailUnavailable`, which is.
- Collateral and its lines are two queries of one node; a posting in between makes the notice's lines exceed its total. The same for a run checkpointed before its state had them.

*Warehouse and tools*
- A backfill whose download lacks VIX, or that was killed while it wrote the cache file, fails on every later run until the file is deleted.
- A type without a haircut is ranked worst (`calc/collateral_optimizer.py:75`) and credited in full (`:82`).
- The counterparty view's generated extra trade may repeat a ticker we hold, and then hides a break.

## 4. Fairness

- `orch_serial` (`FairSpec`): weak fairness of each request being served (`Handle`): an instance that is not lost
  finishes its request, and a lost one is a `Fault`, which takes the request out of service. Weak fairness of `Tick`:
  time passes. Strong fairness of the timer's delivery: Cloud Tasks retries a task until it gets a 2xx, and the
  target's 409 at any other step disables and re-enables it. People and clients owe nothing. The queue's limit of
  twenty attempts is left out; a timer refused that often is lost.
- `streaming_faults`: a worker that is not lost goes on, and the broker delivers what is published, also to another worker. The subscription's own
  dead-lettering after five deliveries is out of reach of two faults.
- `desk_turns`: Cloud Tasks delivers a task until it is answered (its twenty attempts exceed the faults), a worker goes on, the frontend polls.

## 5. Proofs

Eight modules are checked by TLAPS for all values of the constants, from the named assumptions of the modules they
extend, which TLC evaluates on the runs:

- types of requests, items, payloads, days, tables, terms and bounds; amounts, prices and grades are naturals; a haircut is at most 100 %, a reduced threshold no higher
  than the agreed one; cache times (`TTL`, `CACHE_SECONDS`), batch size and attempts are positive;
- a trigger names a counterparty once; who signs is a user (`SignersAssumption`); each ticker has a sequence of quotes and each rated counterparty a number of downgrades
  (`FeedAssumption`); `Streaming`'s workers and `MarginPolicy`'s are finitely many;
- a book has finitely many positions, one per counterparty and ticker (`BookAssumption`), a symbol finitely many closes (`SymbolsAssumption`); pricing dates ascend
  (`DatesAssumption`), months and quarters do not go back (`MonthAssumption`, `QuarterAssumption`); both loaders write the same fact tables (`TablesAssumption`).

The theorems listed in `PROJECT.json` state, for every value, the property the run of the same component checks on a small one.
Each strengthening was model-checked before it was proved.

**OrchestratorCall_proofs**, first part: any requests, users and figures, both tiers, both channels, any number of faults, any overlap.

- `TypeCorrect`: `Spec => []TypeOK`. `NoticesAreSigned`: `Spec => []EveryNoticeSigned`. `EscalationsAreDue`: `Spec => []NeverEscalatedEarly`.

`EveryNoticeSigned` speaks of notices that went out; nothing in it
says why the next one will be signed. The argument is about what a run carries. `Ready(node, ch, sigs, now)`
says that channels `ch` justify standing before `node`: before `send_notification` the
effective figure has the signatures its tier needs; before the manager's gate the first one;
before `escalate` the SLA is breached, and late or undelivered. `IInv` (theorem `Inductive`) states this of the head and of *every* private copy
that is running or being saved. That covers overlap without any locking argument: a stale
copy, resumed by the wrong request or saved over a newer head, still justifies its own next
step. The step from one copy to the next is a lemma per node, free of state; `ReadyMonotone` carries readiness
through the steps of others, as signatures are never withdrawn and the clock never goes back.

**OrchestratorCall_proofs**, second part: the same constants, one request at a time (`SerialSpec`, faults included).

- `Refines`: `SerialSpec => ImplementsMarginCall`, the step simulation of `MarginCall` by the graph and its endpoints.
- `StepShown` (`PendingStepIsShown`), `TwoPeople` (`TwoPeopleSigned`), `NothingStranded` (`NoOpenCallStranded`), `FigureAnnounced` (`PendingFigureAnnounced`).

Where `Ready` gives what is enough to stand before a node, `Stands(node, ch)` says exactly which channels are set there and which are not.
`SerialInv` (`SerialInductive`) states it of the head and, by `Sound`, of the one private copy, with what the world was told and had opened by then (`WorldAgrees`):
it agrees with the head, or is ahead of it by the effect of the node a fault interrupted. The copy follows from the head by at most one node
(`Outcome`, a lemma per node), so that a step of the run is a step of the call when the notice leaves, the incident is opened or the checkpoint is saved, and a stutter otherwise.
A start tried again finds no breach check behind it, nobody told and nothing posted (`StartsClean`), so that it steps as a first one does.

**MarginPolicy_proofs**: any workers, triggers, counterparties, lists and deliveries. Every step is of one of
a few kinds (`StepKinds`: what it may do to claims, leases, log and workers), so that each invariant is shown per kind and not per action.

- `TypeCorrect`: `Spec => []TypeOK`.
- `DealtWithOnce`: `Spec => []AtMostOnce`, crashes, failures, takeovers and duplicates included. A trigger is dealt with again only where an exception followed what was done. `Once`: a claim has one worker
  (`Claimed`, `Exclusive`), what is done is claimed or was simulated (`LogClaimed`, `SimulatedOnce`), and a worker that may still deal with its counterparty finds nothing done, or
  an exception after what was (`Undealt`, `Undone`). The claim is given back only then, so that a retry deals with a counterparty first or after such an exception.
- `AcknowledgedIsDone`: `Spec => []NothingLost`. `Kept`: a claim means that its worker is at it or that it was dealt with (`ClaimMeant`, `DealtLogged`), while no exception left one behind, and
  a worker at the i-th entry, undisturbed and not busy, leaves all before i logged (`InTurn`).
- `LeaseHeldByOne`: `Spec => []LeaseTracksHolder`. `Leased` turns the count of holders into a unique one for a live row and none for a free row; takeovers need an expired one, which needs a crash or a DELETE that failed.
- `NeverASecondCall`: `Spec => []OneCallAtATime` from `~HumansOverlap` and `MaxCrashes = 0`, with any number of exceptions. `Single`: one open thread per counterparty (`OneOpen`), a pending gate
  belongs to an open call (`GateOpen`), a call is over only once decided (`OverDecided`), and what a worker found still stands while it holds the lease (`FoundHolds`), for which an evaluation that
  raises counts as one that opened or closed the call. What the statement excepts is needed: after a crash, or a DELETE that failed, two workers take over one lease (`policy_takeover`);
  with people signing during a dispatch, or a run started again on a thread that was decided meanwhile, a closed call gets a gate (section 3).

**Webhook_proofs**: any workers, administrators, sends, items, payloads and faults. `WebInv` (`WebInductive`): a claimed item has one worker, a snapshot with a gate
was taken when its send was over, a send that is over has its audit row unless an instance was lost.

- `HandledOnceProved`: `Spec => []HandledOnce`, if taps quote their notice (`TapsQuote`, see section 3) and Meta reports an item in one payload (`OnePayloadEach`).
  `AppliedInv`: what resolved the call did so when its notice's gate was open, which never opens again (`GoneStays`). `DropInv`: while nothing is at stake
  that `NothingDropped` excepts, a claim is of an item that was handled or is in hand, what a worker has passed and what Meta got a 200 for is handled
  or claimed, and without timeouts a payload has one worker.
- `OnlyRecipients`: `SerialSpec => []OnlyRecipientAnswers`, edits of the contact one after the other; `OneAdministrator` shows that one administrator is enough for that.
  `ContactInv`: the contact is the newest of its rows, an edit is of it. `RecipientInv`: a send went to a row's number, and a tap judged to count is from it, though
  the contact has changed since (versions only pass, `VersionsPass`).
- `AnswersCount`: `SerialSpec => []AnswerCounts`. `SettledInv`: an item dealt with at its gate closed it or is no answer of the recipient's, and who becomes a recipient was none before (`RecipientsShrink`).

**Streaming_proofs**: any workers, tickers, counterparties, quotes, poison and faults, both buses. `StreamInductive`: a worker, straggler or not, has settled what it is about to acknowledge, published
what it is about to mark, and written what its key shows; `CopiesInv` counts the copies of an impact set that are published, buffered or still to be published by a worker: at most the faults and one.

- `AckedLast` (`AckedIsSettled`), `PublishedOnceProved` (`PublishedOnce`), `NewestShown` (`LatestIsNewest`).

**Desk_proofs**: any turns, workers, limit, window and faults. `DeskInductive`: the limiter's deque is the latest admissions and what it forgot is a window old,
though clocks are read before the lock; a turn told to wait has room when it has waited, if nobody was admitted since. Job, task and worker of a turn agree on who runs it.

- `LimiterKeepsItsWord` (`LimiterHolds`, an invariant and an action property). `ReadStays` (`ReadIsKept`).

The attempt showed `RetryAfterSuffices` as first written to be false for three turns (TLC agreed): it asked whether anybody had been admitted when the returning turn read
its clock, but another may be admitted between that and the lock. The property now asks it when the turn is judged.

**Console_proofs**: `Status`, `Reports`, `Feed` and `Notices`, each from its own specification.

- Status, any request threads, instances, figures and faults (`StatusInductive`). `TraceTellsHistory` (`TraceIsHistory`): the checkpoints are a
  `Chain`, in which neighbours tell what ran between them but for a start's input, and what an invocation writes, up to a node that raises, prolongs it (`WrittenChain`, `ChainJoin`). `DocumentFollows` (`DocFollows`): with one publishing instance and no overlap, what
  the instance remembers is what the document says, except between the write and the remembering.
- Reports, any users, roles, edits of access, cache times (`ReportsInductive`): an entry is of the scope and book of its key and expires with its oldest row, a
  request's rows are of a scope its user had during it. From it `ServedDue` (`ServedAsDue`).
- Feed, any runs, tiers, amounts and edits between two fetches (`FeedInductive`): what a node writes of a run comes after what it wrote before, restarted by the policy or not, and a read lists all its scope had when
  it began. From it `FeedTells` (`FeedIsTrue`).
- Notices, any names, editions, durations and outages (`NoticesInductive`): a chunk is of the newest finished ingestion or beyond its end, a name that the cached pairs do not mask was added
  after they were read, and an incident says undelivered of a notice that never left or was reported. From it `ToldScreened` (`ToldIsScreened`) and `NoticeTrue` (`NoticeIsTrue`).

**Warehouse_proofs**: any calendar, tables, calls, loaders and faults (`WareInductive`).

- `ReRun` (`ReRunRepairs`): after the first k steps of a job that nobody overlapped, each table they loaded holds the job's rows, each report they refreshed agrees with the tables (`Written`).
  A job's steps delete and load every table in pairs and refresh last (`SoundSteps`), so that a finished one has written all.
- `InForce` (`VersionInForce`): dimension and facts are built of the same history of versions, which is in the order of the runs; the version in force on a day is the last begun by it.
  The recursion over the runs is followed to its least counterexample.

**Figures_proofs**: the calculations, the notice, the tools, the walk, the chunks and the closes.

The library's induction theorems take an operator, which no installed prover instantiates, and its folds are recursive functions chosen by `CHOOSE` inside a `LET`. A sum
over a finite set is therefore reasoned about directly: the chosen function exists, is unique and satisfies its equation, each by a least counterexample in the cardinality, and from that come
adding an element, splitting, and comparing term by term. The same way a recursive forward fill is shown to be its closed form (`FillAt`: the newest close within the limit).

- `BoardHolds` (`BoardWithinRun`), `ImpactHolds` (`ImpactIsTheDifference`), `TwinsHold` (`TwinsAgree`): from `ExposureInductive` (the rows are of their kinds, the last move led to the latest price), any book
  and any quotes; `BoardHolds` where the feed quotes the stored prices of the book.
- `NoticeHolds`: `NoticeSpec => []NoticeAddsUp`. `BreakdownInductive` says of each node what the run has kept so far and what follows from it, though every row may change in between.
- `GapHolds` (`BreaksExplainTheGap`): any two books with one position a ticker. The sum of the differences is taken over the tickers of either side.
- `WalkHolds` (`WalkIsConsistent`) and `ChunksHold` (`ChunksAreComplete`) from `WalkInductive`: an open call covers what was required when it was raised; a file holds its chunk's
  days up to the one walked. `Calendar`'s `ascending` is a `CHOOSE`, since the prover cannot expand the library's sort.
- `HistoryHolds` (`BookIsRepeatable`) from `HistoryInductive`: a download's attempts are counted per symbol, the file holds what came, and what backfills got since it was written is one value.

**Model-checked only.** Liveness (`SlaClockResolves`, `NoKeyIsWedged`, `EveryTurnIsRead`), which is out of the prover's reach. `CheapestToDeliver`: the optimizer is greedy over a
list sorted with the library's `SortSeq`, which the prover cannot expand. It holds only where
haircuts divide the values exactly; the run's instances are such.

## 6. Abstractions to keep in mind

- Checkpoints are saved in order, one per superstep. LangGraph's asynchronous durability can
  lose the last one on a crash even after the next node ran; `Fault` before `Save` covers a
  node's effect without its checkpoint, not two. In `Status` an invocation's checkpoints appear at once.
- In `Orchestrator` starting and re-evaluating exclude each other, as the lease has it;
  the lease's own failures are `MarginPolicy`'s, which leaves the run's inner checkpoints to `Orchestrator`: an evaluation ends there, or
  raises before its breach check is saved, or after. A start is tried again in `Orchestrator` while its breach check is not saved, when its channels are a new thread's. On a thread that
  has got further (found without a breach, rejected) the input keeps the channels; that is `MarginPolicy`'s (its `decision`) and `Status`'s.
- In `Status` a start is dispatched again while the call was not raised.
- `Webhook` takes the timer's breach as one step. `thread_for_message` reads the last 500 audit rows; the model takes them all.
- Calculations are exact integers; the drift of floating point sums is left out. The simulated walk's exposures are arbitrary.
- `Notices` has one counterparty's CSA; a prompt too large is one that is denied; retrieval returns all chunks, since there are fewer than `top_k`. The draft of an SLA-met message is left out.
- `Reports` keeps who and when a query reads, not its SQL, date ranges or contents. `Access` leaves out how long a token lives after its user's rows changed.
- Row formats, wording, logging, the contents of audit rows and lineage are left out everywhere.

## 7. Not modelled

Governance (`governance/lineage.py`, `catalog.py`, `sdp_scan.py`): events sent best-effort and read by no code here. The desk assistant's agent and its MCP servers: prompts over
read-only tools; its turn is `Desk`'s `Chat`. Operations and observability: I/O around the service. The pages of `src/frontend` render and post; what they may post
are the endpoints' requests. PostgreSQL's policies, Firebase's signatures, LangGraph, Pub/Sub, Meta, Cloud Tasks and the models are external and modelled
from how this code uses them. Free-text WhatsApp replies change no run. FRED rates are upserts nothing here reads back. Layout and PDF writing are formatting.

## 8. What could follow

1. `MarginPolicy` and `Orchestrator` composed: the thread a dispatch sees as the graph's own checkpoints.
2. `CheapestToDeliver` for any inventory, over a sort given by what it promises.
