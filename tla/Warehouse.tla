------------------------------ MODULE Warehouse ------------------------------
(***************************************************************************)
(* The BigQuery warehouse: the daily load of the live book (warehouse/     *)
(* live_load.py), the backfill of the simulated one (backfill.py) and the  *)
(* report refresh (refresh.py), over tables that know two operations:      *)
(* drop whole partitions, append rows (client.py).  A job is a sequence of *)
(* such steps and other jobs run between any two of them: a scheduler's    *)
(* retry after its deadline, a manual re-run, a backfill.                  *)
(*                                                                         *)
(* A day's slice of a fact table is a sequence of row sets, one per append:*)
(* the day is right when there is one, and it is the job's.                *)
(***************************************************************************)
EXTENDS Integers, Sequences, FiniteSets, SequencesExt

CONSTANTS
  Loaders,
  SimEnd,            \* SIM_END_DATE: days 1..SimEnd are the simulated book's
  LastDay,
  Month(_),          \* the calendar month of a day
  CALL_WINDOW_DAYS,
  LiveFacts,         \* exposure, position, price and call, in load_live_day's order
  ChunkFacts,        \* the same, in the order of FACT_TABLES
  DimOrder,          \* counterparty, instrument, csa_terms
  Calls,             \* margin calls of the live book
  RaisedOn,          \* RaisedOn[c]: the day of c's evaluate_breach event
  TermsSets,         \* sets of CSA terms a run can extract
  MaxRuns,           \* bound on runs with terms
  Leftover,          \* rows loaded twice, before the first job of the model
  MaxJobs,           \* bound on jobs started
  MaxFaults          \* bound on steps that raise

Days == 1..LastDay
FactTables == ToSet(LiveFacts)
DimTables == ToSet(DimOrder)
Books == {"live", "historical-sim"}

ASSUME DaysAssumption == SimEnd \in Nat /\ LastDay \in Nat /\ SimEnd < LastDay
ASSUME TablesAssumption ==
  /\ LiveFacts \in Seq(FactTables) /\ ChunkFacts \in Seq(FactTables) /\ DimOrder \in Seq(DimTables)
  /\ ToSet(LiveFacts) = ToSet(ChunkFacts) /\ FactTables \cap DimTables = {}
  /\ {"exposure", "position", "call"} \subseteq ToSet(LiveFacts)
  /\ "csa_terms" \in ToSet(DimOrder)
ASSUME MonthAssumption ==
  /\ \A d \in Days : Month(d) \in Nat
  /\ \A d, e \in Days : \A mo \in Month(d)..Month(e) : \E f \in Days : Month(f) = mo
ASSUME WindowAssumption == CALL_WINDOW_DAYS \in Nat \ {0}
ASSUME CallsAssumption == RaisedOn \in [Calls -> (SimEnd + 1)..LastDay]
ASSUME BoundsAssumption == MaxRuns \in Nat /\ MaxJobs \in Nat /\ Leftover \in Nat /\ MaxFaults \in Nat

VARIABLES
  today,     \* the latest day with official closes
  status,    \* per call: its lifecycle in the orchestrator
  runs,      \* per run with terms, in the order of their events: [day, terms]
  facts,     \* facts[t][d]: the appends of that partition
  dims,      \* dims[b][t]: the appends of that book's dimension
  daily,     \* rpt_counterparty_daily, per day
  callRpt,   \* rpt_margin_call, per day
  conc,      \* rpt_concentration, per month
  loader,    \* per loader: its job and the step it is at
  jobs, faults

vars == <<today, status, runs, facts, dims, daily, callRpt, conc, loader, jobs, faults>>

NoJob == [kind |-> "none"]
Nothing == [job |-> NoJob, todo |-> <<>>, steps |-> 0, state |-> "idle", alone |-> FALSE]

Init ==
  /\ today = SimEnd
  /\ status = [c \in Calls |-> "none"]
  /\ runs = <<>>
  \* An empty warehouse, or what overlapping jobs had left of every day.
  /\ \E copies \in {0, Leftover} :
       facts = [t \in FactTables |-> [d \in Days |-> [i \in 1..copies |->
         [book |-> IF d <= SimEnd THEN "historical-sim" ELSE "live", csa |-> 0]]]]
  /\ dims = [b \in Books |-> [t \in DimTables |-> <<>>]]
  /\ daily = [d \in Days |-> <<>>]
  /\ callRpt = [d \in Days |-> <<>>]
  /\ conc = [mo \in {Month(d) : d \in Days} |-> <<>>]
  /\ loader = [w \in Loaders |-> Nothing]
  /\ jobs = 0 /\ faults = 0

(***************************************************************************)
(* The live application, as far as a snapshot of it shows.                 *)
(***************************************************************************)
appVars == <<today, status, runs>>
tableVars == <<facts, dims, daily, callRpt, conc>>

\* A snapshot is taken when a job starts, so what the application does in
\* between commutes with the job's steps: it is explored before the first,
\* and not after the last job, which nothing reads.
BetweenSnapshots ==
  /\ jobs < MaxJobs
  /\ \A w \in Loaders :
       loader[w].state = "running" => Len(loader[w].todo) = loader[w].steps

EndOfDay ==
  /\ BetweenSnapshots
  /\ today < LastDay
  /\ today' = today + 1
  /\ UNCHANGED <<status, runs, tableVars, loader, jobs, faults>>

Raise(c) ==
  /\ BetweenSnapshots
  /\ status[c] = "none" /\ RaisedOn[c] = today
  /\ status' = [status EXCEPT ![c] = "pending"]
  /\ UNCHANGED <<today, runs, tableVars, loader, jobs, faults>>

\* Answered, escalated or rejected, on that day or much later.
Resolve(c) ==
  /\ BetweenSnapshots
  /\ status[c] = "pending"
  /\ status' = [status EXCEPT ![c] = "resolved"]
  /\ UNCHANGED <<today, runs, tableVars, loader, jobs, faults>>

ExtractTerms(terms) ==
  /\ BetweenSnapshots
  /\ Len(runs) < MaxRuns
  /\ runs' = Append(runs, [day |-> today, terms |-> terms])
  /\ UNCHANGED <<today, status, tableVars, loader, jobs, faults>>

(***************************************************************************)
(* What a job writes.                                                      *)
(***************************************************************************)
\* Each distinct set of terms with the first day it was used.
csa_versions(rs) ==
  LET upTo[n \in 0..Len(rs)] ==
        IF n = 0 THEN <<>>
        ELSE IF upTo[n - 1] = <<>> \/ Last(upTo[n - 1]).terms # rs[n].terms
             THEN Append(upTo[n - 1], [from |-> rs[n].day, terms |-> rs[n].terms])
             ELSE upTo[n - 1]
  IN upTo[Len(rs)]

\* The newest version, whatever the day.
terms_on_Latest(history, day) == Len(history)

\* The version in force on a day, or the first one; 0 when there is none.
terms_on(history, day) ==
  LET inForce == {n \in DOMAIN history : history[n].from <= day}
  IN IF history = <<>> THEN 0
     ELSE IF inForce = {} THEN 1
     ELSE CHOOSE n \in inForce : \A o \in inForce : o <= n

\* dim_csa_terms: a version ends the day before the next one starts.
csa_rows(history) ==
  {[number |-> n, from |-> history[n].from,
    to |-> IF n = Len(history) THEN LastDay ELSE history[n + 1].from - 1] :
   n \in DOMAIN history}

check_book_dates(book, start, end) ==
  /\ start <= end
  /\ book = "historical-sim" => end <= SimEnd
  /\ book = "live" => start > SimEnd

WindowStart(asOf) ==
  IF asOf - (CALL_WINDOW_DAYS - 1) > SimEnd THEN asOf - (CALL_WINDOW_DAYS - 1) ELSE SimEnd + 1

\* The partitions of a fact table a job replaces.
Slice(job, t) ==
  IF job.kind = "chunk" THEN job.start..job.end
  ELSE IF t = "call" THEN WindowStart(job.asOf)..job.asOf
  ELSE {job.asOf}

margin_call_row(job, c) == [call |-> c, status |-> job.status[c]]

\* Nothing for a job without CSA terms, whatever else it read (_skip_reason).
exposure_and_positions(job, d) ==
  IF job.versions = <<>> THEN <<>>
  ELSE <<[book |-> "live", csa |-> terms_on(job.versions, d), job |-> job.n]>>

call_rows(job, d) ==
  LET raised == {c \in Calls : job.status[c] # "none" /\ RaisedOn[c] = d}
  IN IF raised = {} THEN <<>>
     ELSE <<[book |-> "live", calls |-> {margin_call_row(job, c) : c \in raised}]>>

price_rows == <<[book |-> "live"]>>

\* write_chunks: every day of a chunk has rows of every fact.
chunk_rows == <<[book |-> "historical-sim"]>>

\* The appends of a job to one partition: none when it has no row for it.
Rows(job, t, d) ==
  CASE job.kind = "chunk" -> chunk_rows
    [] job.kind = "live" /\ t = "call" -> call_rows(job, d)
    [] job.kind = "live" /\ t = "price" -> price_rows
    [] OTHER -> exposure_and_positions(job, d)

dimension_rows(job, t) ==
  IF job.kind = "dims" THEN <<[book |-> "historical-sim"]>>
  ELSE IF t # "csa_terms" THEN <<[book |-> "live", job |-> job.n]>>
  ELSE IF job.versions = <<>> THEN <<>> ELSE <<csa_rows(job.versions)>>

BookOf(job) == IF job.kind = "live" THEN "live" ELSE "historical-sim"

\* Each table in turn: its slice deleted, then loaded.
ReplaceSteps(order) ==
  [i \in 1..2 * Len(order) |->
     [op |-> IF i % 2 = 1 THEN "delete" ELSE "load", table |-> order[(i + 1) \div 2]]]

DimSteps == ReplaceSteps(DimOrder)

RefreshSteps ==
  [i \in 1..3 |-> [op |-> "refresh", table |-> <<"daily", "conc", "callRpt">>[i]]]

LiveSteps == ReplaceSteps(LiveFacts) \o DimSteps \o RefreshSteps

ChunkSteps == ReplaceSteps(ChunkFacts) \o RefreshSteps

Steps(job) ==
  CASE job.kind = "live" -> LiveSteps
    [] job.kind = "chunk" -> ChunkSteps
    [] job.kind = "dims" -> DimSteps

\* The days refresh_reports is called with.
ReportStart(job) == IF job.kind = "live" THEN WindowStart(job.asOf) ELSE job.start
ReportEnd(job) == IF job.kind = "live" THEN job.asOf ELSE job.end
Months(job) == Month(ReportStart(job))..Month(ReportEnd(job))

(***************************************************************************)
(* The jobs.                                                               *)
(***************************************************************************)
Start(w, job) ==
  /\ loader[w].state \in {"idle", "done", "failed"}
  /\ jobs < MaxJobs
  /\ jobs' = jobs + 1
  /\ loader' = [v \in Loaders |->
       IF v = w THEN [job |-> job, todo |-> Steps(job), steps |-> Len(Steps(job)),
                      state |-> "running",
                      alone |-> \A u \in Loaders \ {w} : loader[u].state # "running"]
       ELSE [loader[v] EXCEPT !.alone = FALSE]]
  /\ UNCHANGED <<appVars, tableVars, faults>>

\* The days that have closes, the latest of which is the default.
has_closes(d) == d <= today

\* The runs, their calls and their terms as they are now, whatever the day.
read_runs(asOf) ==
  [kind |-> "live", asOf |-> asOf, n |-> jobs + 1, status |-> status, versions |-> csa_versions(runs)]

\* After the daily run, by the endpoint for the latest day, or by hand for an
\* older one.
StartLive(w, asOf) ==
  /\ has_closes(asOf)
  /\ check_book_dates("live", asOf, asOf)
  /\ Start(w, read_runs(asOf))

StartChunk(w, start, end) ==
  /\ check_book_dates("historical-sim", start, end)
  /\ Start(w, [kind |-> "chunk", start |-> start, end |-> end])

StartDims(w) == Start(w, [kind |-> "dims"])

Step(w) == Head(loader[w].todo)

Advance(w) ==
  loader' = [loader EXCEPT ![w].todo = Tail(@),
                           ![w].state = IF Tail(loader[w].todo) = <<>> THEN "done" ELSE @]

\* The delete is skipped for a slice the job has no row for.
DeletePartitions_UnlessEmpty(w) ==
  LET job == loader[w].job
      t == Step(w).table
  IN /\ facts' = IF t \notin FactTables THEN facts
                 ELSE [facts EXCEPT ![t] =
                        [d \in Days |-> IF d \in Slice(job, t) /\ Rows(job, t, d) # <<>> THEN <<>> ELSE @[d]]]
     /\ dims' = IF t \in FactTables THEN dims ELSE [dims EXCEPT ![BookOf(job)][t] = <<>>]

\* delete_partitions: rows of every append, of any book, in the partitions.
DeletePartitions(w) ==
  LET job == loader[w].job
      t == Step(w).table
  IN IF t \in FactTables
     THEN /\ facts' = [facts EXCEPT ![t] =
                         [d \in Days |-> IF d \in Slice(job, t) THEN <<>> ELSE @[d]]]
          /\ UNCHANGED dims
     ELSE /\ dims' = [dims EXCEPT ![BookOf(job)][t] = <<>>]
          /\ UNCHANGED facts

\* _load: WRITE_APPEND, skipped when there are no rows.
LoadRows(w) ==
  LET job == loader[w].job
      t == Step(w).table
  IN IF t \in FactTables
     THEN /\ facts' = [facts EXCEPT ![t] =
                         [d \in Days |-> IF d \in Slice(job, t) THEN @[d] \o Rows(job, t, d) ELSE @[d]]]
          /\ UNCHANGED dims
     ELSE /\ dims' = [dims EXCEPT ![BookOf(job)][t] = @ \o dimension_rows(job, t)]
          /\ UNCHANGED facts

\* The last day of a month with positions, and its rows.
Concentration(mo) ==
  LET loaded == {d \in Days : Month(d) = mo /\ facts["position"][d] # <<>>}
  IN IF loaded = {} THEN <<>>
     ELSE facts["position"][CHOOSE d \in loaded : \A e \in loaded : e <= d]

\* One refresh script: the range's rows deleted, and inserted again from the
\* facts unless the script stops in between.
Refresh(w, inserted) ==
  LET job == loader[w].job
      range == ReportStart(job)..ReportEnd(job)
  IN /\ daily' = IF Step(w).table # "daily" THEN daily
                 ELSE [d \in Days |-> IF d \notin range THEN daily[d]
                                      ELSE IF inserted THEN facts["exposure"][d] ELSE <<>>]
     /\ conc' = IF Step(w).table # "conc" THEN conc
                ELSE [mo \in DOMAIN conc |-> IF mo \notin Months(job) THEN conc[mo]
                                             ELSE IF inserted THEN Concentration(mo) ELSE <<>>]
     /\ callRpt' = IF Step(w).table # "callRpt" THEN callRpt
                   ELSE [d \in Days |-> IF Month(d) \notin Months(job) THEN callRpt[d]
                                        ELSE IF inserted THEN facts["call"][d] ELSE <<>>]

Running(w, op) == loader[w].state = "running" /\ Step(w).op = op

Delete(w) ==
  /\ Running(w, "delete")
  /\ DeletePartitions(w)
  /\ Advance(w)
  /\ UNCHANGED <<appVars, daily, callRpt, conc, jobs, faults>>

Load(w) ==
  /\ Running(w, "load")
  /\ LoadRows(w)
  /\ Advance(w)
  /\ UNCHANGED <<appVars, daily, callRpt, conc, jobs, faults>>

RefreshReport(w) ==
  /\ Running(w, "refresh")
  /\ Refresh(w, TRUE)
  /\ Advance(w)
  /\ UNCHANGED <<appVars, facts, dims, jobs, faults>>

\* A query or a load raises, or the instance is lost: the job is over.  What
\* BigQuery was doing may have been done all the same.
Fail(w) ==
  /\ loader[w].state = "running"
  /\ faults < MaxFaults
  /\ faults' = faults + 1
  /\ loader' = [loader EXCEPT ![w] = [Nothing EXCEPT !.state = "failed"]]
  /\ \/ UNCHANGED tableVars
     \/ /\ Running(w, "delete") /\ DeletePartitions(w)
        /\ UNCHANGED <<daily, callRpt, conc>>
     \/ /\ Running(w, "load") /\ LoadRows(w)
        /\ UNCHANGED <<daily, callRpt, conc>>
     \/ /\ Running(w, "refresh") /\ Refresh(w, FALSE)
        /\ UNCHANGED <<facts, dims>>
  /\ UNCHANGED <<appVars, jobs>>

Next ==
  \/ EndOfDay
  \/ \E c \in Calls : Raise(c) \/ Resolve(c)
  \/ \E terms \in TermsSets : ExtractTerms(terms)
  \/ \E w \in Loaders :
       \/ \E asOf \in Days : StartLive(w, asOf)
       \/ \E start, end \in Days : StartChunk(w, start, end)
       \/ StartDims(w)
       \/ Delete(w) \/ Load(w) \/ RefreshReport(w) \/ Fail(w)

Spec == Init /\ [][Next]_vars

(***************************************************************************)
(* Properties.                                                             *)
(***************************************************************************)
TypeOK ==
  /\ today \in SimEnd..LastDay
  /\ DOMAIN facts = FactTables /\ DOMAIN dims = Books
  /\ \A w \in Loaders :
       /\ loader[w].state \in {"idle", "running", "done", "failed"}
       /\ loader[w].state = "running" <=> loader[w].todo # <<>>
  /\ Cardinality({w \in Loaders : loader[w].state = "running" /\ loader[w].alone}) <= 1

\* A finished job nobody overlapped left its slices with its rows, once,
\* whatever crashed or overlapping jobs had left there: the re-run repairs.
ReRunReplaces ==
  \A w \in Loaders :
    loader[w].state = "done" /\ loader[w].alone =>
      LET job == loader[w].job IN
      /\ job.kind # "dims" =>
           \A t \in FactTables : \A d \in Slice(job, t) : facts[t][d] = Rows(job, t, d)
      /\ job.kind # "chunk" => \A t \in DimTables : dims[BookOf(job)][t] = dimension_rows(job, t)

\* And the reports of its days and months say what the fact tables say.
ReportsFollowFacts ==
  \A w \in Loaders :
    loader[w].state = "done" /\ loader[w].alone /\ loader[w].job.kind # "dims" =>
      LET job == loader[w].job IN
      /\ \A d \in ReportStart(job)..ReportEnd(job) : daily[d] = facts["exposure"][d]
      /\ \A d \in Days : Month(d) \in Months(job) => callRpt[d] = facts["call"][d]
      /\ \A mo \in Months(job) : conc[mo] = Concentration(mo)

\* Neither book's jobs delete or write the other's days: the live load's
\* window of calls stops at the end of the simulated book.
BooksApart ==
  /\ \A t \in FactTables : \A d \in Days : \A i \in DOMAIN facts[t][d] :
       d <= SimEnd <=> facts[t][d][i].book = "historical-sim"
  /\ \A w \in Loaders : loader[w].job.kind = "live" =>
       \A t \in FactTables : \A d \in Slice(loader[w].job, t) : d > SimEnd

\* The CSA version an exposure row of an unoverlapped load names is the one
\* dim_csa_terms, rebuilt by the same load, has in force on that day.
VersionInForce ==
  \A w \in Loaders :
    loader[w].state = "done" /\ loader[w].alone /\ loader[w].job.kind = "live" =>
      LET d == loader[w].job.asOf IN
      \A i \in DOMAIN facts["exposure"][d] : \A j \in DOMAIN dims["live"]["csa_terms"] :
        LET csa == facts["exposure"][d][i].csa
            rows == dims["live"]["csa_terms"][j]
            inForce == {r \in rows : r.from <= d /\ d <= r.to}
        IN \/ inForce = {} /\ \A r \in rows : r.from > d
           \/ {r.number : r \in inForce} = {csa}

\* What a finished job leaves: its own slices and reports whole, whatever was
\* there before, and the other book's alone.
ReRunRepairs == TypeOK /\ ReRunReplaces /\ ReportsFollowFacts /\ BooksApart
=============================================================================
