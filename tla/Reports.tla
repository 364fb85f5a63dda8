------------------------------- MODULE Reports ------------------------------
(***************************************************************************)
(* The five reports of warehouse/reports.py: each request looks the        *)
(* caller's scope up, then serves the cached report of that scope or       *)
(* queries the report tables, while the tables are reloaded, access rows   *)
(* change and the clock goes on.  A report is what it shows of whom: the   *)
(* counterparties and when each query read.  The cache belongs to one      *)
(* process; its requests run in threads.                                   *)
(***************************************************************************)
EXTENDS Access, Sequences

CONSTANTS
  ReportNames,
  CACHE_SECONDS,
  MaxClock,     \* bound
  MaxRequests   \* bound

ASSUME ReportsAssumption == CACHE_SECONDS \in Nat \ {0} /\ MaxClock \in Nat \ {0} /\ MaxRequests \in Nat

Books == {"live", "historical-sim"}

VARIABLES
  clock,
  report,  \* the report the callers ask for: reports share no cache entry
  loaded,  \* the report tables have rows of this month
  cache,   \* _cache: key to the report and when it expires
  req,     \* each user's request
  asked    \* requests so far

reportVars == <<access, granted, clock, report, loaded, cache, req, asked>>

NoReport == [until |-> 0, rows |-> <<>>]
NoRequest == [stage |-> "idle"]

visible_books(scope) == IF scope = FIRM_WIDE THEN Books ELSE {"live"}

Scopes == {FIRM_WIDE} \cup [all : {FALSE}, cps : SUBSET Cps]

\* One report for every caller.
Key_NoScope(scope, book) == <<FIRM_WIDE, book>>

Key(scope, book) == <<scope, book>>

Keys == Scopes \X Books

ReportsInit ==
  /\ AccessInit
  /\ clock = 1
  /\ report \in ReportNames
  /\ loaded = FALSE
  /\ cache = [k \in Keys |-> NoReport]
  /\ req = [u \in Users |-> NoRequest]
  /\ asked = 0

\* _caller_scope, before the service is asked.
AskReport(u, book) ==
  /\ req[u] = NoRequest
  /\ asked < MaxRequests /\ asked' = asked + 1
  /\ Begins(u)
  /\ req' = [req EXCEPT ![u] = [stage |-> "look", book |-> book, scope |-> scope_for(u)]]
  /\ UNCHANGED <<access, clock, report, loaded, cache>>

KeyOf(u) == Key(req[u].scope, req[u].book)

Shown(u, rows, began) ==
  [stage |-> "shown", book |-> req[u].book, rows |-> rows, began |-> began]

\* _cached reads the clock, then the cache.
Hit(u) ==
  /\ req[u].stage = "look"
  /\ cache[KeyOf(u)].until > clock
  /\ req' = [req EXCEPT ![u] = Shown(u, cache[KeyOf(u)].rows, clock)]
  /\ UNCHANGED <<access, granted, clock, report, loaded, cache, asked>>

Miss(u) ==
  /\ req[u].stage = "look"
  /\ cache[KeyOf(u)].until <= clock
  /\ req[u].book \in visible_books(req[u].scope)
  /\ req' = [req EXCEPT ![u] =
       [stage |-> "query", book |-> @.book, scope |-> @.scope, began |-> clock, rows |-> <<>>]]
  /\ UNCHANGED <<access, granted, clock, report, loaded, cache, asked>>

\* A scoped user asking for the simulated book: refused while building, so
\* nothing is kept.
Denied(u) ==
  /\ req[u].stage = "look"
  /\ cache[KeyOf(u)].until <= clock
  /\ req[u].book \notin visible_books(req[u].scope)
  /\ req' = [req EXCEPT ![u] = NoRequest]
  /\ Ends(u)
  /\ UNCHANGED <<access, clock, report, loaded, cache, asked>>

\* What one query returns: whose rows, read when.
Rows(u) ==
  LET scope == report_scope(req[u].scope)
  IN [cps |-> {cp \in Cps : scope.scope_all \/ cp \in scope.counterparty_ids},
      at |-> clock]

QueryTo(u, stage, rows) ==
  /\ req' = [req EXCEPT ![u] = [@ EXCEPT !.stage = stage, !.rows = rows]]
  /\ UNCHANGED <<access, granted, clock, report, loaded, cache, asked>>

exposure_trend(u) ==
  report = "exposure" /\ req[u].stage = "query" /\ QueryTo(u, "store", <<Rows(u)>>)

collateral_adequacy(u) ==
  report = "collateral" /\ req[u].stage = "query" /\ QueryTo(u, "store", <<Rows(u)>>)

margin_call_performance(u) ==
  report = "margin_calls" /\ req[u].stage = "query" /\ QueryTo(u, "store", <<Rows(u)>>)

\* The live book before the month's first load: the month before.
concentration(u) ==
  /\ report = "concentration"
  /\ \/ /\ req[u].stage = "query"
        /\ IF ~loaded /\ req[u].book = "live"
           THEN QueryTo(u, "query again", <<>>)
           ELSE QueryTo(u, "store", <<Rows(u)>>)
     \/ req[u].stage = "query again" /\ QueryTo(u, "store", <<Rows(u)>>)

\* Two queries, which a load may fall between.
stress_backtest(u) ==
  /\ report = "stress"
  /\ \/ req[u].stage = "query" /\ QueryTo(u, "query again", <<Rows(u)>>)
     \/ req[u].stage = "query again" /\ QueryTo(u, "store", req[u].rows \o <<Rows(u)>>)

\* The entry expires CACHE_SECONDS after the report was asked for.
Expiry(u) == req[u].began + CACHE_SECONDS

Store(u) ==
  /\ req[u].stage = "store"
  /\ cache' = [cache EXCEPT ![KeyOf(u)] = [until |-> Expiry(u), rows |-> req[u].rows]]
  /\ req' = [req EXCEPT ![u] = Shown(u, req[u].rows, req[u].began)]
  /\ UNCHANGED <<access, granted, clock, report, loaded, asked>>

\* A failed query leaves the cache as it was.
QueryFails(u) ==
  /\ req[u].stage \in {"query", "query again"}
  /\ req' = [req EXCEPT ![u] = NoRequest]
  /\ Ends(u)
  /\ UNCHANGED <<access, clock, report, loaded, cache, asked>>

Read(u) ==
  /\ req[u].stage = "shown"
  /\ req' = [req EXCEPT ![u] = NoRequest]
  /\ Ends(u)
  /\ UNCHANGED <<access, clock, report, loaded, cache, asked>>

\* Outside: the warehouse jobs, the accounts, the clock.
LoadReportTables ==
  /\ ~loaded /\ loaded' = TRUE
  /\ UNCHANGED <<access, granted, clock, report, cache, req, asked>>

EditRows(u, cp) ==
  EditAccess(u, cp, req[u] # NoRequest) /\ UNCHANGED <<clock, report, loaded, cache, req, asked>>

Tick ==
  /\ clock < MaxClock
  /\ clock' = clock + 1
  /\ UNCHANGED <<access, granted, report, loaded, cache, req, asked>>

ReportsNext ==
  \/ \E u \in Users :
       \/ \E book \in Books : AskReport(u, book)
       \/ Hit(u) \/ Miss(u) \/ Denied(u) \/ Store(u) \/ QueryFails(u) \/ Read(u)
       \/ exposure_trend(u) \/ collateral_adequacy(u) \/ concentration(u)
       \/ margin_call_performance(u) \/ stress_backtest(u)
       \/ \E cp \in Cps : EditRows(u, cp)
  \/ LoadReportTables
  \/ Tick

(***************************************************************************)
(* Properties.                                                             *)
(***************************************************************************)
\* The state has the shape the code gives it.
ReportsTypeOK ==
  /\ access \in [Users -> SUBSET Cps]
  /\ clock \in 1..MaxClock
  /\ \A k \in Keys : cache[k].until \in 0..MaxClock + CACHE_SECONDS /\ Len(cache[k].rows) <= 2
  /\ \A u \in Users : req[u].stage \in {"idle", "look", "query", "query again", "store", "shown"}

\* What a user is shown is of counterparties they had at some time during
\* the request, and of the simulated book only firm-wide, whoever filled
\* the cache and whatever was granted then ("the same scope as Cloud SQL
\* row-level security", reports.py).
ReportsWithinScope ==
  \A u \in Users : req[u].stage = "shown" =>
    /\ \A i \in DOMAIN req[u].rows : req[u].rows[i].cps \subseteq granted[u]
    /\ req[u].book = "live" \/ RoleOf(u) \in FIRM_WIDE_ROLES

\* A report is no older than CACHE_SECONDS when its request began: it may
\* miss the loads of that time and no earlier ones, however long the query
\* that filled the cache took.
ReportFresh ==
  \A u \in Users : req[u].stage = "shown" =>
    \A i \in DOMAIN req[u].rows : req[u].rows[i].at + CACHE_SECONDS > req[u].began

\* A cached report is served only to whom, and as long as, it may be; and the
\* scope it is served by is the one every other reader of it takes.
ServedAsDue == ReportsTypeOK /\ ScopesAgree /\ ReportsWithinScope /\ ReportFresh
=============================================================================
