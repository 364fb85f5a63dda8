----------------------------- MODULE Simulation -----------------------------
(***************************************************************************)
(* The historical simulation of the warehouse backfill: the book's terms   *)
(* and ratings over time (warehouse/simulated_book.py), the walk over the  *)
(* trading days with its calls, settlements and returns (Simulation.days   *)
(* in backfill.py), and the chunk files cut from that one walk             *)
(* (write_chunks).                                                         *)
(*                                                                         *)
(* A trading day is an index into Dates; the exposure of a day is any of   *)
(* Exposures, since the price matrix can be anything.                      *)
(***************************************************************************)
EXTENDS Calc, Calendar, Sequences, SequencesExt

CONSTANTS
  Counterparties,
  Exposures,
  Dates,            \* the calendar day of each trading day, increasing
  SIM_START_DATE, SIM_END_DATE,
  Month(_), Quarter(_),
  MIN_COLLATERAL,
  Factors,          \* collateral factors, percent
  Thresholds, MTAs, \* what a (re)negotiation can agree
  ReviewDays,       \* calendar days of the CSA reviews
  Grades,           \* ratings a review can move to, as ranks
  TRIGGER_GRADE

Days == DOMAIN Dates
Window == SIM_START_DATE..SIM_END_DATE
OPEN_END == SIM_END_DATE + 1

ASSUME DatesAssumption ==
  /\ Dates \in Seq(Nat) /\ Dates # <<>>
  /\ \A i, j \in DOMAIN Dates : i < j => Dates[i] < Dates[j]
  /\ SIM_START_DATE \in Nat /\ SIM_END_DATE \in Nat /\ SIM_START_DATE <= SIM_END_DATE
  /\ ReviewDays \subseteq (SIM_START_DATE + 1)..SIM_END_DATE
ASSUME QuarterAssumption ==
  \A d, e \in Window : Quarter(d) \in Nat /\ (d <= e => Quarter(d) <= Quarter(e))
ASSUME TermsAssumption ==
  /\ Exposures \subseteq Int /\ Exposures # {} /\ MIN_COLLATERAL \in Nat \ {0}
  /\ Factors \subseteq Nat /\ Thresholds \subseteq Nat /\ MTAs \subseteq Nat
  /\ Grades \subseteq Nat /\ TRIGGER_GRADE \in Nat

VARIABLES
  book,        \* per counterparty: csa_versions, ratings, collateral_factor
  wanted,      \* the chunks asked for, in order
  walked,      \* the trading day walked last; the first is never walked
  started,
  collateral, pending, settle_day,
  day,         \* the rows of that day, per counterparty
  calls,       \* every call raised
  position,    \* the chunk being written
  file,        \* its open file: the days written, or NoFile
  yielded      \* closed files

walkVars == <<book, wanted, walked, started, collateral, pending, settle_day, day, calls, position, file, yielded>>

(***************************************************************************)
(* The simulated book.                                                     *)
(***************************************************************************)

\* One version from the start, one more from each review that renegotiates.
csa_versions(reviews, terms) ==
  LET starts == ascending({SIM_START_DATE} \cup reviews)
  IN [n \in DOMAIN starts |->
        [version |-> n, valid_from |-> starts[n],
         valid_to |-> IF n = Len(starts) THEN OPEN_END ELSE starts[n + 1] - 1,
         threshold |-> terms[starts[n]].threshold, mta |-> terms[starts[n]].mta]]

quarter_starts == {d \in Window \ {SIM_START_DATE} : Quarter(d) # Quarter(d - 1)}

\* At a quarter's start the rating moves by one grade or stays.
rating_paths ==
  {LET starts == ascending(DOMAIN g)
   IN [n \in DOMAIN starts |-> [from |-> starts[n], grade |-> g[starts[n]]]] :
   g \in UNION {{h \in [D \cup {SIM_START_DATE} -> Grades] :
                   \A d \in D : LET last == Max({e \in D \cup {SIM_START_DATE} : e < d})
                               IN h[d] - h[last] \in {-1, 1}} :
                D \in SUBSET quarter_starts}}

generate_counterparty ==
  {[csa_versions |-> csa_versions(reviews, terms), ratings |-> path, collateral_factor |-> f] :
   reviews \in SUBSET ReviewDays,
   terms \in [{SIM_START_DATE} \cup ReviewDays -> [threshold : Thresholds, mta : MTAs]],
   path \in rating_paths, f \in Factors}

rating_on(cp, date) ==
  LET past == {i \in DOMAIN cp.ratings : cp.ratings[i].from <= date}
  IN IF past = {} THEN cp.ratings[1].grade ELSE cp.ratings[CHOOSE i \in past : \A j \in past : j <= i].grade

\* The first version that covers the day; before all of them the first.
csa_on(cp, date) ==
  LET versions == cp.csa_versions
      covering == {n \in DOMAIN versions : versions[n].valid_from <= date /\ date <= versions[n].valid_to}
  IN IF covering # {} THEN versions[CHOOSE n \in covering : \A m \in covering : n <= m]
     ELSE IF date < versions[1].valid_from THEN versions[1] ELSE Last(versions)

\* The trigger of every CSA reduces the threshold to nothing.
threshold_on(cp, date) ==
  vc_effective_threshold(csa_on(cp, date).threshold, rating_on(cp, date), TRIGGER_GRADE, 0)

(***************************************************************************)
(* The chunks.                                                             *)
(***************************************************************************)
\* A quarter each, cut to the simulated window.
all_chunks ==
  {LET days == {d \in Window : Quarter(d) = q}
   IN [name |-> q, start |-> Min(days), end |-> Max(days)] : q \in {Quarter(d) : d \in Window}}

\* By start date.
in_order(chunks) ==
  LET starts == ascending({c.start : c \in chunks})
  IN [n \in DOMAIN starts |-> CHOOSE c \in chunks : c.start = starts[n]]

TradingDays(chunk) == {i \in Days : Dates[i] \in chunk.start..chunk.end}

NoFile == <<>>
NoDay == [c \in Counterparties |-> [none |-> TRUE]]

WalkInit ==
  /\ book \in [Counterparties -> generate_counterparty]
  /\ \E chunks \in SUBSET all_chunks : wanted = in_order(chunks)
  /\ walked = 1
  /\ started = FALSE
  /\ collateral = [c \in Counterparties |-> 0]
  /\ pending = [c \in Counterparties |-> 0]
  /\ settle_day = [c \in Counterparties |-> -1]
  /\ day = NoDay
  /\ calls = {}
  /\ position = 1
  /\ file = NoFile
  /\ yielded = <<>>

(***************************************************************************)
(* One trading day.                                                        *)
(***************************************************************************)
settling(now) == {c \in Counterparties : settle_day[c] = now}

\* The collateral the day starts from: what was called and is due arrives.
settled(now) ==
  [c \in Counterparties |-> collateral[c] + IF c \in settling(now) THEN pending[c] ELSE 0]

\* On the first day, sized on its requirement.
opening(c, required) ==
  Largest(MIN_COLLATERAL, (required * book[c].collateral_factor) \div 100)

held(now, exposure) ==
  IF started THEN settled(now)
  ELSE [c \in Counterparties |-> opening(c, required_support(exposure[c], threshold_on(book[c], Dates[now])))]

still_open(c, now) == settle_day[c] >= 0 /\ c \notin settling(now)

row(c, now, exposure) ==
  LET threshold == threshold_on(book[c], Dates[now])
      breach == vc_evaluate_breach(exposure[c], held(now, exposure)[c], threshold,
                                   csa_on(book[c], Dates[now]).mta)
  IN [as_of |-> Dates[now], exposure |-> exposure[c], threshold |-> threshold,
      collateral |-> held(now, exposure)[c], required |-> breach.required,
      call_due |-> breach.call_amount, breached |-> breach.breached,
      call_raised |-> breach.breached /\ ~still_open(c, now),
      csa_version |-> csa_on(book[c], Dates[now]).version]

is_month_end(now) == now + 1 \notin Days \/ Month(Dates[now + 1]) # Month(Dates[now])

\* Excess returned while a call is open too.
returned_Always(c, now, r, open) ==
  IF is_month_end(now) THEN return_amount(r.collateral, r.required, csa_on(book[c], r.as_of).mta) ELSE 0

returned(c, now, r, open) ==
  IF is_month_end(now) /\ ~open
  THEN return_amount(r.collateral, r.required, csa_on(book[c], r.as_of).mta) ELSE 0

\* Delivered the day after when the SLA was met, else a day later.
call_row(c, now, r, sla_met) ==
  [cp |-> c, as_of |-> r.as_of, amount |-> r.call_due, exposure |-> r.exposure,
   collateral_held |-> r.collateral, threshold |-> r.threshold, sla_met |-> sla_met,
   settle_day |-> IF sla_met THEN now + 1 ELSE now + 2]

\* The calls raised, the collateral delivered and what is returned.
Walk(now, exposure, sla_met) ==
  LET rows == [c \in Counterparties |-> row(c, now, exposure)]
      raised == {c \in Counterparties : rows[c].call_raised}
      new == [c \in raised |-> call_row(c, now, rows[c], sla_met[c])]
  IN /\ day' = rows
     /\ calls' = calls \cup {new[c] : c \in raised}
     /\ pending' = [c \in Counterparties |-> IF c \in raised THEN rows[c].call_due
                                  ELSE IF c \in settling(now) THEN 0 ELSE pending[c]]
     /\ settle_day' = [c \in Counterparties |-> IF c \in raised THEN new[c].settle_day
                                     ELSE IF c \in settling(now) THEN -1 ELSE settle_day[c]]
     /\ collateral' = [c \in Counterparties |->
          rows[c].collateral - returned(c, now, rows[c], c \in raised \/ still_open(c, now))]
     /\ started' = TRUE

(***************************************************************************)
(* The walk and what is written of it.                                     *)
(***************************************************************************)
\* The chunks that end before the date, skipped one by one.
next_position(date) ==
  LET ahead == {p \in position..Len(wanted) : date <= wanted[p].end}
  IN IF ahead = {} THEN Len(wanted) + 1 ELSE CHOOSE p \in ahead : \A q \in ahead : p <= q

closed(p) ==
  IF p # position /\ file # NoFile
  THEN Append(yielded, [chunk |-> wanted[position].name, days |-> file]) ELSE yielded

\* The day past a chunk's end closes its file and is itself not written.
WriteDay_Closes(now) ==
  LET p == next_position(Dates[now])
      open == IF p = position THEN file ELSE NoFile
  IN /\ position' = p
     /\ yielded' = closed(p)
     /\ file' = IF p > Len(wanted) \/ Dates[now] < wanted[p].start \/ p # position
                THEN open ELSE Append(open, now)

WriteDay(now) ==
  LET p == next_position(Dates[now])
      open == IF p = position THEN file ELSE NoFile
  IN /\ position' = p
     /\ yielded' = closed(p)
     /\ file' = IF p > Len(wanted) \/ Dates[now] < wanted[p].start THEN open ELSE Append(open, now)

\* A day before the window is skipped; the walk ends with the prices, the
\* window, or the last chunk asked for.
Before(now) == Dates[now] < SIM_START_DATE
Walking == walked + 1 \in Days /\ Dates[walked + 1] <= SIM_END_DATE /\ position <= Len(wanted)

Skip ==
  /\ Walking /\ Before(walked + 1)
  /\ walked' = walked + 1
  /\ UNCHANGED <<book, wanted, started, collateral, pending, settle_day, day, calls, position, file, yielded>>

Step ==
  /\ Walking /\ ~Before(walked + 1)
  /\ walked' = walked + 1
  /\ \E exposure \in [Counterparties -> Exposures], sla_met \in [Counterparties -> BOOLEAN] :
       Walk(walked + 1, exposure, sla_met)
  /\ WriteDay(walked + 1)
  /\ UNCHANGED <<book, wanted>>

\* The last file, after the loop.
Close ==
  /\ ~Walking /\ file # NoFile
  /\ yielded' = Append(yielded, [chunk |-> wanted[position].name, days |-> file])
  /\ file' = NoFile
  /\ UNCHANGED <<book, wanted, walked, started, collateral, pending, settle_day, day, calls, position>>

WalkNext == Skip \/ Step \/ Close

WalkSpec == WalkInit /\ [][WalkNext]_walkVars

(***************************************************************************)
(* Properties.                                                             *)
(***************************************************************************)
TypeOK ==
  /\ walked \in Days
  /\ started \in BOOLEAN
  /\ collateral \in [Counterparties -> Nat]
  /\ pending \in [Counterparties -> Nat]
  /\ settle_day \in [Counterparties -> {-1} \cup Days \cup {Len(Dates) + 1, Len(Dates) + 2}]
  /\ position \in 1..(Len(wanted) + 1)

\* An open call is the one its row describes, is still to be delivered, and
\* its delivery brings the collateral to what was required when it was
\* raised: nothing is returned, raised or delivered in between.
OpenCallCovers ==
  \A c \in Counterparties :
    IF settle_day[c] = -1 THEN pending[c] = 0
    ELSE /\ settle_day[c] > walked
         /\ \E k \in calls :
              /\ k.cp = c /\ k.settle_day = settle_day[c] /\ k.amount = pending[c]
              /\ collateral[c] + pending[c] = required_support(k.exposure, k.threshold)

\* Collateral held never falls below the day's requirement because of a
\* return, nor below nothing.
ReturnsKeepSupport ==
  day # NoDay =>
    \A c \in Counterparties : collateral[c] < day[c].collateral =>
      /\ collateral[c] >= day[c].required
      /\ settle_day[c] = -1

\* Every file holds the trading days of its chunk, each once, in order,
\* whichever chunks were asked for; the files follow each other in time; at
\* the end every chunk with a trading day has its file.
ChunksAreComplete ==
  /\ \A n \in DOMAIN yielded :
       /\ \E c \in ToSet(wanted) : /\ yielded[n].chunk = c.name
                                 /\ ToSet(yielded[n].days) = TradingDays(c) \ {1}
       /\ yielded[n].days # NoFile /\ Ascends(yielded[n].days)
  /\ \A m, n \in DOMAIN yielded : m < n =>
       \A i \in ToSet(yielded[m].days), j \in ToSet(yielded[n].days) : i < j
  /\ ~Walking /\ file = NoFile =>
       \A c \in ToSet(wanted) : TradingDays(c) \ {1} # {} =>
         \E n \in DOMAIN yielded : yielded[n].chunk = c.name

\* The row's CSA version is the only one in force on its day.
OneVersionInForce ==
  day # NoDay =>
    \A c \in Counterparties :
      {v.version : v \in {w \in ToSet(book[c].csa_versions) :
                            w.valid_from <= day[c].as_of /\ day[c].as_of <= w.valid_to}}
        = {day[c].csa_version}

\* Day by day, the book's calls, collateral and terms belong together.
WalkIsConsistent == TypeOK /\ OpenCallCovers /\ ReturnsKeepSupport /\ OneVersionInForce
=============================================================================
