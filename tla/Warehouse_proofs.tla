--------------------------- MODULE Warehouse_proofs ---------------------------
(***************************************************************************)
(* Proofs about Warehouse, for any loaders, tables, days, calls, terms,    *)
(* jobs and faults: a job nobody overlapped leaves its slices and reports  *)
(* with its own rows, once, and the CSA version its rows name is the one   *)
(* in force.                                                               *)
(***************************************************************************)
EXTENDS Warehouse, TLAPS, WellFoundedInduction, SequenceTheorems, FiniteSetTheorems

-----------------------------------------------------------------------------
(* The invariant.                                                          *)

CallStatus == {"none", "pending", "resolved"}
Version == [from : Nat, terms : TermsSets]
Run == [day : Nat, terms : TermsSets]

\* A version is never followed by an older one.
Chronological(history) ==
  \A i, j \in DOMAIN history : i <= j => history[i].from <= history[j].from

LiveJob ==
  {j \in [kind : {"live"}, asOf : Days, n : Nat, status : [Calls -> CallStatus], versions : Seq(Version)] :
     j.asOf > SimEnd /\ Chronological(j.versions)}
ChunkJob ==
  {j \in [kind : {"chunk"}, start : Days, end : Days] : j.start <= j.end /\ j.end <= SimEnd}
DimsJob == [kind : {"dims"}]
Job == LiveJob \cup ChunkJob \cup DimsJob

\* Whose rows a day of a fact table may hold.
Whose(d) == IF d <= SimEnd THEN "historical-sim" ELSE "live"
FactRow ==
  [book : Books] \cup [book : Books, csa : Nat] \cup [book : Books, csa : Nat, job : Nat]
    \cup [book : Books, calls : SUBSET [call : Calls, status : CallStatus]]
RowOf(d) == {r \in FactRow : r.book = Whose(d)}
DimRow ==
  [book : Books] \cup [book : Books, job : Nat] \cup SUBSET [number : Nat, from : Nat, to : Int]

TableStep == [op : {"delete", "load"}, table : FactTables \cup DimTables]
RefreshStep == [op : {"refresh"}, table : {"daily", "conc", "callRpt"}]
AnyStep == TableStep \cup RefreshStep

AppInv ==
  /\ today \in SimEnd..LastDay
  /\ status \in [Calls -> CallStatus]
  /\ runs \in Seq(Run)
  /\ \A i, j \in DOMAIN runs : i <= j => runs[i].day <= runs[j].day
  /\ \A i \in DOMAIN runs : runs[i].day <= today

TablesInv ==
  /\ facts \in [FactTables -> [Days -> Seq(FactRow)]]
  /\ \A t \in FactTables : \A d \in Days : facts[t][d] \in Seq(RowOf(d))
  /\ dims \in [Books -> [DimTables -> Seq(DimRow)]]
  /\ daily \in [Days -> Seq(FactRow)] /\ callRpt \in [Days -> Seq(FactRow)]
  /\ DOMAIN conc = {Month(d) : d \in Days}

\* How many of its steps a loader's job has taken.
Taken(w) == loader[w].steps - Len(loader[w].todo)

\* A job that runs or is done has taken the first of its steps and has the
\* others to do.
InStep(w) ==
  /\ loader[w].job \in Job
  /\ loader[w].steps = Len(Steps(loader[w].job))
  /\ Taken(w) \in 0..loader[w].steps
  /\ \A i \in 1..Len(loader[w].todo) : loader[w].todo[i] = Steps(loader[w].job)[Taken(w) + i]

LoaderInv(w) ==
  /\ loader[w] \in [job : Job \cup {NoJob}, todo : Seq(AnyStep), steps : Nat,
                    state : {"idle", "running", "done", "failed"}, alone : BOOLEAN]
  /\ loader[w].state = "running" <=> loader[w].todo # <<>>
  /\ IF loader[w].state \in {"running", "done"} THEN InStep(w)
     ELSE loader[w].job = NoJob /\ ~loader[w].alone

\* Whoever overlapped a job is none of those that run while it is alone.
AloneInv == \A w \in Loaders : loader[w].alone => \A u \in Loaders \ {w} : loader[u].state # "running"

Deleted(t) == [op |-> "delete", table |-> t]
Loaded(t) == [op |-> "load", table |-> t]
Refreshed(t) == [op |-> "refresh", table |-> t]

\* After k steps of its job S a table that was loaded holds the job's rows,
\* or nothing when it was deleted a second time just now ...
FactsWritten(job, S, k) ==
  \A t \in FactTables : \A d \in Slice(job, t) :
    /\ k >= 1 /\ S[k] = Deleted(t) => facts[t][d] = <<>>
    /\ (\E i \in 1..k : S[i] = Loaded(t)) => facts[t][d] = Rows(job, t, d) \/ S[k] = Deleted(t)
DimsWritten(job, S, k) ==
  \A t \in DimTables :
    /\ k >= 1 /\ S[k] = Deleted(t) => dims[BookOf(job)][t] = <<>>
    /\ (\E i \in 1..k : S[i] = Loaded(t)) =>
         dims[BookOf(job)][t] = dimension_rows(job, t) \/ S[k] = Deleted(t)
\* ... and a report that was refreshed says what the fact tables say.
ReportsWritten(job, S, k) ==
  /\ (\E i \in 1..k : S[i] = Refreshed("daily")) =>
       \A d \in ReportStart(job)..ReportEnd(job) : daily[d] = facts["exposure"][d]
  /\ (\E i \in 1..k : S[i] = Refreshed("callRpt")) =>
       \A d \in Days : Month(d) \in Months(job) => callRpt[d] = facts["call"][d]
  /\ (\E i \in 1..k : S[i] = Refreshed("conc")) =>
       \A mo \in Months(job) : conc[mo] = Concentration(mo)

Written(w) ==
  loader[w].alone =>
    /\ loader[w].job.kind \in {"live", "chunk"} =>
         /\ FactsWritten(loader[w].job, Steps(loader[w].job), Taken(w))
         /\ ReportsWritten(loader[w].job, Steps(loader[w].job), Taken(w))
    /\ loader[w].job.kind \in {"live", "dims"} =>
         DimsWritten(loader[w].job, Steps(loader[w].job), Taken(w))

WareInv ==
  /\ AppInv /\ TablesInv
  /\ jobs \in Nat /\ loader = [w \in Loaders |-> loader[w]]
  /\ \A w \in Loaders : LoaderInv(w) /\ Written(w)
  /\ AloneInv

-----------------------------------------------------------------------------
(* Recursion along a sequence.                                             *)

\* A nonempty set of naturals has a least element.
LEMMA LeastOf ==
  ASSUME NEW T \in SUBSET Nat, T # {}
  PROVE  \E t \in T : \A u \in T : t <= u
<1> DEFINE R == OpToRel(<, Nat)
<1>1. IsWellFoundedOn(R, Nat)
  BY NatLessThanWellFounded, Zenon
<1>2. \A i, j \in Nat : <<j, i>> \in R <=> j < i
  BY DEF OpToRel
<1> HIDE DEF R
<1>3. \E t \in T : \A u \in T : ~(<<u, t>> \in R)
  BY <1>1, WFMin
<1>4. PICK t \in T : \A u \in T : ~(<<u, t>> \in R)
  BY <1>3
<1>5. \A u \in T : ~(u < t)
  BY <1>2, <1>4
<1> QED
  BY <1>5

\* Values x[0], x[1], ... x[n], each made of the one before it by f[i].
Chain(x, n, a, f) == x[0] = a /\ \A i \in 1..n : x[i] = f[i][x[i - 1]]

\* There are such values, of a set the functions f[i] do not leave.
LEMMA ChainExists ==
  ASSUME NEW S, NEW a \in S, NEW N \in Nat, NEW f \in [1..N -> [S -> S]]
  PROVE  \E x \in [0..N -> S] : Chain(x, N, a, f)
<1> DEFINE Broken == {n \in 0..N : ~ \E x \in [0..n -> S] : Chain(x, n, a, f)}
<1>1. CASE Broken = {}
  BY <1>1
<1>2. CASE Broken # {}
  <2>1. PICK n \in Broken : \A u \in Broken : n <= u
    <3>1. Broken \in SUBSET Nat
      OBVIOUS
    <3> HIDE DEF Broken
    <3> QED
      BY <1>2, <3>1, LeastOf
  <2>2. CASE n = 0
    <3>1. Chain([i \in 0..0 |-> a], 0, a, f) /\ [i \in 0..0 |-> a] \in [0..0 -> S]
      BY DEF Chain
    <3> QED
      BY <2>2, <3>1
  <2>3. CASE n # 0
    <3>1. n - 1 \in 0..N /\ ~(n - 1 \in Broken)
      BY <2>1, <2>3
    <3>2. PICK x \in [0..(n - 1) -> S] : Chain(x, n - 1, a, f)
      BY <3>1
    <3> DEFINE y == [i \in 0..n |-> IF i = n THEN f[n][x[n - 1]] ELSE x[i]]
    <3>3. y \in [0..n -> S]
      BY <2>1, <2>3, <3>2
    <3>4. y[0] = a
      BY <2>1, <2>3, <3>2 DEF Chain
    <3>5. ASSUME NEW i \in 1..n PROVE y[i] = f[i][y[i - 1]]
      <4>1. CASE i = n
        BY <2>1, <2>3, <4>1
      <4>2. CASE i # n
        <5>1. i \in 1..(n - 1) /\ i \in 0..n /\ i - 1 \in 0..n /\ i - 1 # n
          BY <2>1, <4>2
        <5>2. x[i] = f[i][x[i - 1]]
          BY <3>2, <5>1 DEF Chain
        <5> QED
          BY <4>2, <5>1, <5>2
      <4> QED
        BY <4>1, <4>2
    <3> HIDE DEF y
    <3> QED
      BY <2>1, <3>3, <3>4, <3>5 DEF Chain
  <2> QED
    BY <2>2, <2>3
<1> QED
  BY <1>1, <1>2

\* What the versions of a history become with one more run.
NextVersions(h, r) ==
  IF h = <<>> \/ Last(h).terms # r.terms THEN Append(h, [from |-> r.day, terms |-> r.terms]) ELSE h

\* The versions of a history of runs, run by run.
LEMMA VersionsByRun ==
  ASSUME NEW rs \in Seq(Run)
  PROVE  \E x \in [0..Len(rs) -> Seq(Version)] :
           /\ x[0] = <<>> /\ \A i \in 1..Len(rs) : x[i] = NextVersions(x[i - 1], rs[i])
           /\ csa_versions(rs) = x[Len(rs)]
<1> DEFINE N == Len(rs)
           f == [i \in 1..N |-> [h \in Seq(Version) |-> NextVersions(h, rs[i])]]
<1>1. N \in Nat /\ <<>> \in Seq(Version)
  BY LenProperties
<1>2. f \in [1..N -> [Seq(Version) -> Seq(Version)]]
  <2> SUFFICES ASSUME NEW i \in 1..N, NEW h \in Seq(Version) PROVE NextVersions(h, rs[i]) \in Seq(Version)
    OBVIOUS
  <2>1. [from |-> rs[i].day, terms |-> rs[i].terms] \in Version
    <3>1. rs[i] \in Run
      BY ElementOfSeq
    <3> QED
      BY <3>1 DEF Run, Version
  <2> QED
    BY <2>1, AppendProperties DEF NextVersions
<1>3. PICK x \in [0..N -> Seq(Version)] : Chain(x, N, <<>>, f)
  BY <1>1, <1>2, ChainExists
<1>4. \A i \in 1..N : x[i] = NextVersions(x[i - 1], rs[i])
  <2> TAKE i \in 1..N
  <2>1. i - 1 \in 0..N
    BY <1>1
  <2> QED
    BY <1>3, <2>1 DEF Chain
<1> DEFINE g == [n \in 0..N |->
             IF n = 0 THEN <<>>
             ELSE IF x[n - 1] = <<>> \/ Last(x[n - 1]).terms # rs[n].terms
                  THEN Append(x[n - 1], [from |-> rs[n].day, terms |-> rs[n].terms])
                  ELSE x[n - 1]]
<1>5. x = g
  <2>1. \A n \in 0..N : x[n] = g[n]
    <3> TAKE n \in 0..N
    <3>1. CASE n = 0
      BY <1>3, <3>1 DEF Chain
    <3>2. CASE n # 0
      <4>1. n \in 1..N
        BY <1>1, <3>2
      <4> QED
        BY <1>4, <3>2, <4>1 DEF NextVersions
    <3> QED
      BY <3>1, <3>2
  <2> QED
    BY <1>3, <2>1
<1> QED
  <2> DEFINE Fits(y) == y = [n \in 0..N |->
             IF n = 0 THEN <<>>
             ELSE IF y[n - 1] = <<>> \/ Last(y[n - 1]).terms # rs[n].terms
                  THEN Append(y[n - 1], [from |-> rs[n].day, terms |-> rs[n].terms])
                  ELSE y[n - 1]]
  <2>1. csa_versions(rs) = (CHOOSE y : Fits(y))[N]
    BY Zenon DEF csa_versions
  <2>2. Fits(x)
    BY <1>5
  <2> DEFINE z == CHOOSE y : Fits(y)
  <2>3. Fits(z)
    <3> HIDE DEF Fits
    <3> QED
      BY <2>2
  <2> HIDE DEF z
  <2> DEFINE Apart == {n \in 0..N : x[n] # z[n]}
  <2>4. CASE Apart # {}
    <3>1. PICK n \in Apart : \A u \in Apart : n <= u
      <4>1. Apart \in SUBSET Nat
        OBVIOUS
      <4> HIDE DEF Apart
      <4> QED
        BY <2>4, <4>1, LeastOf
    <3>2. CASE n = 0
      <4>1. x[0] = <<>> /\ z[0] = <<>>
        BY <1>1, <1>3, <2>3 DEF Chain
      <4> QED
        BY <3>1, <3>2, <4>1
    <3>3. CASE n # 0
      <4>1. n \in 1..N /\ n - 1 \in 0..N
        BY <1>1, <3>1, <3>3
      <4>2. x[n - 1] = z[n - 1]
        BY <3>1, <4>1
      <4>3. z[n] = NextVersions(z[n - 1], rs[n])
        BY <2>3, <3>3, <4>1 DEF NextVersions
      <4> QED
        BY <1>4, <3>1, <4>1, <4>2, <4>3
    <3> QED
      BY <3>2, <3>3
  <2>5. CASE Apart = {}
    <3>1. N \in 0..N
      BY <1>1
    <3>2. x[N] = z[N]
      BY <2>5, <3>1
    <3>3. csa_versions(rs) = z[N]
      BY <2>1 DEF z
    <3> HIDE DEF f, g, Fits, Apart
    <3> QED
      BY <1>3, <1>4, <3>2, <3>3 DEF Chain
  <2> QED
    BY <2>4, <2>5

\* The versions of runs in order are in order, and none is younger than the
\* last run.
LEMMA VersionsChronological ==
  ASSUME NEW rs \in Seq(Run), \A i, j \in DOMAIN rs : i <= j => rs[i].day <= rs[j].day
  PROVE  csa_versions(rs) \in Seq(Version) /\ Chronological(csa_versions(rs))
<1> DEFINE N == Len(rs)
<1>1. PICK x \in [0..N -> Seq(Version)] :
           /\ x[0] = <<>> /\ \A i \in 1..N : x[i] = NextVersions(x[i - 1], rs[i])
           /\ csa_versions(rs) = x[N]
  BY VersionsByRun
<1>2. N \in Nat /\ DOMAIN rs = 1..N
  BY LenProperties
<1> DEFINE Good(n) == /\ Chronological(x[n])
                      /\ \A i \in DOMAIN x[n] : \A j \in n..N : j # 0 => x[n][i].from <= rs[j].day
           Bad == {n \in 0..N : ~Good(n)}
<1>3. CASE Bad = {}
  <2>1. N \in 0..N
    BY <1>2
  <2> QED
    BY <1>1, <1>3, <2>1
<1>4. CASE Bad # {}
  <2>1. PICK n \in Bad : \A u \in Bad : n <= u
    <3>1. Bad \in SUBSET Nat
      OBVIOUS
    <3> HIDE DEF Bad
    <3> QED
      BY <1>4, <3>1, LeastOf
  <2>2. n # 0
    <3>1. SUFFICES ASSUME n = 0 PROVE FALSE
      OBVIOUS
    <3>2. DOMAIN x[0] = {}
      BY <1>1
    <3> QED
      BY <2>1, <3>1, <3>2 DEF Chronological
  <2>3. n \in 1..N /\ n - 1 \in 0..N
    BY <1>2, <2>1, <2>2
  <2>4. Good(n - 1)
    BY <2>1, <2>3
  <2> DEFINE h == x[n - 1]
             v == [from |-> rs[n].day, terms |-> rs[n].terms]
  <2>5. h \in Seq(Version) /\ rs[n] \in Run /\ v \in Version
    <3>1. rs[n] \in Run
      BY <1>2, <2>3, ElementOfSeq
    <3> QED
      BY <1>1, <2>3, <3>1 DEF Run, Version
  <2>6. CASE x[n] = h
    <3>1. \A j \in n..N : j \in (n - 1)..N
      BY <2>3
    <3> QED
      BY <2>1, <2>4, <2>6, <3>1
  <2>7. CASE x[n] = Append(h, v)
    <3>1. /\ DOMAIN h = 1..Len(h) /\ DOMAIN x[n] = 1..(Len(h) + 1) /\ Len(h) \in Nat
          /\ x[n][Len(h) + 1] = v /\ \A i \in 1..Len(h) : x[n][i] = h[i]
      BY <2>5, <2>7, AppendProperties, LenProperties
    <3>2. ASSUME NEW i \in DOMAIN x[n], NEW j \in n..N PROVE x[n][i].from <= rs[j].day
      <4>1. CASE i = Len(h) + 1
        <5>1. n \in DOMAIN rs /\ j \in DOMAIN rs /\ n <= j
          BY <1>2, <2>3
        <5>2. x[n][i].from = rs[n].day
          BY <3>1, <4>1
        <5> QED
          BY <5>1, <5>2
      <4>2. CASE i # Len(h) + 1
        <5>1. i \in DOMAIN h /\ j \in (n - 1)..N /\ j # 0
          BY <2>3, <3>1, <4>2
        <5> QED
          BY <2>4, <3>1, <5>1
      <4> QED
        BY <4>1, <4>2
    <3>3. ASSUME NEW i \in DOMAIN x[n], NEW j \in DOMAIN x[n], i <= j PROVE x[n][i].from <= x[n][j].from
      <4>1. CASE j = Len(h) + 1
        <5>1. n \in n..N
          BY <2>3
        <5>2. x[n][j].from = rs[n].day
          BY <3>1, <4>1
        <5> QED
          BY <3>2, <5>1, <5>2
      <4>2. CASE j # Len(h) + 1
        <5>1. i \in DOMAIN h /\ j \in DOMAIN h
          BY <3>1, <3>3, <4>2, SMTT(30)
        <5> QED
          BY <2>4, <3>1, <3>3, <5>1 DEF Chronological
      <4> QED
        BY <4>1, <4>2
    <3> QED
      BY <2>1, <3>2, <3>3 DEF Chronological
  <2> QED
    BY <1>1, <2>3, <2>6, <2>7 DEF NextVersions
<1> QED
  BY <1>3, <1>4

\* A nonempty set of numbers up to n has a greatest element.
LEMMA GreatestOf ==
  ASSUME NEW n \in Nat, NEW S \in SUBSET (1..n), S # {}
  PROVE  \E m \in S : \A i \in S : i <= m
<1> DEFINE T == {n - i : i \in S}
<1>1. T \in SUBSET Nat /\ T # {}
  <2>1. \A i \in S : n - i \in Nat /\ n - i \in T
    BY SMT
  <2>2. PICK k \in S : TRUE
    OBVIOUS
  <2>3. T # {}
    BY <2>1, <2>2, Zenon
  <2>4. ASSUME NEW t \in T PROVE t \in Nat
    <3>1. PICK i \in S : t = n - i
      BY <2>4, Zenon
    <3> QED
      BY <2>1, <3>1
  <2> QED
    BY <2>3, <2>4
<1>2. PICK t \in T : \A u \in T : t <= u
  <2> HIDE DEF T
  <2> QED
    BY <1>1, LeastOf
<1>3. PICK m \in S : t = n - m
  OBVIOUS
<1>4. \A i \in S : n - i \in T
  OBVIOUS
<1>5. \A i \in S : i <= m
  BY <1>2, <1>3, <1>4
<1> QED
  BY <1>5

\* Of versions in order exactly one is in force on a day, the one terms_on
\* names, unless the first starts later.
LEMMA OneVersionInForce ==
  ASSUME NEW h \in Seq(Version), Chronological(h), NEW d \in Days
  PROVE  /\ terms_on(h, d) \in 0..Len(h)
         /\ LET inForce == {r \in csa_rows(h) : r.from <= d /\ d <= r.to}
            IN \/ inForce = {} /\ \A r \in csa_rows(h) : r.from > d
               \/ {r.number : r \in inForce} = {terms_on(h, d)}
<1> DEFINE M == {n \in DOMAIN h : h[n].from <= d}
           Row(n) == [number |-> n, from |-> h[n].from,
                      to |-> IF n = Len(h) THEN LastDay ELSE h[n + 1].from - 1]
           In == {r \in csa_rows(h) : r.from <= d /\ d <= r.to}
<1>1. /\ Len(h) \in Nat /\ DOMAIN h = 1..Len(h) /\ LastDay \in Nat /\ d \in 1..LastDay
      /\ \A n \in 1..Len(h) : h[n].from \in Nat
  <2>1. \A n \in 1..Len(h) : h[n] \in Version
    BY ElementOfSeq
  <2> QED
    BY <2>1, LenProperties, DaysAssumption DEF Version, Days
<1>2. csa_rows(h) = {Row(n) : n \in DOMAIN h}
  BY DEF csa_rows
<1>3. CASE M = {}
  <2>1. \A n \in DOMAIN h : h[n].from > d
    BY <1>1, <1>3
  <2>2. \A r \in csa_rows(h) : r.from > d
    BY <1>2, <2>1
  <2>3. terms_on(h, d) \in {0, 1} /\ (h = <<>> => terms_on(h, d) = 0)
    BY <1>3 DEF terms_on
  <2>4. h # <<>> => Len(h) >= 1
    BY <1>1, EmptySeq, LenProperties
  <2>5. In = {}
    BY <1>1, <1>2, <2>1
  <2> QED
    BY <1>1, <2>2, <2>3, <2>4, <2>5
<1>4. CASE M # {}
  <2>1. PICK m \in M : \A o \in M : o <= m
    BY <1>1, <1>4, GreatestOf
  <2>2. terms_on(h, d) = m
    <3>1. h # <<>>
      BY <1>1, <1>4
    <3>2. terms_on(h, d) = CHOOSE n \in M : \A o \in M : o <= n
      BY <1>4, <3>1 DEF terms_on
    <3>3. \A n \in M : (\A o \in M : o <= n) => n = m
      BY <1>1, <2>1
    <3> HIDE DEF M
    <3> QED
      BY <2>1, <3>2, <3>3
  <2>3. Row(m) \in In
    <3>1. CASE m = Len(h)
      BY <1>1, <1>2, <2>1, <3>1
    <3>2. CASE m # Len(h)
      <4>1. m + 1 \in DOMAIN h /\ ~(m + 1 \in M)
        BY <1>1, <2>1, <3>2
      <4>2. h[m + 1].from > d
        BY <1>1, <4>1
      <4> QED
        BY <1>1, <1>2, <2>1, <3>2, <4>1, <4>2
    <3> QED
      BY <3>1, <3>2
  <2>4. ASSUME NEW n \in DOMAIN h, Row(n) \in In PROVE n = m
    <3>1. h[n].from <= d /\ n \in M /\ n <= m
      BY <1>1, <2>1, <2>4
    <3>2. SUFFICES ASSUME n # m PROVE FALSE
      OBVIOUS
    <3>3. n < m /\ n + 1 \in DOMAIN h /\ n # Len(h) /\ m \in DOMAIN h
      BY <1>1, <2>1, <3>1, <3>2
    <3>4. h[n + 1].from <= h[m].from /\ h[m].from <= d
      BY <1>1, <2>1, <3>3 DEF Chronological
    <3>5. d <= h[n + 1].from - 1
      BY <2>4, <3>3
    <3> QED
      BY <1>1, <3>3, <3>4, <3>5
  <2>5. {r.number : r \in In} = {m}
    <3>1. \A r \in In : r.number = m
      BY <1>2, <2>4
    <3>2. Row(m).number = m
      OBVIOUS
    <3> HIDE DEF In, Row
    <3> QED
      BY <2>3, <3>1, <3>2
  <2>6. terms_on(h, d) \in 0..Len(h)
    BY <1>1, <2>1, <2>2
  <2>7. {r.number : r \in In} = {terms_on(h, d)}
    BY <2>2, <2>5
  <2> QED
    BY <2>6, <2>7, Zenon
<1> QED
  BY <1>3, <1>4

-----------------------------------------------------------------------------
(* The steps of a job.                                                     *)

\* Each table is loaded right after it was deleted.
Paired(S) ==
  \A i \in 1..Len(S) :
    /\ S[i].op = "delete" => i + 1 \in 1..Len(S) /\ S[i + 1] = Loaded(S[i].table)
    /\ S[i].op = "load" => i - 1 \in 1..Len(S) /\ S[i - 1] = Deleted(S[i].table)

Loads(S, T) == \A t \in T : \E i \in 1..Len(S) : S[i] = Loaded(t)

StepsOver(T) == [op : {"delete", "load"}, table : T]

\* The steps that replace tables delete each one and then load it.
LEMMA ReplacePairs ==
  ASSUME NEW T, NEW order \in Seq(T)
  PROVE  /\ ReplaceSteps(order) \in Seq(StepsOver(T))
         /\ Paired(ReplaceSteps(order))
         /\ Loads(ReplaceSteps(order), ToSet(order))
<1> DEFINE N == Len(order)
           S == ReplaceSteps(order)
<1>1. N \in Nat /\ DOMAIN order = 1..N /\ \A n \in 1..N : order[n] \in T
  BY LenProperties, ElementOfSeq
<1>2. ASSUME NEW i \in 1..2 * N PROVE (i + 1) \div 2 \in 1..N
  BY <1>1
<1>3. S = [i \in 1..2 * N |-> [op |-> IF i % 2 = 1 THEN "delete" ELSE "load", table |-> order[(i + 1) \div 2]]]
  BY DEF ReplaceSteps
<1>4. 2 * N \in Nat
  BY <1>1
<1>5. \A i \in 1..2 * N : S[i] \in StepsOver(T)
  <2> TAKE i \in 1..2 * N
  <2>1. order[(i + 1) \div 2] \in T
    BY <1>1, <1>2
  <2> QED
    BY <1>3, <2>1 DEF StepsOver
<1>6. S \in Seq(StepsOver(T)) /\ Len(S) = 2 * N
  <2>1. S \in [1..2 * N -> StepsOver(T)]
    BY <1>3, <1>5
  <2> HIDE DEF S
  <2>2. S \in Seq(StepsOver(T))
    BY <1>4, <2>1, SeqDef
  <2>3. Len(S) \in Nat /\ DOMAIN S = 1..Len(S) /\ DOMAIN S = 1..2 * N
    BY <2>1, <2>2, LenProperties
  <2>4. ASSUME NEW m \in Nat, NEW n \in Nat, 1..m = 1..n PROVE m = n
    <3>1. m \in 1..m \/ m = 0
      OBVIOUS
    <3>2. n \in 1..n \/ n = 0
      OBVIOUS
    <3>3. (m \in 1..n \/ m = 0) /\ (n \in 1..m \/ n = 0)
      BY <2>4, <3>1, <3>2
    <3> QED
      BY <3>3
  <2> QED
    BY <1>4, <2>2, <2>3, <2>4
<1> HIDE DEF S
<1>7. Paired(S)
  <2> SUFFICES ASSUME NEW i \in 1..2 * N
               PROVE  /\ S[i].op = "delete" => i + 1 \in 1..2 * N /\ S[i + 1] = Loaded(S[i].table)
                      /\ S[i].op = "load" => i - 1 \in 1..2 * N /\ S[i - 1] = Deleted(S[i].table)
    BY <1>6 DEF Paired
  <2>1. CASE i % 2 = 1
    <3>1. i + 1 \in 1..2 * N /\ (i + 1) % 2 # 1 /\ (i + 1 + 1) \div 2 = (i + 1) \div 2
      BY <1>1, <2>1
    <3> QED
      BY <1>3, <2>1, <3>1 DEF Loaded
  <2>2. CASE i % 2 # 1
    <3>1. i - 1 \in 1..2 * N /\ (i - 1) % 2 = 1 /\ (i - 1 + 1) \div 2 = (i + 1) \div 2
      BY <1>1, <2>2
    <3> QED
      BY <1>3, <2>2, <3>1 DEF Deleted
  <2> QED
    BY <2>1, <2>2
<1>8. Loads(S, ToSet(order))
  <2> SUFFICES ASSUME NEW n \in 1..N PROVE S[2 * n] = Loaded(order[n]) /\ 2 * n \in 1..2 * N
    BY <1>1, <1>6 DEF Loads, ToSet
  <2>1. 2 * n \in 1..2 * N /\ (2 * n) % 2 # 1 /\ (2 * n + 1) \div 2 = n
    BY <1>1
  <2> QED
    BY <1>3, <2>1 DEF Loaded
<1> QED
  BY <1>6, <1>7, <1>8 DEF S

\* Two lists of such steps, one after the other.
LEMMA PairedConcat ==
  ASSUME NEW T, NEW a \in Seq(T), NEW b \in Seq(T), Paired(a), Paired(b)
  PROVE  /\ a \o b \in Seq(T) /\ Len(a \o b) = Len(a) + Len(b) /\ Paired(a \o b)
         /\ \A i \in 1..Len(a) : (a \o b)[i] = a[i]
         /\ \A i \in 1..Len(b) : (a \o b)[Len(a) + i] = b[i]
         /\ \A U : Loads(a, U) \/ Loads(b, U) => Loads(a \o b, U)
<1> DEFINE s == a \o b
<1>1. /\ s \in Seq(T) /\ Len(s) = Len(a) + Len(b) /\ Len(a) \in Nat /\ Len(b) \in Nat
      /\ \A i \in 1..Len(a) : s[i] = a[i]
      /\ \A i \in 1..Len(b) : s[Len(a) + i] = b[i]
  <2>1. \A i \in 1..Len(a) + Len(b) : s[i] = IF i <= Len(a) THEN a[i] ELSE b[i - Len(a)]
    BY ConcatProperties
  <2>2. s \in Seq(T) /\ Len(s) = Len(a) + Len(b) /\ Len(a) \in Nat /\ Len(b) \in Nat
    BY ConcatProperties, LenProperties
  <2>3. \A i \in 1..Len(a) : s[i] = a[i]
    BY <2>1, <2>2
  <2>4. ASSUME NEW i \in 1..Len(b) PROVE s[Len(a) + i] = b[i]
    <3>1. Len(a) + i \in 1..Len(a) + Len(b) /\ ~(Len(a) + i <= Len(a)) /\ Len(a) + i - Len(a) = i
      BY <2>2
    <3> HIDE DEF s
    <3> QED
      BY <2>1, <3>1
  <2> HIDE DEF s
  <2> QED
    BY <2>2, <2>3, <2>4
<1> HIDE DEF s
<1>2. Paired(s)
  <2> SUFFICES ASSUME NEW i \in 1..Len(s)
               PROVE  /\ s[i].op = "delete" => i + 1 \in 1..Len(s) /\ s[i + 1] = Loaded(s[i].table)
                      /\ s[i].op = "load" => i - 1 \in 1..Len(s) /\ s[i - 1] = Deleted(s[i].table)
    BY DEF Paired
  <2>1. CASE i <= Len(a)
    <3>1. i \in 1..Len(a) /\ s[i] = a[i]
      BY <1>1, <2>1
    <3>2. ASSUME s[i].op = "delete" PROVE i + 1 \in 1..Len(s) /\ s[i + 1] = Loaded(s[i].table)
      <4>1. i + 1 \in 1..Len(a) /\ a[i + 1] = Loaded(a[i].table)
        BY <3>1, <3>2 DEF Paired
      <4> QED
        BY <1>1, <3>1, <4>1
    <3>3. ASSUME s[i].op = "load" PROVE i - 1 \in 1..Len(s) /\ s[i - 1] = Deleted(s[i].table)
      <4>1. i - 1 \in 1..Len(a) /\ a[i - 1] = Deleted(a[i].table)
        BY <3>1, <3>3 DEF Paired
      <4> QED
        BY <1>1, <3>1, <4>1, SMTT(30)
    <3> QED
      BY <3>2, <3>3
  <2>2. CASE i > Len(a)
    <3> DEFINE j == i - Len(a)
    <3>1. j \in 1..Len(b) /\ s[i] = b[j] /\ i = Len(a) + j
      BY <1>1, <2>2
    <3> HIDE DEF j
    <3>2. ASSUME s[i].op = "delete" PROVE i + 1 \in 1..Len(s) /\ s[i + 1] = Loaded(s[i].table)
      <4>1. j + 1 \in 1..Len(b) /\ b[j + 1] = Loaded(b[j].table)
        BY <3>1, <3>2 DEF Paired
      <4>2. s[Len(a) + (j + 1)] = b[j + 1] /\ Len(a) + (j + 1) = i + 1
        BY <1>1, <3>1, <4>1
      <4> QED
        BY <1>1, <3>1, <4>1, <4>2
    <3>3. ASSUME s[i].op = "load" PROVE i - 1 \in 1..Len(s) /\ s[i - 1] = Deleted(s[i].table)
      <4>1. j - 1 \in 1..Len(b) /\ b[j - 1] = Deleted(b[j].table)
        BY <3>1, <3>3 DEF Paired
      <4>2. s[Len(a) + (j - 1)] = b[j - 1] /\ Len(a) + (j - 1) = i - 1
        BY <1>1, <3>1, <4>1, SMTT(30)
      <4> QED
        BY <1>1, <3>1, <4>1, <4>2
    <3> QED
      BY <3>2, <3>3
  <2> QED
    BY <1>1, <2>1, <2>2
<1>3. ASSUME NEW U, Loads(a, U) \/ Loads(b, U) PROVE Loads(s, U)
  <2> SUFFICES ASSUME NEW t \in U PROVE \E i \in 1..Len(s) : s[i] = Loaded(t)
    BY DEF Loads
  <2>1. CASE Loads(a, U)
    <3>1. PICK i \in 1..Len(a) : a[i] = Loaded(t)
      BY <2>1 DEF Loads
    <3> QED
      BY <1>1, <3>1
  <2>2. CASE Loads(b, U)
    <3>1. PICK i \in 1..Len(b) : b[i] = Loaded(t)
      BY <2>2 DEF Loads
    <3>2. Len(a) + i \in 1..Len(s) /\ s[Len(a) + i] = Loaded(t)
      BY <1>1, <3>1
    <3> QED
      BY <3>2
  <2> QED
    BY <1>3, <2>1, <2>2
<1> QED
  BY <1>1, <1>2, <1>3 DEF s

\* Reports are refreshed after every table was loaded.
RefreshesLast(S) ==
  \A i, j \in 1..Len(S) : i <= j /\ S[i].op = "refresh" => S[j].op = "refresh"

\* The three report tables, in the order the refresh replaces them.
LEMMA RefreshStepsSets ==
  /\ RefreshSteps \in Seq(RefreshStep) /\ Len(RefreshSteps) = 3
  /\ RefreshSteps[1] = Refreshed("daily") /\ RefreshSteps[2] = Refreshed("conc")
  /\ RefreshSteps[3] = Refreshed("callRpt")
<1>1. /\ RefreshSteps[1] = Refreshed("daily") /\ RefreshSteps[2] = Refreshed("conc")
      /\ RefreshSteps[3] = Refreshed("callRpt") /\ DOMAIN RefreshSteps = 1..3
  BY DEF RefreshSteps, Refreshed
<1>2. RefreshSteps \in [1..3 -> RefreshStep]
  BY DEF RefreshSteps, RefreshStep
<1>3. RefreshSteps \in Seq(RefreshStep)
  BY <1>2, SeqDef
<1> QED
  BY <1>1, <1>3, LenProperties

\* Then the reports, after a list of such steps.
LEMMA RefreshAfter ==
  ASSUME NEW T, T \subseteq FactTables \cup DimTables, NEW a \in Seq(StepsOver(T)), Paired(a)
  PROVE  LET s == a \o RefreshSteps IN
         /\ s \in Seq(AnyStep) /\ Paired(s) /\ RefreshesLast(s)
         /\ \A U : Loads(a, U) => Loads(s, U)
         /\ \A r \in {"daily", "conc", "callRpt"} : \E i \in 1..Len(s) : s[i] = Refreshed(r)
         /\ \A i \in 1..Len(s) : s[i] \in StepsOver(T) \cup RefreshStep
<1>1. a \in Seq(AnyStep) /\ RefreshSteps \in Seq(AnyStep)
  <2>1. StepsOver(T) \subseteq AnyStep /\ RefreshStep \subseteq AnyStep
    BY DEF StepsOver, AnyStep, TableStep
  <2> QED
    BY <2>1, RefreshStepsSets, SeqMonotonic
<1>2. Paired(RefreshSteps)
  BY RefreshStepsSets DEF Paired, Refreshed
<1> DEFINE s == a \o RefreshSteps
<1>3. /\ s \in Seq(AnyStep) /\ Len(s) = Len(a) + 3 /\ Paired(s) /\ Len(a) \in Nat
      /\ \A i \in 1..Len(a) : s[i] = a[i]
      /\ \A i \in 1..3 : s[Len(a) + i] = RefreshSteps[i]
      /\ \A U : Loads(a, U) \/ Loads(RefreshSteps, U) => Loads(s, U)
  <2>1. Len(RefreshSteps) = 3 /\ Len(a) \in Nat
    BY RefreshStepsSets, LenProperties
  <2>2. /\ s \in Seq(AnyStep) /\ Len(s) = Len(a) + Len(RefreshSteps) /\ Paired(s)
        /\ \A i \in 1..Len(a) : s[i] = a[i]
        /\ \A i \in 1..Len(RefreshSteps) : s[Len(a) + i] = RefreshSteps[i]
        /\ \A U : Loads(a, U) \/ Loads(RefreshSteps, U) => Loads(s, U)
    BY <1>1, <1>2, PairedConcat
  <2> HIDE DEF s
  <2> QED
    BY <2>1, <2>2
<1> HIDE DEF s
<1>4. \A i \in 1..Len(a) : s[i] \in StepsOver(T)
  BY <1>3, ElementOfSeq
<1>5. \A i \in Len(a) + 1..Len(a) + 3 : s[i] \in RefreshStep
  <2> TAKE i \in Len(a) + 1..Len(a) + 3
  <2>1. i - Len(a) \in 1..3 /\ Len(a) + (i - Len(a)) = i
    BY <1>3
  <2>2. RefreshSteps[i - Len(a)] \in RefreshStep
    BY <2>1, RefreshStepsSets, ElementOfSeq
  <2> QED
    BY <1>3, <2>1, <2>2
<1>6. \A i \in 1..Len(s) : s[i] \in StepsOver(T) \cup RefreshStep
  BY <1>3, <1>4, <1>5
<1>7. RefreshesLast(s)
  <2> SUFFICES ASSUME NEW i \in 1..Len(s), NEW j \in 1..Len(s), i <= j, s[i].op = "refresh"
               PROVE  s[j].op = "refresh"
    BY DEF RefreshesLast
  <2>1. ~(i \in 1..Len(a))
    BY <1>4 DEF StepsOver
  <2>2. j \in Len(a) + 1..Len(a) + 3
    BY <1>3, <2>1
  <2> QED
    BY <1>5, <2>2 DEF RefreshStep
<1>8. \A r \in {"daily", "conc", "callRpt"} : \E i \in 1..Len(s) : s[i] = Refreshed(r)
  <2>1. s[Len(a) + 1] = Refreshed("daily") /\ s[Len(a) + 2] = Refreshed("conc") /\ s[Len(a) + 3] = Refreshed("callRpt")
    BY <1>3, RefreshStepsSets
  <2>2. Len(a) + 1 \in 1..Len(s) /\ Len(a) + 2 \in 1..Len(s) /\ Len(a) + 3 \in 1..Len(s)
    BY <1>3
  <2> QED
    BY <2>1, <2>2
<1> QED
  BY <1>3, <1>6, <1>7, <1>8 DEF s

\* What holds of the steps of a job.
SoundSteps(job, S) ==
  /\ S \in Seq(AnyStep) /\ Paired(S) /\ RefreshesLast(S)
  /\ job.kind \in {"live", "chunk"} =>
       /\ Loads(S, FactTables)
       /\ \A r \in {"daily", "conc", "callRpt"} : \E i \in 1..Len(S) : S[i] = Refreshed(r)
  /\ job.kind \in {"live", "dims"} => Loads(S, DimTables)
  /\ job.kind = "chunk" => \A i \in 1..Len(S) : S[i] \in StepsOver(FactTables) \cup RefreshStep
  /\ job.kind = "dims" => \A i \in 1..Len(S) : S[i] \in StepsOver(DimTables)

\* The steps of every job pair a delete with its load, cover the job's tables
\* and refresh last.
LEMMA StepsAreSound ==
  ASSUME NEW job \in Job
  PROVE  SoundSteps(job, Steps(job))
<1>1. /\ LiveFacts \in Seq(FactTables) /\ ChunkFacts \in Seq(FactTables) /\ DimOrder \in Seq(DimTables)
      /\ ToSet(LiveFacts) = FactTables /\ ToSet(ChunkFacts) = FactTables /\ ToSet(DimOrder) = DimTables
  BY TablesAssumption DEF FactTables, DimTables
<1>2. DimSteps \in Seq(StepsOver(DimTables)) /\ Paired(DimSteps) /\ Loads(DimSteps, DimTables)
  BY <1>1, ReplacePairs DEF DimSteps
<1>3. CASE job \in LiveJob
  <2> DEFINE All == FactTables \cup DimTables
             a == ReplaceSteps(LiveFacts) \o DimSteps
  <2>1. /\ ReplaceSteps(LiveFacts) \in Seq(StepsOver(FactTables)) /\ Paired(ReplaceSteps(LiveFacts))
        /\ Loads(ReplaceSteps(LiveFacts), FactTables)
    BY <1>1, ReplacePairs
  <2>2. StepsOver(FactTables) \subseteq StepsOver(All) /\ StepsOver(DimTables) \subseteq StepsOver(All)
    BY DEF StepsOver
  <2>3. ReplaceSteps(LiveFacts) \in Seq(StepsOver(All)) /\ DimSteps \in Seq(StepsOver(All))
    BY <1>2, <2>1, <2>2, SeqMonotonic
  <2>4. a \in Seq(StepsOver(All)) /\ Paired(a) /\ Loads(a, FactTables) /\ Loads(a, DimTables)
    BY <1>2, <2>1, <2>3, PairedConcat
  <2> HIDE DEF a
  <2>5. /\ a \o RefreshSteps \in Seq(AnyStep) /\ Paired(a \o RefreshSteps) /\ RefreshesLast(a \o RefreshSteps)
        /\ \A U : Loads(a, U) => Loads(a \o RefreshSteps, U)
        /\ \A r \in {"daily", "conc", "callRpt"} :
             \E i \in 1..Len(a \o RefreshSteps) : (a \o RefreshSteps)[i] = Refreshed(r)
    BY <2>4, RefreshAfter
  <2>6. job.kind = "live"
    BY <1>3 DEF LiveJob
  <2>7. Steps(job) = a \o RefreshSteps
    BY <2>6 DEF Steps, LiveSteps, a
  <2> HIDE DEF All
  <2> QED
    BY <2>4, <2>5, <2>6, <2>7 DEF SoundSteps
<1>4. CASE job \in ChunkJob
  <2> DEFINE a == ReplaceSteps(ChunkFacts)
  <2>1. a \in Seq(StepsOver(FactTables)) /\ Paired(a) /\ Loads(a, FactTables)
    BY <1>1, ReplacePairs
  <2> HIDE DEF a
  <2>2. /\ a \o RefreshSteps \in Seq(AnyStep) /\ Paired(a \o RefreshSteps) /\ RefreshesLast(a \o RefreshSteps)
        /\ \A U : Loads(a, U) => Loads(a \o RefreshSteps, U)
        /\ \A r \in {"daily", "conc", "callRpt"} :
             \E i \in 1..Len(a \o RefreshSteps) : (a \o RefreshSteps)[i] = Refreshed(r)
        /\ \A i \in 1..Len(a \o RefreshSteps) : (a \o RefreshSteps)[i] \in StepsOver(FactTables) \cup RefreshStep
    BY <2>1, RefreshAfter
  <2>3. job.kind = "chunk"
    BY <1>4 DEF ChunkJob
  <2>4. Steps(job) = a \o RefreshSteps
    BY <2>3 DEF Steps, ChunkSteps, a
  <2> QED
    BY <2>1, <2>2, <2>3, <2>4 DEF SoundSteps
<1>5. CASE job \in DimsJob
  <2>1. job.kind = "dims"
    BY <1>5 DEF DimsJob
  <2>2. Steps(job) = DimSteps
    BY <2>1 DEF Steps
  <2>3. StepsOver(DimTables) \subseteq AnyStep
    BY DEF StepsOver, AnyStep, TableStep
  <2>4. DimSteps \in Seq(AnyStep)
    BY <1>2, <2>3, SeqMonotonic
  <2>5. \A i \in 1..Len(DimSteps) : DimSteps[i] \in StepsOver(DimTables)
    BY <1>2, ElementOfSeq
  <2>6. RefreshesLast(DimSteps)
    BY <2>5 DEF RefreshesLast, StepsOver
  <2> QED
    BY <1>2, <2>1, <2>2, <2>4, <2>5, <2>6 DEF SoundSteps
<1> QED
  BY <1>3, <1>4, <1>5 DEF Job

-----------------------------------------------------------------------------
(* What a job writes.                                                      *)

\* No row, or one.
LEMMA ShortSeqs ==
  ASSUME NEW T
  PROVE  <<>> \in Seq(T) /\ \A x \in T : <<x>> \in Seq(T)
OBVIOUS

\* The window of calls stays within the live book.
LEMMA WindowInBook ==
  ASSUME NEW d \in Days, d > SimEnd
  PROVE  WindowStart(d) \in SimEnd + 1..d /\ WindowStart(d) \in Days
BY DaysAssumption, WindowAssumption DEF WindowStart, Days

\* A job's slices are days of its own book, and so are its rows.
LEMMA RowsTyped ==
  ASSUME NEW job \in LiveJob \cup ChunkJob, NEW t \in FactTables, NEW d \in Slice(job, t)
  PROVE  d \in Days /\ (d <= SimEnd <=> job.kind = "chunk") /\ Rows(job, t, d) \in Seq(RowOf(d))
<1>1. CASE job \in LiveJob
  <2>1. job.kind = "live" /\ job.asOf \in Days /\ job.asOf > SimEnd /\ job.n \in Nat
        /\ job.status \in [Calls -> CallStatus] /\ job.versions \in Seq(Version) /\ Chronological(job.versions)
    BY <1>1 DEF LiveJob
  <2>2. d \in Days /\ d > SimEnd
    BY <2>1, WindowInBook, DaysAssumption DEF Slice, Days
  <2>3. Whose(d) = "live" /\ ~(d <= SimEnd)
    BY <2>2, DaysAssumption DEF Whose, Days
  <2>4. CASE t = "call"
    <3> DEFINE raised == {c \in Calls : job.status[c] # "none" /\ RaisedOn[c] = d}
               row == [book |-> "live", calls |-> {margin_call_row(job, c) : c \in raised}]
    <3>1. {margin_call_row(job, c) : c \in raised} \subseteq [call : Calls, status : CallStatus]
      BY <2>1 DEF margin_call_row
    <3>2. row \in FactRow /\ row.book = "live"
      BY <3>1 DEF FactRow, Books
    <3>3. row \in RowOf(d)
      BY <2>3, <3>2 DEF RowOf
    <3>4. Rows(job, t, d) = call_rows(job, d)
      BY <2>1, <2>4 DEF Rows
    <3>5. call_rows(job, d) \in {<<>>, <<row>>}
      BY DEF call_rows
    <3> HIDE DEF row
    <3> QED
      BY <2>1, <2>2, <2>3, <3>3, <3>4, <3>5, ShortSeqs
  <2>5. CASE t = "price"
    <3>1. Rows(job, t, d) = <<[book |-> "live"]>>
      BY <2>1, <2>5 DEF Rows, price_rows
    <3>2. [book |-> "live"] \in RowOf(d)
      BY <2>3 DEF RowOf, FactRow, Books
    <3> QED
      BY <2>1, <2>2, <2>3, <3>1, <3>2
  <2>6. CASE t \notin {"call", "price"}
    <3> DEFINE row == [book |-> "live", csa |-> terms_on(job.versions, d), job |-> job.n]
    <3>1. terms_on(job.versions, d) \in 0..Len(job.versions) /\ Len(job.versions) \in Nat
      BY <2>1, <2>2, OneVersionInForce, LenProperties
    <3>2. row \in FactRow /\ row.book = "live"
      BY <2>1, <3>1 DEF FactRow, Books
    <3>3. row \in RowOf(d)
      BY <2>3, <3>2 DEF RowOf
    <3>4. Rows(job, t, d) \in {<<>>, <<row>>}
      BY <2>1, <2>6 DEF Rows, exposure_and_positions
    <3> HIDE DEF row
    <3> QED
      BY <2>1, <2>2, <2>3, <3>3, <3>4, ShortSeqs
  <2> QED
    BY <2>4, <2>5, <2>6
<1>2. CASE job \in ChunkJob
  <2>1. job.kind = "chunk" /\ job.start \in Days /\ job.end \in Days /\ job.end <= SimEnd
    BY <1>2 DEF ChunkJob
  <2>2. d \in Days /\ d <= SimEnd
    BY <2>1, DaysAssumption DEF Slice, Days
  <2>3. Rows(job, t, d) = <<[book |-> "historical-sim"]>>
    BY <2>1 DEF Rows, chunk_rows
  <2>4. [book |-> "historical-sim"] \in RowOf(d)
    BY <2>2 DEF RowOf, FactRow, Books, Whose
  <2> QED
    BY <2>1, <2>2, <2>3, <2>4
<1> QED
  BY <1>1, <1>2

\* A job's dimensions are of its book.
LEMMA DimRowsTyped ==
  ASSUME NEW job \in LiveJob \cup DimsJob, NEW t \in DimTables
  PROVE  BookOf(job) \in Books /\ dimension_rows(job, t) \in Seq(DimRow)
<1>1. BookOf(job) \in Books
  BY DEF BookOf, Books
<1>2. CASE job \in DimsJob
  <2>1. dimension_rows(job, t) = <<[book |-> "historical-sim"]>>
    BY <1>2 DEF dimension_rows, DimsJob
  <2> QED
    BY <1>1, <2>1 DEF DimRow, Books
<1>3. CASE job \in LiveJob
  <2>1. job.kind = "live" /\ job.n \in Nat /\ job.versions \in Seq(Version)
    BY <1>3 DEF LiveJob
  <2>2. csa_rows(job.versions) \subseteq [number : Nat, from : Nat, to : Int]
    <3> DEFINE h == job.versions
    <3>1. DOMAIN h = 1..Len(h) /\ Len(h) \in Nat /\ LastDay \in Nat
      BY <2>1, LenProperties, DaysAssumption
    <3>2. \A n \in 1..Len(h) : h[n] \in Version
      BY <2>1, ElementOfSeq
    <3>3. \A n \in 1..Len(h) : h[n].from \in Nat
      BY <3>2 DEF Version
    <3> SUFFICES ASSUME NEW n \in 1..Len(h)
                 PROVE  [number |-> n, from |-> h[n].from,
                         to |-> IF n = Len(h) THEN LastDay ELSE h[n + 1].from - 1]
                          \in [number : Nat, from : Nat, to : Int]
      BY <3>1 DEF csa_rows
    <3>4. (IF n = Len(h) THEN LastDay ELSE h[n + 1].from - 1) \in Int
      <4>1. CASE n = Len(h)
        BY <3>1, <4>1
      <4>2. CASE n # Len(h)
        <5>1. n + 1 \in 1..Len(h)
          BY <3>1, <4>2
        <5>2. h[n + 1].from \in Nat
          BY <3>3, <5>1
        <5> QED
          BY <4>2, <5>2
      <4> QED
        BY <4>1, <4>2
    <3> QED
      BY <3>1, <3>3, <3>4
  <2>3. csa_rows(job.versions) \in DimRow
    BY <2>2 DEF DimRow
  <2>4. [book |-> "live", job |-> job.n] \in DimRow
    BY <2>1 DEF DimRow, Books
  <2>5. dimension_rows(job, t) \in {<<>>, <<csa_rows(job.versions)>>, <<[book |-> "live", job |-> job.n]>>}
    BY <2>1 DEF dimension_rows
  <2> QED
    BY <1>1, <2>3, <2>4, <2>5, ShortSeqs
<1> QED
  BY <1>2, <1>3

\* The three kinds of jobs.
LEMMA KindsOfJob ==
  ASSUME NEW job \in Job
  PROVE  /\ job.kind \in {"live", "chunk", "dims"}
         /\ job.kind = "live" <=> job \in LiveJob
         /\ job.kind = "chunk" <=> job \in ChunkJob
         /\ job.kind = "dims" <=> job \in DimsJob
BY DEF Job, LiveJob, ChunkJob, DimsJob

\* The three kinds of steps.
LEMMA StepFields ==
  ASSUME NEW t
  PROVE  /\ Deleted(t).op = "delete" /\ Loaded(t).op = "load" /\ Refreshed(t).op = "refresh"
         /\ Deleted(t).table = t /\ Loaded(t).table = t /\ Refreshed(t).table = t
BY DEF Deleted, Loaded, Refreshed

\* Around the k-th step of a job.
LEMMA AroundStep ==
  ASSUME NEW S \in Seq(AnyStep), Paired(S), NEW k \in Nat, k + 1 <= Len(S)
  PROVE  /\ S[k + 1] \in AnyStep /\ k + 1 \in 1..Len(S)
         /\ \A i \in 1..k + 1 : i \in 1..k \/ i = k + 1
         /\ \A t : k >= 1 /\ S[k] = Deleted(t) => S[k + 1] = Loaded(t)
         /\ \A t : S[k + 1] = Loaded(t) => k >= 1 /\ S[k] = Deleted(t)
<1>1. Len(S) \in Nat /\ k + 1 \in 1..Len(S)
  BY LenProperties
<1>2. S[k + 1] \in AnyStep
  BY <1>1, ElementOfSeq
<1>3. ASSUME NEW t, k >= 1, S[k] = Deleted(t) PROVE S[k + 1] = Loaded(t)
  <2>1. k \in 1..Len(S)
    BY <1>1, <1>3
  <2> QED
    BY <1>3, <2>1 DEF Paired, Deleted
<1>4. ASSUME NEW t, S[k + 1] = Loaded(t) PROVE k >= 1 /\ S[k] = Deleted(t)
  <2>1. k + 1 - 1 \in 1..Len(S) /\ S[k + 1 - 1] = Deleted(t)
    BY <1>1, <1>4 DEF Paired, Loaded
  <2> QED
    BY <2>1
<1> QED
  BY <1>1, <1>2, <1>3, <1>4

-----------------------------------------------------------------------------
(* One step of a job, seen from its tables.                                *)

\* What a delete does to each slice.
LEMMA DeleteEffect ==
  ASSUME TablesInv, NEW w \in Loaders, NEW job \in Job, NEW t \in FactTables \cup DimTables,
         loader[w].job = job, Step(w).table = t, DeletePartitions(w),
         job.kind = "dims" => t \in DimTables, job.kind = "chunk" => t \in FactTables
  PROVE  /\ t \in FactTables <=> t \notin DimTables
         /\ facts' \in [FactTables -> [Days -> Seq(FactRow)]] /\ dims' \in [Books -> [DimTables -> Seq(DimRow)]]
         /\ \A u \in FactTables : \A d \in Days :
              facts'[u][d] = IF u = t /\ d \in Slice(job, t) THEN <<>> ELSE facts[u][d]
         /\ \A b \in Books : \A u \in DimTables :
              dims'[b][u] = IF u = t /\ b = BookOf(job) THEN <<>> ELSE dims[b][u]
<1>1. t \in FactTables <=> t \notin DimTables
  BY TablesAssumption
<1>2. CASE t \in FactTables
  <2>1. /\ facts' = [facts EXCEPT ![t] = [d \in Days |-> IF d \in Slice(job, t) THEN <<>> ELSE facts[t][d]]]
        /\ dims' = dims
    BY <1>2 DEF DeletePartitions, TablesInv
  <2>2. [d \in Days |-> IF d \in Slice(job, t) THEN <<>> ELSE facts[t][d]] \in [Days -> Seq(FactRow)]
    BY <1>2, ShortSeqs DEF TablesInv
  <2>3. \A u \in FactTables : \A d \in Days :
              facts'[u][d] = IF u = t /\ d \in Slice(job, t) THEN <<>> ELSE facts[u][d]
    BY <1>2, <2>1 DEF TablesInv
  <2>4. \A u \in DimTables : u # t
    BY <1>1, <1>2
  <2> QED
    BY <1>1, <2>1, <2>2, <2>3, <2>4 DEF TablesInv
<1>3. CASE t \in DimTables
  <2>1. dims' = [dims EXCEPT ![BookOf(job)][t] = <<>>] /\ facts' = facts
    BY <1>1, <1>3 DEF DeletePartitions
  <2>2. BookOf(job) \in Books
    BY DEF BookOf, Books
  <2>3. dims' = [dims EXCEPT ![BookOf(job)] = [dims[BookOf(job)] EXCEPT ![t] = <<>>]]
    BY <1>3, <2>1, <2>2 DEF TablesInv
  <2>4. [dims[BookOf(job)] EXCEPT ![t] = <<>>] \in [DimTables -> Seq(DimRow)]
    BY <1>3, <2>2, ShortSeqs DEF TablesInv
  <2>5. dims' \in [Books -> [DimTables -> Seq(DimRow)]]
    BY <2>2, <2>3, <2>4 DEF TablesInv
  <2>6. \A b \in Books : \A u \in DimTables :
              dims'[b][u] = IF u = t /\ b = BookOf(job) THEN <<>> ELSE dims[b][u]
    BY <1>3, <2>2, <2>3 DEF TablesInv
  <2>7. \A u \in FactTables : u # t
    BY <1>1, <1>3
  <2> QED
    BY <1>1, <2>1, <2>5, <2>6, <2>7 DEF TablesInv
<1> QED
  BY <1>2, <1>3

\* What a load does to each slice.
LEMMA LoadEffect ==
  ASSUME TablesInv, NEW w \in Loaders, NEW job \in Job, NEW t \in FactTables \cup DimTables,
         loader[w].job = job, Step(w).table = t, LoadRows(w),
         job.kind = "dims" => t \in DimTables, job.kind = "chunk" => t \in FactTables
  PROVE  /\ t \in FactTables <=> t \notin DimTables
         /\ facts' \in [FactTables -> [Days -> Seq(FactRow)]] /\ dims' \in [Books -> [DimTables -> Seq(DimRow)]]
         /\ \A u \in FactTables : \A d \in Days :
              facts'[u][d] = IF u = t /\ d \in Slice(job, t) THEN facts[u][d] \o Rows(job, t, d) ELSE facts[u][d]
         /\ \A b \in Books : \A u \in DimTables :
              dims'[b][u] = IF u = t /\ b = BookOf(job) THEN dims[b][u] \o dimension_rows(job, t) ELSE dims[b][u]
<1>1. t \in FactTables <=> t \notin DimTables
  BY TablesAssumption
<1>2. CASE t \in FactTables
  <2> DEFINE slice == [d \in Days |-> IF d \in Slice(job, t) THEN facts[t][d] \o Rows(job, t, d) ELSE facts[t][d]]
  <2>1. facts' = [facts EXCEPT ![t] = slice] /\ dims' = dims
    BY <1>2 DEF LoadRows, TablesInv
  <2>2. slice \in [Days -> Seq(FactRow)]
    <3> SUFFICES ASSUME NEW d \in Days, d \in Slice(job, t) PROVE facts[t][d] \o Rows(job, t, d) \in Seq(FactRow)
      BY <1>2 DEF TablesInv
    <3>1. job \in LiveJob \cup ChunkJob
      BY <1>1, <1>2, KindsOfJob
    <3>2. Rows(job, t, d) \in Seq(RowOf(d)) /\ RowOf(d) \subseteq FactRow
      BY <1>2, <3>1, RowsTyped DEF RowOf
    <3>3. Rows(job, t, d) \in Seq(FactRow) /\ facts[t][d] \in Seq(FactRow)
      BY <1>2, <3>2, SeqMonotonic DEF TablesInv
    <3> QED
      BY <3>3, ConcatProperties
  <2>3. \A u \in FactTables : \A d \in Days :
              facts'[u][d] = IF u = t /\ d \in Slice(job, t) THEN facts[u][d] \o Rows(job, t, d) ELSE facts[u][d]
    BY <1>2, <2>1 DEF TablesInv
  <2>4. facts' \in [FactTables -> [Days -> Seq(FactRow)]]
    <3> HIDE DEF slice
    <3> QED
      BY <1>2, <2>1, <2>2 DEF TablesInv
  <2>5. \A u \in DimTables : u # t
    BY <1>1, <1>2
  <2> QED
    BY <1>1, <2>1, <2>3, <2>4, <2>5 DEF TablesInv
<1>3. CASE t \in DimTables
  <2> DEFINE b0 == BookOf(job)
             rows == dims[b0][t] \o dimension_rows(job, t)
  <2>1. b0 \in Books
    BY DEF BookOf, Books
  <2>2. dims' = [dims EXCEPT ![b0] = [dims[b0] EXCEPT ![t] = rows]] /\ facts' = facts
    BY <1>1, <1>3, <2>1 DEF LoadRows, TablesInv
  <2>3. rows \in Seq(DimRow)
    <3>1. job \in LiveJob \cup DimsJob
      BY <1>1, <1>3, KindsOfJob
    <3>2. dimension_rows(job, t) \in Seq(DimRow) /\ dims[b0][t] \in Seq(DimRow)
      BY <1>3, <2>1, <3>1, DimRowsTyped DEF TablesInv
    <3> QED
      BY <3>2, ConcatProperties
  <2>4. \A b \in Books : \A u \in DimTables :
              dims'[b][u] = IF u = t /\ b = b0 THEN dims[b][u] \o dimension_rows(job, t) ELSE dims[b][u]
    BY <1>3, <2>1, <2>2 DEF TablesInv
  <2> HIDE DEF rows
  <2>5. [dims[b0] EXCEPT ![t] = rows] \in [DimTables -> Seq(DimRow)]
    BY <1>3, <2>1, <2>3 DEF TablesInv
  <2>6. dims' \in [Books -> [DimTables -> Seq(DimRow)]]
    BY <2>1, <2>2, <2>5 DEF TablesInv
  <2>7. \A u \in FactTables : u # t
    BY <1>1, <1>3
  <2> QED
    BY <1>1, <2>2, <2>4, <2>6, <2>7 DEF TablesInv
<1> QED
  BY <1>2, <1>3

\* The rows of a day stay its book's, and the tables their shape.
LEMMA TablesStay ==
  ASSUME TablesInv, NEW w \in Loaders, NEW job \in Job, NEW t \in FactTables \cup DimTables,
         loader[w].job = job, Step(w).table = t, DeletePartitions(w) \/ LoadRows(w),
         job.kind = "dims" => t \in DimTables, job.kind = "chunk" => t \in FactTables,
         UNCHANGED <<daily, callRpt, conc>>
  PROVE  TablesInv'
<1>1. /\ facts' \in [FactTables -> [Days -> Seq(FactRow)]] /\ dims' \in [Books -> [DimTables -> Seq(DimRow)]]
      /\ t \in FactTables <=> t \notin DimTables
  BY DeleteEffect, LoadEffect
<1>2. ASSUME NEW u \in FactTables, NEW d \in Days PROVE facts'[u][d] \in Seq(RowOf(d))
  <2>1. facts[u][d] \in Seq(RowOf(d))
    BY DEF TablesInv
  <2>2. CASE DeletePartitions(w)
    <3>1. facts'[u][d] \in {<<>>, facts[u][d]}
      BY <2>2, DeleteEffect
    <3> QED
      BY <2>1, <3>1, ShortSeqs
  <2>3. CASE LoadRows(w)
    <3>1. CASE u = t /\ d \in Slice(job, t)
      <4>1. job \in LiveJob \cup ChunkJob
        BY <1>1, <3>1, KindsOfJob
      <4>2. Rows(job, t, d) \in Seq(RowOf(d))
        BY <3>1, <4>1, RowsTyped
      <4>3. facts'[u][d] = facts[u][d] \o Rows(job, t, d)
        BY <2>3, <3>1, LoadEffect
      <4> QED
        BY <2>1, <4>2, <4>3, ConcatProperties
    <3>2. CASE ~(u = t /\ d \in Slice(job, t))
      <4>1. facts'[u][d] = facts[u][d]
        BY <2>3, <3>2, LoadEffect
      <4> QED
        BY <2>1, <4>1
    <3> QED
      BY <3>1, <3>2
  <2> QED
    BY <2>2, <2>3
<1> QED
  BY <1>1, <1>2 DEF TablesInv

\* A refresh script, whether it inserts or stops after its delete.
LEMMA RefreshStays ==
  ASSUME TablesInv, NEW w \in Loaders, NEW job \in Job, loader[w].job = job, NEW inserted \in BOOLEAN,
         Refresh(w, inserted), UNCHANGED <<facts, dims>>
  PROVE  TablesInv'
<1>1. "exposure" \in FactTables /\ "call" \in FactTables /\ "position" \in FactTables
  BY TablesAssumption DEF FactTables
<1>2. daily' \in [Days -> Seq(FactRow)]
  BY <1>1, ShortSeqs DEF Refresh, TablesInv
<1>3. callRpt' \in [Days -> Seq(FactRow)]
  BY <1>1, ShortSeqs DEF Refresh, TablesInv
<1>4. DOMAIN conc' = {Month(d) : d \in Days}
  BY DEF Refresh, TablesInv
<1> QED
  BY <1>2, <1>3, <1>4 DEF TablesInv

\* The k + 1st step of a job nobody overlaps leaves what Written says.
LEMMA DeleteWrites ==
  ASSUME TablesInv, NEW w \in Loaders, NEW job \in Job, NEW S, SoundSteps(job, S),
         NEW k \in Nat, k + 1 <= Len(S), loader[w].job = job, Step(w) = S[k + 1],
         S[k + 1].op = "delete", DeletePartitions(w)
  PROVE  /\ job.kind \in {"live", "chunk"} /\ FactsWritten(job, S, k) => FactsWritten(job, S, k + 1)'
         /\ job.kind \in {"live", "dims"} /\ DimsWritten(job, S, k) => DimsWritten(job, S, k + 1)'
         /\ ReportsWritten(job, S, k + 1)'
<1> DEFINE t == S[k + 1].table
<1>1. /\ S[k + 1] \in AnyStep /\ k + 1 \in 1..Len(S)
      /\ \A i \in 1..k + 1 : i \in 1..k \/ i = k + 1
      /\ \A u : k >= 1 /\ S[k] = Deleted(u) => S[k + 1] = Loaded(u)
  BY AroundStep DEF SoundSteps
<1>2. t \in FactTables \cup DimTables /\ S[k + 1] = Deleted(t)
  BY <1>1 DEF AnyStep, TableStep, RefreshStep, Deleted
<1>3. (job.kind = "dims" => t \in DimTables) /\ (job.kind = "chunk" => t \in FactTables)
  BY <1>1, <1>2 DEF SoundSteps, StepsOver, RefreshStep
<1>4. \A u : S[k + 1] # Loaded(u) /\ ~(k >= 1 /\ S[k] = Deleted(u))
  <2> TAKE u
  <2>1. S[k + 1] # Loaded(u)
    BY StepFields
  <2> QED
    BY <1>1, <2>1
<1>5. /\ \A u \in FactTables : \A d \in Days :
           facts'[u][d] = IF u = t /\ d \in Slice(job, t) THEN <<>> ELSE facts[u][d]
      /\ \A b \in Books : \A u \in DimTables :
           dims'[b][u] = IF u = t /\ b = BookOf(job) THEN <<>> ELSE dims[b][u]
  BY <1>2, <1>3, DeleteEffect
<1> HIDE DEF t
<1>6. ASSUME job.kind \in {"live", "chunk"}, FactsWritten(job, S, k) PROVE FactsWritten(job, S, k + 1)'
  <2> SUFFICES ASSUME NEW u \in FactTables, NEW d \in Slice(job, u)
               PROVE  /\ S[k + 1] = Deleted(u) => facts'[u][d] = <<>>
                      /\ (\E i \in 1..k + 1 : S[i] = Loaded(u)) =>
                           facts'[u][d] = Rows(job, u, d) \/ S[k + 1] = Deleted(u)
    BY DEF FactsWritten
  <2>1. d \in Days
    BY <1>6, KindsOfJob, RowsTyped
  <2>2. CASE u = t
    <3>1. facts'[u][d] = <<>>
      BY <1>5, <2>1, <2>2
    <3> QED
      BY <1>2, <2>2, <3>1
  <2>3. CASE u # t
    <3>1. facts'[u][d] = facts[u][d]
      BY <1>5, <2>1, <2>3
    <3>2. S[k + 1] # Deleted(u)
      BY <1>2, <2>3 DEF Deleted
    <3>3. (\E i \in 1..k + 1 : S[i] = Loaded(u)) => k >= 1 /\ \E i \in 1..k : S[i] = Loaded(u)
      BY <1>1, <1>4
    <3>4. (\E i \in 1..k : S[i] = Loaded(u)) => facts[u][d] = Rows(job, u, d) \/ S[k] = Deleted(u)
      BY <1>6 DEF FactsWritten
    <3> QED
      BY <1>4, <3>1, <3>2, <3>3, <3>4
  <2> QED
    BY <2>2, <2>3
<1>7. ASSUME job.kind \in {"live", "dims"}, DimsWritten(job, S, k) PROVE DimsWritten(job, S, k + 1)'
  <2> SUFFICES ASSUME NEW u \in DimTables
               PROVE  /\ S[k + 1] = Deleted(u) => dims'[BookOf(job)][u] = <<>>
                      /\ (\E i \in 1..k + 1 : S[i] = Loaded(u)) =>
                           dims'[BookOf(job)][u] = dimension_rows(job, u) \/ S[k + 1] = Deleted(u)
    BY DEF DimsWritten
  <2>1. BookOf(job) \in Books
    BY DEF BookOf, Books
  <2>2. CASE u = t
    BY <1>2, <1>5, <2>1, <2>2
  <2>3. CASE u # t
    <3>1. dims'[BookOf(job)][u] = dims[BookOf(job)][u]
      BY <1>5, <2>1, <2>3
    <3>2. S[k + 1] # Deleted(u)
      BY <1>2, <2>3 DEF Deleted
    <3>3. (\E i \in 1..k + 1 : S[i] = Loaded(u)) => k >= 1 /\ \E i \in 1..k : S[i] = Loaded(u)
      BY <1>1, <1>4
    <3>4. (\E i \in 1..k : S[i] = Loaded(u)) => dims[BookOf(job)][u] = dimension_rows(job, u) \/ S[k] = Deleted(u)
      BY <1>7 DEF DimsWritten
    <3> QED
      BY <1>4, <3>1, <3>2, <3>3, <3>4
  <2> QED
    BY <2>2, <2>3
<1>8. ReportsWritten(job, S, k + 1)'
  <2>1. \A r : \A i \in 1..k + 1 : S[i] # Refreshed(r)
    <3> SUFFICES ASSUME NEW i \in 1..k + 1, S[i].op = "refresh" PROVE FALSE
      BY DEF Refreshed
    <3>1. i \in 1..Len(S) /\ i <= k + 1
      BY <1>1
    <3> QED
      BY <1>1, <3>1 DEF SoundSteps, RefreshesLast
  <2> QED
    BY <2>1 DEF ReportsWritten
<1> QED
  BY <1>6, <1>7, <1>8

\* A load ends the replacement of its table: what the job has written grows by it.
LEMMA LoadWrites ==
  ASSUME TablesInv, NEW w \in Loaders, NEW job \in Job, NEW S, SoundSteps(job, S),
         NEW k \in Nat, k + 1 <= Len(S), loader[w].job = job, Step(w) = S[k + 1],
         S[k + 1].op = "load", LoadRows(w)
  PROVE  /\ job.kind \in {"live", "chunk"} /\ FactsWritten(job, S, k) => FactsWritten(job, S, k + 1)'
         /\ job.kind \in {"live", "dims"} /\ DimsWritten(job, S, k) => DimsWritten(job, S, k + 1)'
         /\ ReportsWritten(job, S, k + 1)'
<1> DEFINE t == S[k + 1].table
<1>1. /\ S[k + 1] \in AnyStep /\ k + 1 \in 1..Len(S)
      /\ \A i \in 1..k + 1 : i \in 1..k \/ i = k + 1
      /\ \A u : k >= 1 /\ S[k] = Deleted(u) => S[k + 1] = Loaded(u)
      /\ \A u : S[k + 1] = Loaded(u) => k >= 1 /\ S[k] = Deleted(u)
  BY AroundStep DEF SoundSteps
<1>2. t \in FactTables \cup DimTables /\ S[k + 1] = Loaded(t)
  BY <1>1 DEF AnyStep, TableStep, RefreshStep, Loaded
<1>3. (job.kind = "dims" => t \in DimTables) /\ (job.kind = "chunk" => t \in FactTables)
  BY <1>1, <1>2 DEF SoundSteps, StepsOver, RefreshStep
<1>4. k >= 1 /\ S[k] = Deleted(t) /\ \A u : S[k + 1] # Deleted(u) /\ (u # t => S[k + 1] # Loaded(u) /\ S[k] # Deleted(u))
  BY <1>1, <1>2 DEF Deleted, Loaded
<1>5. /\ t \in FactTables <=> t \notin DimTables
      /\ \A u \in FactTables : \A d \in Days :
           facts'[u][d] = IF u = t /\ d \in Slice(job, t) THEN facts[u][d] \o Rows(job, t, d) ELSE facts[u][d]
      /\ \A b \in Books : \A u \in DimTables :
           dims'[b][u] = IF u = t /\ b = BookOf(job) THEN dims[b][u] \o dimension_rows(job, t) ELSE dims[b][u]
  <2>1. Step(w).table = t /\ t \in FactTables \cup DimTables
    BY <1>2
  <2> HIDE DEF t
  <2> QED
    BY <1>3, <2>1, LoadEffect, SMTT(30)
<1> HIDE DEF t
<1>6. ASSUME job.kind \in {"live", "chunk"}, FactsWritten(job, S, k) PROVE FactsWritten(job, S, k + 1)'
  <2> SUFFICES ASSUME NEW u \in FactTables, NEW d \in Slice(job, u)
               PROVE  (\E i \in 1..k + 1 : S[i] = Loaded(u)) => facts'[u][d] = Rows(job, u, d)
    BY <1>4 DEF FactsWritten
  <2>1. d \in Days /\ Rows(job, u, d) \in Seq(RowOf(d))
    BY <1>6, KindsOfJob, RowsTyped
  <2>2. CASE u = t
    <3>1. facts[u][d] = <<>>
      BY <1>4, <1>6, <2>2 DEF FactsWritten
    <3>2. facts'[u][d] = <<>> \o Rows(job, u, d)
      BY <1>5, <2>1, <2>2, <3>1
    <3> QED
      BY <2>1, <3>2, ConcatEmptySeq
  <2>3. CASE u # t
    <3>1. facts'[u][d] = facts[u][d]
      BY <1>5, <2>1, <2>3
    <3>2. (\E i \in 1..k + 1 : S[i] = Loaded(u)) => \E i \in 1..k : S[i] = Loaded(u)
      BY <1>1, <1>4, <2>3
    <3>3. (\E i \in 1..k : S[i] = Loaded(u)) => facts[u][d] = Rows(job, u, d) \/ S[k] = Deleted(u)
      BY <1>6 DEF FactsWritten
    <3> QED
      BY <1>4, <2>3, <3>1, <3>2, <3>3
  <2> QED
    BY <2>2, <2>3
<1>7. ASSUME job.kind \in {"live", "dims"}, DimsWritten(job, S, k) PROVE DimsWritten(job, S, k + 1)'
  <2> SUFFICES ASSUME NEW u \in DimTables
               PROVE  (\E i \in 1..k + 1 : S[i] = Loaded(u)) => dims'[BookOf(job)][u] = dimension_rows(job, u)
    BY <1>4 DEF DimsWritten
  <2>1. BookOf(job) \in Books /\ dimension_rows(job, u) \in Seq(DimRow)
    BY <1>7, KindsOfJob, DimRowsTyped
  <2>2. CASE u = t
    <3>1. dims[BookOf(job)][u] = <<>>
      BY <1>4, <1>7, <2>2 DEF DimsWritten
    <3>2. dims'[BookOf(job)][u] = <<>> \o dimension_rows(job, u)
      BY <1>5, <2>1, <2>2, <3>1
    <3> QED
      BY <2>1, <3>2, ConcatEmptySeq
  <2>3. CASE u # t
    <3>1. dims'[BookOf(job)][u] = dims[BookOf(job)][u]
      BY <1>5, <2>1, <2>3
    <3>2. (\E i \in 1..k + 1 : S[i] = Loaded(u)) => \E i \in 1..k : S[i] = Loaded(u)
      BY <1>1, <1>4, <2>3
    <3>3. (\E i \in 1..k : S[i] = Loaded(u)) => dims[BookOf(job)][u] = dimension_rows(job, u) \/ S[k] = Deleted(u)
      BY <1>7 DEF DimsWritten
    <3> QED
      BY <1>4, <2>3, <3>1, <3>2, <3>3
  <2> QED
    BY <2>2, <2>3
<1>8. ReportsWritten(job, S, k + 1)'
  <2>1. \A r : \A i \in 1..k + 1 : S[i] # Refreshed(r)
    <3> SUFFICES ASSUME NEW i \in 1..k + 1, S[i].op = "refresh" PROVE FALSE
      BY DEF Refreshed
    <3>1. i \in 1..Len(S) /\ i <= k + 1
      BY <1>1
    <3> QED
      BY <1>1, <3>1 DEF SoundSteps, RefreshesLast
  <2> QED
    BY <2>1 DEF ReportsWritten
<1> QED
  BY <1>6, <1>7, <1>8

\* The days and months of a job's reports exist.
LEMMA ReportDays ==
  ASSUME NEW job \in LiveJob \cup ChunkJob
  PROVE  /\ ReportStart(job) \in Days /\ ReportEnd(job) \in Days
         /\ ReportStart(job)..ReportEnd(job) \subseteq Days
         /\ Months(job) \subseteq {Month(d) : d \in Days}
<1>1. ReportStart(job) \in Days /\ ReportEnd(job) \in Days
  <2>1. CASE job \in LiveJob
    <3>1. job.kind = "live" /\ job.asOf \in Days /\ job.asOf > SimEnd
      BY <2>1 DEF LiveJob
    <3> QED
      BY <3>1, WindowInBook DEF ReportStart, ReportEnd
  <2>2. CASE job \in ChunkJob
    BY <2>2 DEF ReportStart, ReportEnd, ChunkJob
  <2> QED
    BY <2>1, <2>2
<1>2. ReportStart(job)..ReportEnd(job) \subseteq Days
  BY <1>1, DaysAssumption DEF Days
<1>3. Months(job) \subseteq {Month(d) : d \in Days}
  BY <1>1, MonthAssumption DEF Months
<1> QED
  BY <1>1, <1>2, <1>3

\* A refresh writes its report table from the facts as they are.
LEMMA RefreshWrites ==
  ASSUME TablesInv, NEW w \in Loaders, NEW job \in Job, NEW S, SoundSteps(job, S),
         NEW k \in Nat, k + 1 <= Len(S), loader[w].job = job, Step(w) = S[k + 1],
         S[k + 1].op = "refresh", Refresh(w, TRUE), UNCHANGED <<facts, dims>>
  PROVE  /\ FactsWritten(job, S, k) => FactsWritten(job, S, k + 1)'
         /\ DimsWritten(job, S, k) => DimsWritten(job, S, k + 1)'
         /\ job.kind \in {"live", "chunk"} /\ ReportsWritten(job, S, k) => ReportsWritten(job, S, k + 1)'
<1>1. /\ S[k + 1] \in AnyStep /\ k + 1 \in 1..Len(S)
      /\ \A i \in 1..k + 1 : i \in 1..k \/ i = k + 1
      /\ \A u : k >= 1 /\ S[k] = Deleted(u) => S[k + 1] = Loaded(u)
  BY AroundStep DEF SoundSteps
<1>2. \A u : S[k + 1] # Loaded(u) /\ S[k + 1] # Deleted(u) /\ ~(k >= 1 /\ S[k] = Deleted(u))
  <2> TAKE u
  <2>1. S[k + 1] # Loaded(u) /\ S[k + 1] # Deleted(u)
    BY StepFields
  <2> QED
    BY <1>1, <2>1
<1>3. \A u : (\E i \in 1..k + 1 : S[i] = Loaded(u)) => k >= 1 /\ \E i \in 1..k : S[i] = Loaded(u)
  BY <1>1, <1>2
<1>4. ASSUME FactsWritten(job, S, k) PROVE FactsWritten(job, S, k + 1)'
  BY <1>2, <1>3, <1>4 DEF FactsWritten
<1>5. ASSUME DimsWritten(job, S, k) PROVE DimsWritten(job, S, k + 1)'
  BY <1>2, <1>3, <1>5 DEF DimsWritten
<1>6. ASSUME job.kind \in {"live", "chunk"}, ReportsWritten(job, S, k) PROVE ReportsWritten(job, S, k + 1)'
  <2>1. /\ ReportStart(job)..ReportEnd(job) \subseteq Days
        /\ Months(job) \subseteq {Month(d) : d \in Days}
    BY <1>6, KindsOfJob, ReportDays
  <2>2. \A r : (\E i \in 1..k + 1 : S[i] = Refreshed(r)) =>
                 Step(w).table = r \/ \E i \in 1..k : S[i] = Refreshed(r)
    <3> TAKE r
    <3>1. CASE Step(w).table = r
      BY <3>1
    <3>2. CASE Step(w).table # r
      <4>1. S[k + 1] # Refreshed(r)
        BY <3>2, StepFields
      <4> QED
        BY <1>1, <3>2, <4>1
    <3> QED
      BY <3>1, <3>2
  <2>3. ASSUME \E i \in 1..k + 1 : S[i] = Refreshed("daily"), NEW d \in ReportStart(job)..ReportEnd(job)
        PROVE  daily'[d] = facts'["exposure"][d]
    <3>1. CASE Step(w).table = "daily"
      BY <2>1, <2>3, <3>1 DEF Refresh
    <3>2. CASE Step(w).table # "daily"
      <4>1. daily' = daily /\ \E i \in 1..k : S[i] = Refreshed("daily")
        BY <2>2, <2>3, <3>2 DEF Refresh
      <4> QED
        BY <1>6, <2>3, <4>1 DEF ReportsWritten
    <3> QED
      BY <3>1, <3>2
  <2>4. ASSUME \E i \in 1..k + 1 : S[i] = Refreshed("callRpt"), NEW d \in Days, Month(d) \in Months(job)
        PROVE  callRpt'[d] = facts'["call"][d]
    <3>1. CASE Step(w).table = "callRpt"
      BY <2>4, <3>1 DEF Refresh
    <3>2. CASE Step(w).table # "callRpt"
      <4>1. callRpt' = callRpt /\ \E i \in 1..k : S[i] = Refreshed("callRpt")
        BY <2>2, <2>4, <3>2 DEF Refresh
      <4> QED
        BY <1>6, <2>4, <4>1 DEF ReportsWritten
    <3> QED
      BY <3>1, <3>2
  <2>5. ASSUME \E i \in 1..k + 1 : S[i] = Refreshed("conc"), NEW mo \in Months(job)
        PROVE  conc'[mo] = Concentration(mo)'
    <3>1. Concentration(mo)' = Concentration(mo)
      BY DEF Concentration
    <3>2. CASE Step(w).table = "conc"
      <4>1. mo \in DOMAIN conc
        BY <2>1, <2>5 DEF TablesInv
      <4> QED
        BY <2>5, <3>1, <3>2, <4>1 DEF Refresh
    <3>3. CASE Step(w).table # "conc"
      <4>1. conc' = conc /\ \E i \in 1..k : S[i] = Refreshed("conc")
        BY <2>2, <2>5, <3>3 DEF Refresh
      <4> QED
        BY <1>6, <2>5, <3>1, <4>1 DEF ReportsWritten
    <3> QED
      BY <3>2, <3>3
  <2> QED
    BY <2>3, <2>4, <2>5 DEF ReportsWritten
<1> QED
  BY <1>4, <1>5, <1>6

-----------------------------------------------------------------------------
(* The loaders.                                                            *)

\* Nobody who is alone sees another loader run.
LEMMA RunningIsSeen ==
  ASSUME AloneInv, NEW w \in Loaders, loader[w].state = "running"
  PROVE  \A u \in Loaders \ {w} : ~loader[u].alone
BY DEF AloneInv

\* What is left of a list of steps once its first was taken.
LEMMA TailSteps ==
  ASSUME NEW S \in Seq(AnyStep), S # <<>>
  PROVE  /\ Tail(S) \in Seq(AnyStep) /\ Len(Tail(S)) = Len(S) - 1 /\ Len(S) \in Nat \ {0}
         /\ Head(S) = S[1] /\ \A i \in 1..Len(S) - 1 : Tail(S)[i] = S[i + 1]
         /\ Tail(S) = <<>> <=> Len(S) = 1
<1>1. Len(S) \in Nat \ {0} /\ Head(S) = S[1]
  BY EmptySeq, LenProperties
<1>2. Tail(S) \in Seq(AnyStep) /\ Len(Tail(S)) = Len(S) - 1 /\ \A i \in 1..Len(Tail(S)) : Tail(S)[i] = S[i + 1]
  BY HeadTailProperties
<1>3. Tail(S) = <<>> <=> Len(Tail(S)) = 0
  BY <1>2, EmptySeq
<1> QED
  BY <1>1, <1>2, <1>3

\* A loader at its next step, and after it.
LEMMA AdvanceSets ==
  ASSUME NEW w \in Loaders, loader = [u \in Loaders |-> loader[u]],
         LoaderInv(w), loader[w].state = "running", Advance(w)
  PROVE  /\ LoaderInv(w)' /\ loader'[w].job = loader[w].job /\ loader'[w].alone = loader[w].alone
         /\ loader[w].job \in Job /\ Taken(w) \in Nat /\ Taken(w)' = Taken(w) + 1
         /\ Taken(w) + 1 <= Len(Steps(loader[w].job))
         /\ Step(w) = Steps(loader[w].job)[Taken(w) + 1]
         /\ \A u \in Loaders \ {w} : loader'[u] = loader[u]
         /\ \A u \in Loaders : loader'[u].state = "running" => loader[u].state = "running"
<1> DEFINE l == loader[w]
           rest == Tail(l.todo)
           n == IF rest = <<>> THEN "done" ELSE l.state
<1>1. /\ l \in [job : Job \cup {NoJob}, todo : Seq(AnyStep), steps : Nat,
                state : {"idle", "running", "done", "failed"}, alone : BOOLEAN]
      /\ l.todo # <<>> /\ l.job \in Job /\ l.steps = Len(Steps(l.job))
      /\ Taken(w) \in 0..l.steps
      /\ \A i \in 1..Len(l.todo) : l.todo[i] = Steps(l.job)[Taken(w) + i]
  BY DEF LoaderInv, InStep
<1>2. /\ rest \in Seq(AnyStep) /\ Len(rest) = Len(l.todo) - 1 /\ Len(l.todo) \in Nat \ {0}
      /\ Head(l.todo) = l.todo[1] /\ \A i \in 1..Len(l.todo) - 1 : rest[i] = l.todo[i + 1]
      /\ rest = <<>> <=> Len(l.todo) = 1
  BY <1>1, TailSteps
<1>3. /\ loader'[w] = [l EXCEPT !.todo = rest, !.state = n]
      /\ \A u \in Loaders \ {w} : loader'[u] = loader[u]
  BY DEF Advance
<1>4. /\ loader'[w].todo = rest /\ loader'[w].steps = l.steps /\ loader'[w].job = l.job
      /\ loader'[w].alone = l.alone /\ loader'[w].state = n
      /\ loader'[w] \in [job : Job \cup {NoJob}, todo : Seq(AnyStep), steps : Nat,
                         state : {"idle", "running", "done", "failed"}, alone : BOOLEAN]
  BY <1>1, <1>2, <1>3
<1>5. Taken(w)' = Taken(w) + 1 /\ Taken(w) \in Nat /\ Taken(w) = l.steps - Len(l.todo) /\ l.steps \in Nat
  BY <1>1, <1>2, <1>4 DEF Taken
<1>6. Taken(w) + 1 <= l.steps /\ Step(w) = Steps(l.job)[Taken(w) + 1]
  BY <1>1, <1>2, <1>5, SMTT(30) DEF Step
<1> HIDE DEF rest
<1>7. InStep(w)'
  <2>1. Taken(w)' \in 0..l.steps
    BY <1>5, <1>6
  <2>2. ASSUME NEW i \in 1..Len(rest) PROVE rest[i] = Steps(l.job)[Taken(w)' + i]
    <3>1. i \in 1..Len(l.todo) - 1 /\ i + 1 \in 1..Len(l.todo)
      BY <1>2
    <3>2. rest[i] = l.todo[i + 1] /\ l.todo[i + 1] = Steps(l.job)[Taken(w) + (i + 1)]
      BY <1>1, <1>2, <3>1
    <3>3. Taken(w) + (i + 1) = Taken(w)' + i
      BY <1>5
    <3> QED
      BY <3>2, <3>3
  <2> QED
    BY <1>1, <1>4, <2>1, <2>2 DEF InStep
<1>8. n \in {"running", "done"} /\ (n = "running" <=> rest # <<>>)
  OBVIOUS
<1>9. LoaderInv(w)'
  BY <1>4, <1>7, <1>8 DEF LoaderInv
<1> QED
  BY <1>1, <1>3, <1>4, <1>5, <1>6, <1>9

\* A loader that stays as it is.
LEMMA LoaderStays ==
  ASSUME NEW u \in Loaders, LoaderInv(u), loader'[u] = loader[u]
  PROVE  LoaderInv(u)' /\ Taken(u)' = Taken(u)
BY DEF LoaderInv, InStep, Taken

-----------------------------------------------------------------------------
(* The invariant is kept.                                                  *)

\* The invariant holds of the first state.
LEMMA InitWare ==
  ASSUME Init
  PROVE  WareInv
<1>1. AppInv
  BY DaysAssumption, EmptySeq DEF Init, AppInv, CallStatus
<1>2. TablesInv
  <2>1. \A t \in FactTables : \A d \in Days : facts[t][d] \in Seq(RowOf(d))
    <3>1. PICK copies \in {0, Leftover} :
            facts = [t \in FactTables |-> [d \in Days |-> [i \in 1..copies |->
                      [book |-> IF d <= SimEnd THEN "historical-sim" ELSE "live", csa |-> 0]]]]
      BY DEF Init
    <3> SUFFICES ASSUME NEW t \in FactTables, NEW d \in Days PROVE facts[t][d] \in Seq(RowOf(d))
      OBVIOUS
    <3> DEFINE row == [book |-> IF d <= SimEnd THEN "historical-sim" ELSE "live", csa |-> 0]
    <3>2. row \in RowOf(d)
      BY DEF RowOf, FactRow, Whose, Books
    <3>3. facts[t][d] = [i \in 1..copies |-> row] /\ copies \in Nat
      BY <3>1, BoundsAssumption
    <3> HIDE DEF row
    <3>4. facts[t][d] \in [1..copies -> RowOf(d)]
      BY <3>2, <3>3
    <3> QED
      BY <3>3, <3>4, SeqDef
  <2>2. \A d \in Days : Seq(RowOf(d)) \subseteq Seq(FactRow)
    <3> TAKE d \in Days
    <3>1. RowOf(d) \subseteq FactRow
      BY DEF RowOf
    <3> QED
      BY <3>1, SeqMonotonic
  <2>3. facts \in [FactTables -> [Days -> Seq(FactRow)]]
    BY <2>1, <2>2 DEF Init
  <2>4. dims \in [Books -> [DimTables -> Seq(DimRow)]]
    BY EmptySeq DEF Init
  <2>5. daily \in [Days -> Seq(FactRow)] /\ callRpt \in [Days -> Seq(FactRow)]
    BY EmptySeq DEF Init
  <2>6. DOMAIN conc = {Month(d) : d \in Days}
    BY DEF Init
  <2> QED
    BY <2>1, <2>3, <2>4, <2>5, <2>6 DEF TablesInv
<1>3. \A w \in Loaders : loader[w] = Nothing
  BY DEF Init
<1>4. \A w \in Loaders : LoaderInv(w)
  <2> TAKE w \in Loaders
  <2>1. /\ loader[w].job = NoJob /\ loader[w].todo = <<>> /\ loader[w].steps = 0
        /\ loader[w].state = "idle" /\ loader[w].alone = FALSE
    BY <1>3 DEF Nothing
  <2>2. loader[w] \in [job : Job \cup {NoJob}, todo : Seq(AnyStep), steps : Nat,
                      state : {"idle", "running", "done", "failed"}, alone : BOOLEAN]
    <3>1. <<>> \in Seq(AnyStep)
      BY ShortSeqs
    <3>2. loader[w] = [job |-> NoJob, todo |-> <<>>, steps |-> 0, state |-> "idle", alone |-> FALSE]
      BY <1>3 DEF Nothing
    <3> QED
      BY <3>1, <3>2
  <2> QED
    BY <2>1, <2>2 DEF LoaderInv
<1>5. (\A w \in Loaders : Written(w)) /\ AloneInv
  BY <1>3 DEF Written, AloneInv, Nothing
<1>6. jobs \in Nat /\ loader = [w \in Loaders |-> loader[w]]
  BY DEF Init
<1> QED
  BY <1>1, <1>2, <1>4, <1>5, <1>6 DEF WareInv

\* What the live application does touches no table and no loader.
LEMMA AppKeeps ==
  ASSUME WareInv, AppInv', UNCHANGED <<tableVars, loader, jobs>>
  PROVE  WareInv'
<1>1. TablesInv'
  BY DEF WareInv, TablesInv, tableVars
<1>2. \A w \in Loaders : LoaderInv(w)'
  BY LoaderStays DEF WareInv
<1>3. AloneInv'
  BY DEF WareInv, AloneInv
<1>4. \A w \in Loaders : Written(w)'
  <2> TAKE w \in Loaders
  <2>1. PICK job, k, a : job = loader[w].job /\ k = Taken(w) /\ a = loader[w].alone
    OBVIOUS
  <2>2. loader'[w].job = job /\ Taken(w)' = k /\ loader'[w].alone = a
    BY <2>1 DEF Taken
  <2>3. /\ FactsWritten(job, Steps(job), k) => FactsWritten(job, Steps(job), k)'
        /\ DimsWritten(job, Steps(job), k) => DimsWritten(job, Steps(job), k)'
    BY DEF FactsWritten, DimsWritten, tableVars
  <2>4. ReportsWritten(job, Steps(job), k) => ReportsWritten(job, Steps(job), k)'
    <3>1. \A mo : Concentration(mo)' = Concentration(mo)
      BY DEF Concentration, tableVars
    <3> QED
      BY <3>1 DEF ReportsWritten, tableVars
  <2>5. Written(w)
    BY DEF WareInv
  <2> QED
    BY <2>1, <2>2, <2>3, <2>4, <2>5 DEF Written
<1> QED
  BY <1>1, <1>2, <1>3, <1>4 DEF WareInv

\* The application goes on while no loader does.
LEMMA AppStep ==
  ASSUME WareInv,
         EndOfDay \/ (\E c \in Calls : Raise(c) \/ Resolve(c)) \/ \E terms \in TermsSets : ExtractTerms(terms)
  PROVE  WareInv'
<1>1. UNCHANGED <<tableVars, loader, jobs>>
  BY DEF EndOfDay, Raise, Resolve, ExtractTerms
<1>2. CASE EndOfDay
  <2>1. AppInv'
    <3>1. /\ today \in SimEnd..LastDay /\ today < LastDay /\ today' = today + 1 /\ runs' = runs /\ status' = status
          /\ runs \in Seq(Run) /\ \A i \in DOMAIN runs : runs[i].day <= today
      BY <1>2 DEF WareInv, AppInv, EndOfDay
    <3>2. \A i \in DOMAIN runs : runs[i] \in Run
      BY <3>1
    <3>3. \A i \in DOMAIN runs : runs[i].day <= today + 1
      BY <3>1, <3>2, DaysAssumption DEF Run
    <3> QED
      BY <3>1, <3>3, DaysAssumption DEF WareInv, AppInv
  <2> QED
    BY <1>1, <2>1, AppKeeps
<1>3. CASE \E c \in Calls : Raise(c) \/ Resolve(c)
  <2>1. AppInv'
    BY <1>3 DEF WareInv, AppInv, Raise, Resolve, CallStatus
  <2> QED
    BY <1>1, <2>1, AppKeeps
<1>4. CASE \E terms \in TermsSets : ExtractTerms(terms)
  <2>1. PICK terms \in TermsSets : ExtractTerms(terms)
    BY <1>4
  <2> DEFINE r == [day |-> today, terms |-> terms]
  <2>2. runs \in Seq(Run) /\ r \in Run /\ runs' = Append(runs, r) /\ today' = today /\ status' = status
    BY <2>1, DaysAssumption DEF WareInv, AppInv, ExtractTerms, Run
  <2>3. /\ runs' \in Seq(Run) /\ DOMAIN runs = 1..Len(runs) /\ DOMAIN runs' = 1..Len(runs) + 1
        /\ Len(runs) \in Nat /\ runs'[Len(runs) + 1] = r /\ \A i \in 1..Len(runs) : runs'[i] = runs[i]
    BY <2>2, AppendProperties, LenProperties
  <2>4. \A i \in DOMAIN runs : runs[i].day <= today
    BY DEF WareInv, AppInv
  <2>5. ASSUME NEW i \in DOMAIN runs' PROVE runs'[i].day <= today'
    <3>1. CASE i = Len(runs) + 1
      BY <2>2, <2>3, <3>1, DaysAssumption DEF WareInv, AppInv
    <3>2. CASE i # Len(runs) + 1
      BY <2>2, <2>3, <2>4, <3>2
    <3> QED
      BY <3>1, <3>2
  <2>6. ASSUME NEW i \in DOMAIN runs', NEW j \in DOMAIN runs', i <= j PROVE runs'[i].day <= runs'[j].day
    <3>1. CASE j = Len(runs) + 1
      BY <2>2, <2>3, <2>5, <3>1
    <3>2. CASE j # Len(runs) + 1
      <4>1. i \in DOMAIN runs /\ j \in DOMAIN runs
        BY <2>3, <2>6, <3>2
      <4> QED
        BY <2>3, <2>6, <4>1 DEF WareInv, AppInv
    <3> QED
      BY <3>1, <3>2
  <2>7. AppInv'
    BY <2>2, <2>3, <2>5, <2>6 DEF WareInv, AppInv
  <2> QED
    BY <1>1, <2>7, AppKeeps
<1> QED
  BY <1>2, <1>3, <1>4

\* A job starts: it is alone when nobody else runs, and nobody else is now.
LEMMA StartStep ==
  ASSUME WareInv, NEW w \in Loaders, NEW job \in Job, Start(w, job)
  PROVE  WareInv'
<1> DEFINE S == Steps(job)
<1>1. /\ jobs' = jobs + 1
      /\ loader'[w] = [job |-> job, todo |-> S, steps |-> Len(S), state |-> "running",
                       alone |-> \A u \in Loaders \ {w} : loader[u].state # "running"]
      /\ \A u \in Loaders \ {w} : loader'[u] = [loader[u] EXCEPT !.alone = FALSE]
      /\ loader' = [u \in Loaders |-> loader'[u]]
      /\ UNCHANGED <<appVars, tableVars>>
  BY DEF Start
<1>2. S \in Seq(AnyStep) /\ Len(S) \in Nat /\ S # <<>>
  <2>1. SoundSteps(job, S)
    BY StepsAreSound
  <2>2. S \in Seq(AnyStep) /\ Len(S) \in Nat
    BY <2>1, LenProperties DEF SoundSteps
  <2>3. \E i \in 1..Len(S) : TRUE
    <3>1. "exposure" \in FactTables /\ "csa_terms" \in DimTables
      BY TablesAssumption DEF FactTables, DimTables
    <3> QED
      BY <2>1, <3>1, KindsOfJob DEF SoundSteps, Loads
  <2> QED
    BY <2>2, <2>3, EmptySeq
<1>3. AppInv' /\ TablesInv' /\ jobs' \in Nat
  BY <1>1 DEF WareInv, AppInv, TablesInv, appVars, tableVars
<1>4. LoaderInv(w)' /\ Taken(w)' = 0
  <2> DEFINE a == \A u \in Loaders \ {w} : loader[u].state # "running"
  <2>1. a \in BOOLEAN
    OBVIOUS
  <2> HIDE DEF a, S
  <2>2. /\ loader'[w] \in [job : Job \cup {NoJob}, todo : Seq(AnyStep), steps : Nat,
                           state : {"idle", "running", "done", "failed"}, alone : BOOLEAN]
        /\ loader'[w].job = job /\ loader'[w].todo = S /\ loader'[w].steps = Len(S) /\ loader'[w].state = "running"
    BY <1>1, <1>2, <2>1 DEF a
  <2>3. Taken(w)' = 0
    BY <1>2, <2>2 DEF Taken
  <2>4. InStep(w)'
    BY <1>2, <2>2, <2>3 DEF InStep, S
  <2> QED
    BY <1>2, <2>2, <2>3, <2>4 DEF LoaderInv
<1>5. ASSUME NEW u \in Loaders \ {w}
      PROVE  LoaderInv(u)' /\ ~loader'[u].alone /\ loader'[u].state = loader[u].state
  <2>1. LoaderInv(u)
    BY DEF WareInv
  <2>2. loader[u] \in [job : Job \cup {NoJob}, todo : Seq(AnyStep), steps : Nat,
                       state : {"idle", "running", "done", "failed"}, alone : BOOLEAN]
    BY <2>1 DEF LoaderInv
  <2>3. /\ loader'[u] \in [job : Job \cup {NoJob}, todo : Seq(AnyStep), steps : Nat,
                           state : {"idle", "running", "done", "failed"}, alone : BOOLEAN]
        /\ loader'[u].job = loader[u].job /\ loader'[u].todo = loader[u].todo /\ loader'[u].steps = loader[u].steps
        /\ loader'[u].state = loader[u].state /\ loader'[u].alone = FALSE
    BY <1>1, <2>2
  <2> QED
    BY <2>1, <2>3 DEF LoaderInv, InStep, Taken
<1>6. AloneInv'
  BY <1>1, <1>5 DEF AloneInv
<1>7. Written(w)'
  <2>1. FactsWritten(job, S, 0)' /\ DimsWritten(job, S, 0)' /\ ReportsWritten(job, S, 0)'
    BY DEF FactsWritten, DimsWritten, ReportsWritten
  <2>2. loader'[w].job = job
    BY <1>1
  <2> QED
    BY <1>4, <2>1, <2>2 DEF Written
<1>8. \A u \in Loaders : LoaderInv(u)' /\ Written(u)'
  BY <1>4, <1>5, <1>7 DEF Written
<1> QED
  BY <1>1, <1>3, <1>6, <1>8 DEF WareInv

\* A job is started from the state as it is.
LEMMA JobsStarted ==
  ASSUME WareInv, NEW w \in Loaders,
         (\E asOf \in Days : StartLive(w, asOf)) \/ (\E start, end \in Days : StartChunk(w, start, end)) \/ StartDims(w)
  PROVE  WareInv'
<1>1. CASE \E asOf \in Days : StartLive(w, asOf)
  <2>1. PICK asOf \in Days : StartLive(w, asOf)
    BY <1>1
  <2>2. csa_versions(runs) \in Seq(Version) /\ Chronological(csa_versions(runs))
    BY VersionsChronological DEF WareInv, AppInv
  <2>3. asOf > SimEnd
    BY <2>1 DEF StartLive, check_book_dates
  <2>4. jobs + 1 \in Nat /\ status \in [Calls -> CallStatus]
    BY DEF WareInv, AppInv
  <2>5. read_runs(asOf) \in Job
    BY <2>2, <2>3, <2>4 DEF read_runs, Job, LiveJob
  <2>6. Start(w, read_runs(asOf))
    BY <2>1 DEF StartLive
  <2>7. PICK job \in Job : job = read_runs(asOf)
    BY <2>5
  <2> QED
    BY <2>6, <2>7, StartStep
<1>2. CASE \E start, end \in Days : StartChunk(w, start, end)
  <2>1. PICK start \in Days, end \in Days : StartChunk(w, start, end)
    BY <1>2
  <2>2. [kind |-> "chunk", start |-> start, end |-> end] \in Job
    BY <2>1 DEF StartChunk, check_book_dates, Job, ChunkJob
  <2> QED
    BY <2>1, <2>2, StartStep DEF StartChunk
<1>3. CASE StartDims(w)
  <2>1. [kind |-> "dims"] \in Job
    BY DEF Job, DimsJob
  <2> QED
    BY <1>3, <2>1, StartStep DEF StartDims
<1> QED
  BY <1>1, <1>2, <1>3

\* What a loader's step finds: its job, its place in it, nobody else alone.
Found(w, job, S, k) ==
  /\ job = loader[w].job /\ S = Steps(job) /\ SoundSteps(job, S) /\ k = Taken(w)
  /\ k + 1 <= Len(S) /\ Step(w) = S[k + 1] /\ S[k + 1] \in AnyStep
  /\ job.kind = "dims" => S[k + 1] \in StepsOver(DimTables)
  /\ job.kind = "chunk" => S[k + 1] \in StepsOver(FactTables) \cup RefreshStep
  /\ \A u \in Loaders \ {w} : ~loader[u].alone

\* Whoever runs finds such a step.
LEMMA StepFound ==
  ASSUME WareInv, NEW w \in Loaders, loader[w].state = "running"
  PROVE  \E job \in Job : \E S : \E k \in Nat : Found(w, job, S, k)
<1>1. /\ loader[w].job \in Job /\ loader[w].steps = Len(Steps(loader[w].job)) /\ Taken(w) \in 0..loader[w].steps
      /\ \A i \in 1..Len(loader[w].todo) : loader[w].todo[i] = Steps(loader[w].job)[Taken(w) + i]
      /\ loader[w].todo \in Seq(AnyStep) /\ loader[w].todo # <<>> /\ loader[w].steps \in Nat
  BY DEF WareInv, LoaderInv, InStep
<1>2. Len(loader[w].todo) \in Nat \ {0} /\ Head(loader[w].todo) = loader[w].todo[1]
  BY <1>1, TailSteps
<1>3. PICK job \in Job : job = loader[w].job
  BY <1>1
<1>4. PICK S : S = Steps(job)
  OBVIOUS
<1>5. PICK k \in Nat : k = Taken(w)
  BY <1>1
<1>6. SoundSteps(job, S)
  BY <1>4, StepsAreSound
<1>7. k + 1 <= Len(S) /\ Step(w) = S[k + 1]
  <2>1. PICK n \in Nat \ {0} : n = Len(loader[w].todo)
    BY <1>2
  <2>2. Len(S) \in Nat /\ Len(S) = loader[w].steps /\ k = Len(S) - n
    BY <1>1, <1>3, <1>4, <1>5, <2>1 DEF Taken
  <2>3. loader[w].todo[1] = Steps(loader[w].job)[Taken(w) + 1]
    BY <1>1, <2>1
  <2>4. Step(w) = S[k + 1]
    BY <1>2, <1>3, <1>4, <1>5, <2>3 DEF Step
  <2> QED
    BY <2>1, <2>2, <2>4
<1>8. S[k + 1] \in AnyStep /\ k + 1 \in 1..Len(S)
  BY <1>6, <1>7, AroundStep DEF SoundSteps
<1>9. /\ job.kind = "dims" => S[k + 1] \in StepsOver(DimTables)
      /\ job.kind = "chunk" => S[k + 1] \in StepsOver(FactTables) \cup RefreshStep
  BY <1>6, <1>8 DEF SoundSteps
<1>10. \A u \in Loaders \ {w} : ~loader[u].alone
  BY RunningIsSeen DEF WareInv
<1> QED
  BY <1>3, <1>4, <1>5, <1>6, <1>7, <1>8, <1>9, <1>10 DEF Found

\* The table or report of a step.
LEMMA StepTable ==
  ASSUME NEW job \in Job, NEW s \in AnyStep,
         job.kind = "dims" => s \in StepsOver(DimTables),
         job.kind = "chunk" => s \in StepsOver(FactTables) \cup RefreshStep,
         s.op # "refresh"
  PROVE  /\ s.table \in FactTables \cup DimTables
         /\ job.kind = "dims" => s.table \in DimTables
         /\ job.kind = "chunk" => s.table \in FactTables
BY DEF AnyStep, TableStep, RefreshStep, StepsOver

\* A loader takes its next step.
LEMMA OwnStep ==
  ASSUME WareInv, NEW w \in Loaders, Delete(w) \/ Load(w) \/ RefreshReport(w)
  PROVE  WareInv'
<1>1. loader[w].state = "running" /\ Advance(w) /\ UNCHANGED <<appVars, jobs>>
  BY DEF Delete, Load, RefreshReport, Running
<1>2. PICK job \in Job : \E S : \E k \in Nat : Found(w, job, S, k)
  BY <1>1, StepFound
<1>20. PICK S : \E k \in Nat : Found(w, job, S, k)
  BY <1>2
<1>21. PICK k \in Nat : Found(w, job, S, k)
  BY <1>20
<1>3. /\ job = loader[w].job /\ S = Steps(job) /\ SoundSteps(job, S) /\ k = Taken(w)
      /\ k + 1 <= Len(S) /\ Step(w) = S[k + 1] /\ S[k + 1] \in AnyStep
      /\ job.kind = "dims" => S[k + 1] \in StepsOver(DimTables)
      /\ job.kind = "chunk" => S[k + 1] \in StepsOver(FactTables) \cup RefreshStep
      /\ \A u \in Loaders \ {w} : ~loader[u].alone
  BY <1>21 DEF Found
<1>4. TablesInv /\ LoaderInv(w) /\ Written(w) /\ loader = [u \in Loaders |-> loader[u]]
  BY DEF WareInv
<1>5. /\ LoaderInv(w)' /\ loader'[w].job = loader[w].job /\ loader'[w].alone = loader[w].alone
      /\ Taken(w)' = Taken(w) + 1
      /\ \A u \in Loaders \ {w} : loader'[u] = loader[u]
      /\ \A u \in Loaders : loader'[u].state = "running" => loader[u].state = "running"
  BY <1>1, <1>4, AdvanceSets
<1>6. AppInv' /\ jobs' \in Nat /\ loader' = [u \in Loaders |-> loader'[u]]
  BY <1>1, <1>4 DEF WareInv, AppInv, appVars, Advance
<1>7. AloneInv'
  BY <1>5 DEF WareInv, AloneInv
<1>8. \A u \in Loaders : LoaderInv(u)'
  BY <1>5, LoaderStays DEF WareInv
<1>9. \A u \in Loaders \ {w} : Written(u)'
  BY <1>3, <1>5 DEF Written
<1>10. /\ job.kind \in {"live", "chunk"} /\ loader[w].alone => FactsWritten(job, S, k) /\ ReportsWritten(job, S, k)
       /\ job.kind \in {"live", "dims"} /\ loader[w].alone => DimsWritten(job, S, k)
  BY <1>3, <1>4 DEF Written
<1>11. ASSUME TablesInv',
              /\ job.kind \in {"live", "chunk"} /\ FactsWritten(job, S, k) => FactsWritten(job, S, k + 1)'
              /\ job.kind \in {"live", "dims"} /\ DimsWritten(job, S, k) => DimsWritten(job, S, k + 1)'
              /\ job.kind \in {"live", "chunk"} /\ ReportsWritten(job, S, k) => ReportsWritten(job, S, k + 1)'
       PROVE  WareInv'
  <2>1. loader'[w].job = job /\ Taken(w)' = k + 1
    BY <1>3, <1>5
  <2>2. Written(w)'
    BY <1>3, <1>5, <1>10, <1>11, <2>1 DEF Written
  <2> QED
    BY <1>6, <1>7, <1>8, <1>9, <1>11, <2>2 DEF WareInv
<1>12. CASE Delete(w)
  <2>1. S[k + 1].op = "delete" /\ DeletePartitions(w) /\ UNCHANGED <<daily, callRpt, conc>>
    BY <1>3, <1>12 DEF Delete, Running
  <2>2. PICK t \in FactTables \cup DimTables :
          t = S[k + 1].table /\ (job.kind = "dims" => t \in DimTables) /\ (job.kind = "chunk" => t \in FactTables)
    BY <1>3, <2>1, StepTable
  <2>3. TablesInv'
    BY <1>3, <1>4, <2>1, <2>2, TablesStay
  <2> QED
    BY <1>3, <1>4, <1>11, <2>1, <2>3, DeleteWrites
<1>13. CASE Load(w)
  <2>1. S[k + 1].op = "load" /\ LoadRows(w) /\ UNCHANGED <<daily, callRpt, conc>>
    BY <1>3, <1>13 DEF Load, Running
  <2>2. PICK t \in FactTables \cup DimTables :
          t = S[k + 1].table /\ (job.kind = "dims" => t \in DimTables) /\ (job.kind = "chunk" => t \in FactTables)
    BY <1>3, <2>1, StepTable
  <2>3. TablesInv'
    BY <1>3, <1>4, <2>1, <2>2, TablesStay
  <2> QED
    BY <1>3, <1>4, <1>11, <2>1, <2>3, LoadWrites
<1>14. CASE RefreshReport(w)
  <2>1. S[k + 1].op = "refresh" /\ Refresh(w, TRUE) /\ UNCHANGED <<facts, dims>>
    BY <1>3, <1>14 DEF RefreshReport, Running
  <2>2. TablesInv'
    BY <1>3, <1>4, <2>1, RefreshStays
  <2> QED
    BY <1>3, <1>4, <1>11, <2>1, <2>2, RefreshWrites
<1> QED
  BY <1>12, <1>13, <1>14

\* A job is over in the middle of a step, which may have been done.
LEMMA FailStep ==
  ASSUME WareInv, NEW w \in Loaders, Fail(w)
  PROVE  WareInv'
<1>1. /\ loader[w].state = "running" /\ UNCHANGED <<appVars, jobs>>
      /\ loader' = [loader EXCEPT ![w] = [Nothing EXCEPT !.state = "failed"]]
  BY DEF Fail
<1>2. TablesInv /\ loader = [u \in Loaders |-> loader[u]]
  BY DEF WareInv
<1>11. PICK job \in Job : \E S : \E k \in Nat : Found(w, job, S, k)
  BY <1>1, StepFound
<1>12. PICK S : \E k \in Nat : Found(w, job, S, k)
  BY <1>11
<1>13. PICK k \in Nat : Found(w, job, S, k)
  BY <1>12
<1>3. /\ job = loader[w].job /\ S = Steps(job) /\ SoundSteps(job, S) /\ k = Taken(w)
      /\ k + 1 <= Len(S) /\ Step(w) = S[k + 1] /\ S[k + 1] \in AnyStep
      /\ job.kind = "dims" => S[k + 1] \in StepsOver(DimTables)
      /\ job.kind = "chunk" => S[k + 1] \in StepsOver(FactTables) \cup RefreshStep
      /\ \A u \in Loaders \ {w} : ~loader[u].alone
  BY <1>13 DEF Found
<1>4. /\ loader'[w] = [job |-> NoJob, todo |-> <<>>, steps |-> 0, state |-> "failed", alone |-> FALSE]
      /\ \A u \in Loaders \ {w} : loader'[u] = loader[u]
      /\ loader' = [u \in Loaders |-> loader'[u]]
  BY <1>1, <1>2 DEF Nothing
<1>5. LoaderInv(w)' /\ ~loader'[w].alone
  <2>1. <<>> \in Seq(AnyStep)
    BY ShortSeqs
  <2> QED
    BY <1>4, <2>1 DEF LoaderInv
<1>6. \A u \in Loaders : LoaderInv(u)'
  BY <1>4, <1>5, LoaderStays DEF WareInv
<1>7. \A u \in Loaders : Written(u)'
  BY <1>3, <1>4, <1>5 DEF Written
<1>8. AloneInv'
  BY <1>3, <1>4, <1>5 DEF AloneInv
<1>9. AppInv' /\ jobs' \in Nat
  BY <1>1 DEF WareInv, AppInv, appVars
<1>10. TablesInv'
  <2>1. CASE UNCHANGED tableVars
    BY <1>2, <2>1 DEF TablesInv, tableVars
  <2>2. CASE \/ Running(w, "delete") /\ DeletePartitions(w) /\ UNCHANGED <<daily, callRpt, conc>>
             \/ Running(w, "load") /\ LoadRows(w) /\ UNCHANGED <<daily, callRpt, conc>>
    <3>1. S[k + 1].op # "refresh"
      BY <1>3, <2>2 DEF Running
    <3>2. PICK t \in FactTables \cup DimTables :
            t = S[k + 1].table /\ (job.kind = "dims" => t \in DimTables) /\ (job.kind = "chunk" => t \in FactTables)
      BY <1>3, <3>1, StepTable
    <3> QED
      BY <1>2, <1>3, <2>2, <3>2, TablesStay
  <2>3. CASE Running(w, "refresh") /\ Refresh(w, FALSE) /\ UNCHANGED <<facts, dims>>
    BY <1>2, <1>3, <2>3, RefreshStays
  <2> QED
    BY <2>1, <2>2, <2>3 DEF Fail
<1> QED
  BY <1>4, <1>6, <1>7, <1>8, <1>9, <1>10 DEF WareInv

\* The invariant of the specification: its tables hold rows of their own
\* book, its loaders are at a place in their job's steps, and the job nobody
\* overlapped finds its first steps' work as it left it.
THEOREM WareInductive == Spec => []WareInv
<1>1. Init => WareInv
  BY InitWare
<1>2. WareInv /\ [Next]_vars => WareInv'
  <2> SUFFICES ASSUME WareInv, [Next]_vars PROVE WareInv'
    OBVIOUS
  <2>1. CASE EndOfDay \/ (\E c \in Calls : Raise(c) \/ Resolve(c)) \/ \E terms \in TermsSets : ExtractTerms(terms)
    BY <2>1, AppStep
  <2>2. CASE \E w \in Loaders :
               \/ \E asOf \in Days : StartLive(w, asOf)
               \/ \E start, end \in Days : StartChunk(w, start, end)
               \/ StartDims(w)
    BY <2>2, JobsStarted
  <2>3. CASE \E w \in Loaders : Delete(w) \/ Load(w) \/ RefreshReport(w)
    BY <2>3, OwnStep
  <2>4. CASE \E w \in Loaders : Fail(w)
    BY <2>4, FailStep
  <2>5. CASE UNCHANGED vars
    <3>1. AppInv'
      BY <2>5 DEF WareInv, AppInv, vars
    <3> QED
      BY <2>5, <3>1, AppKeeps DEF vars, tableVars
  <2> QED
    BY <2>1, <2>2, <2>3, <2>4, <2>5 DEF Next
<1> QED
  BY <1>1, <1>2, PTL DEF Spec

-----------------------------------------------------------------------------
(* What a finished job leaves.                                             *)

\* A finished job has taken all its steps, the last of which loads a table or
\* refreshes a report.
LEMMA AllTaken ==
  ASSUME WareInv, NEW w \in Loaders, loader[w].state = "done"
  PROVE  \E job \in Job : \E S : \E k \in Nat :
           /\ job = loader[w].job /\ S = Steps(job) /\ SoundSteps(job, S)
           /\ k = Taken(w) /\ k = Len(S) /\ \A t : k >= 1 => S[k] # Deleted(t)
<1>1. /\ loader[w].job \in Job /\ loader[w].steps = Len(Steps(loader[w].job))
      /\ loader[w].todo = <<>> /\ loader[w].steps \in Nat
  BY DEF WareInv, LoaderInv, InStep
<1>2. Taken(w) = Len(Steps(loader[w].job)) /\ Taken(w) \in Nat
  BY <1>1 DEF Taken
<1>3. PICK job \in Job : job = loader[w].job
  BY <1>1
<1>4. PICK S : S = Steps(job)
  OBVIOUS
<1>5. SoundSteps(job, S)
  BY <1>4, StepsAreSound
<1>6. PICK k \in Nat : k = Taken(w)
  BY <1>2
<1>7. k = Len(S)
  BY <1>2, <1>3, <1>4, <1>6
<1>8. ASSUME NEW t, k >= 1, S[k] = Deleted(t) PROVE FALSE
  <2>1. k \in 1..Len(S) /\ S[k].op = "delete"
    BY <1>7, <1>8, StepFields
  <2>2. k + 1 \in 1..Len(S)
    BY <1>5, <2>1 DEF SoundSteps, Paired
  <2> QED
    BY <1>7, <2>2
<1> QED
  BY <1>3, <1>4, <1>5, <1>6, <1>7, <1>8

\* What it wrote is what it had to write.
LEMMA DoneAlone ==
  ASSUME WareInv, NEW w \in Loaders, loader[w].state = "done", loader[w].alone
  PROVE  \E job \in Job :
           /\ job = loader[w].job
           /\ job.kind # "dims" => \A t \in FactTables : \A d \in Slice(job, t) : facts[t][d] = Rows(job, t, d)
           /\ job.kind # "chunk" => \A t \in DimTables : dims[BookOf(job)][t] = dimension_rows(job, t)
           /\ job.kind # "dims" =>
                /\ \A d \in ReportStart(job)..ReportEnd(job) : daily[d] = facts["exposure"][d]
                /\ \A d \in Days : Month(d) \in Months(job) => callRpt[d] = facts["call"][d]
                /\ \A mo \in Months(job) : conc[mo] = Concentration(mo)
<1>1. PICK job \in Job : \E S : \E k \in Nat :
           /\ job = loader[w].job /\ S = Steps(job) /\ SoundSteps(job, S)
           /\ k = Taken(w) /\ k = Len(S) /\ \A t : k >= 1 => S[k] # Deleted(t)
  BY AllTaken
<1>2. PICK S : \E k \in Nat :
           /\ job = loader[w].job /\ S = Steps(job) /\ SoundSteps(job, S)
           /\ k = Taken(w) /\ k = Len(S) /\ \A t : k >= 1 => S[k] # Deleted(t)
  BY <1>1
<1>3. PICK k \in Nat :
           /\ job = loader[w].job /\ S = Steps(job) /\ SoundSteps(job, S)
           /\ k = Taken(w) /\ k = Len(S) /\ \A t : k >= 1 => S[k] # Deleted(t)
  BY <1>2
<1>4. /\ job.kind \in {"live", "chunk"} => FactsWritten(job, S, k) /\ ReportsWritten(job, S, k)
      /\ job.kind \in {"live", "dims"} => DimsWritten(job, S, k)
  BY <1>3 DEF WareInv, Written
<1>5. job.kind \in {"live", "chunk", "dims"}
  BY KindsOfJob
<1>6. \A t : (\E i \in 1..Len(S) : S[i] = Loaded(t)) => (\E i \in 1..k : S[i] = Loaded(t)) /\ S[k] # Deleted(t)
  BY <1>3
<1>7. ASSUME job.kind # "dims", NEW t \in FactTables, NEW d \in Slice(job, t)
      PROVE  facts[t][d] = Rows(job, t, d)
  <2>1. Loads(S, FactTables) /\ FactsWritten(job, S, k)
    BY <1>3, <1>4, <1>5, <1>7 DEF SoundSteps
  <2>2. (\E i \in 1..k : S[i] = Loaded(t)) /\ S[k] # Deleted(t)
    BY <1>6, <2>1 DEF Loads
  <2> QED
    BY <2>1, <2>2 DEF FactsWritten
<1>8. ASSUME job.kind # "chunk", NEW t \in DimTables
      PROVE  dims[BookOf(job)][t] = dimension_rows(job, t)
  <2>1. Loads(S, DimTables) /\ DimsWritten(job, S, k)
    BY <1>3, <1>4, <1>5, <1>8 DEF SoundSteps
  <2>2. (\E i \in 1..k : S[i] = Loaded(t)) /\ S[k] # Deleted(t)
    BY <1>6, <2>1 DEF Loads
  <2> QED
    BY <2>1, <2>2 DEF DimsWritten
<1>9. ASSUME job.kind # "dims"
      PROVE  /\ \A d \in ReportStart(job)..ReportEnd(job) : daily[d] = facts["exposure"][d]
             /\ \A d \in Days : Month(d) \in Months(job) => callRpt[d] = facts["call"][d]
             /\ \A mo \in Months(job) : conc[mo] = Concentration(mo)
  <2>1. \A r \in {"daily", "conc", "callRpt"} : \E i \in 1..k : S[i] = Refreshed(r)
    BY <1>3, <1>5, <1>9 DEF SoundSteps
  <2>2. ReportsWritten(job, S, k)
    BY <1>4, <1>5, <1>9
  <2> QED
    BY <2>1, <2>2 DEF ReportsWritten
<1> QED
  BY <1>3, <1>7, <1>8, <1>9

\* A set whose elements are all the same one has at most one.
LEMMA AtMostOne ==
  ASSUME NEW T, \A x, y \in T : x = y
  PROVE  Cardinality(T) \in {0, 1}
<1>1. CASE T = {}
  BY <1>1, FS_EmptySet
<1>2. CASE T # {}
  <2>1. PICK x \in T : TRUE
    BY <1>2
  <2>2. T = {x}
    BY <2>1
  <2> QED
    BY <2>2, FS_Singleton
<1> QED
  BY <1>1, <1>2

\* The types of the state, and one job at most that is alone and runs.
LEMMA WareTyped ==
  ASSUME WareInv
  PROVE  TypeOK
<1>1. today \in SimEnd..LastDay /\ DOMAIN facts = FactTables /\ DOMAIN dims = Books
  BY DEF WareInv, AppInv, TablesInv
<1>2. ASSUME NEW w \in Loaders
      PROVE  /\ loader[w].state \in {"idle", "running", "done", "failed"}
             /\ loader[w].state = "running" <=> loader[w].todo # <<>>
  BY DEF WareInv, LoaderInv
<1>3. Cardinality({w \in Loaders : loader[w].state = "running" /\ loader[w].alone}) <= 1
  <2> DEFINE T == {w \in Loaders : loader[w].state = "running" /\ loader[w].alone}
  <2>1. \A x, y \in T : x = y
    BY DEF WareInv, AloneInv
  <2> HIDE DEF T
  <2>2. Cardinality(T) \in {0, 1}
    BY <2>1, AtMostOne
  <2>3. Cardinality(T) <= 1
    BY <2>2
  <2> QED
    BY <2>3 DEF T
<1> QED
  BY <1>1, <1>2, <1>3 DEF TypeOK

\* The two books share no day of a fact table.
LEMMA WareApart ==
  ASSUME WareInv
  PROVE  BooksApart
<1>1. ASSUME NEW t \in FactTables, NEW d \in Days, NEW i \in DOMAIN facts[t][d]
      PROVE  d <= SimEnd <=> facts[t][d][i].book = "historical-sim"
  <2>1. facts[t][d] \in Seq(RowOf(d))
    BY DEF WareInv, TablesInv
  <2>2. facts[t][d][i] \in RowOf(d)
    BY <2>1
  <2> QED
    BY <2>2 DEF RowOf, Whose
<1>2. ASSUME NEW w \in Loaders, loader[w].job.kind = "live", NEW t \in FactTables, NEW d \in Slice(loader[w].job, t)
      PROVE  d > SimEnd
  <2>1. loader[w].job \in LiveJob
    <3>1. loader[w].job \in Job \cup {NoJob}
      BY DEF WareInv, LoaderInv
    <3>2. NoJob.kind = "none"
      BY DEF NoJob
    <3> QED
      BY <1>2, <3>1, <3>2, KindsOfJob
  <2>2. d \in Days /\ ~(d <= SimEnd)
    BY <1>2, <2>1, RowsTyped
  <2> QED
    BY <2>2, DaysAssumption DEF Days
<1> QED
  BY <1>1, <1>2 DEF BooksApart

\* A finished job nobody overlapped left its slices and dimensions with its
\* rows, once, and its reports with what the fact tables say, whatever crashed
\* or overlapping jobs had left there; and the two books' days stay apart.
THEOREM ReRun == Spec => []ReRunRepairs
<1>1. WareInv => ReRunRepairs
  <2> SUFFICES ASSUME WareInv PROVE ReRunRepairs
    OBVIOUS
  <2>1. ReRunReplaces /\ ReportsFollowFacts
    BY DoneAlone DEF ReRunReplaces, ReportsFollowFacts
  <2> QED
    BY <2>1, WareTyped, WareApart DEF ReRunRepairs
<1> QED
  BY <1>1, WareInductive, PTL

\* The CSA version named by the exposure rows of a load nobody overlapped is
\* the one that dim_csa_terms, as the same load rebuilt it, has in force on
\* that day, for any history of extracted terms.
THEOREM InForce == Spec => []VersionInForce
<1>1. WareInv => VersionInForce
  <2> SUFFICES ASSUME WareInv, NEW w \in Loaders,
                      loader[w].state = "done", loader[w].alone, loader[w].job.kind = "live",
                      NEW i \in DOMAIN facts["exposure"][loader[w].job.asOf],
                      NEW j \in DOMAIN dims["live"]["csa_terms"]
               PROVE  LET d == loader[w].job.asOf
                          csa == facts["exposure"][d][i].csa
                          rows == dims["live"]["csa_terms"][j]
                          inForce == {r \in rows : r.from <= d /\ d <= r.to}
                      IN \/ inForce = {} /\ \A r \in rows : r.from > d
                         \/ {r.number : r \in inForce} = {csa}
    BY DEF VersionInForce
  <2>1. PICK job \in Job :
          /\ job = loader[w].job
          /\ job.kind # "dims" => \A t \in FactTables : \A d \in Slice(job, t) : facts[t][d] = Rows(job, t, d)
          /\ job.kind # "chunk" => \A t \in DimTables : dims[BookOf(job)][t] = dimension_rows(job, t)
    BY DoneAlone
  <2>2. PICK d : d = job.asOf
    OBVIOUS
  <2>3. PICK h : h = job.versions
    OBVIOUS
  <2>4. job.kind = "live" /\ d \in Days /\ h \in Seq(Version) /\ Chronological(h)
    BY <2>1, <2>2, <2>3, KindsOfJob DEF LiveJob
  <2>5. "exposure" \in FactTables /\ "csa_terms" \in DimTables
    BY TablesAssumption DEF FactTables, DimTables
  <2>6. facts["exposure"][d] = exposure_and_positions(job, d) /\ dims["live"]["csa_terms"] = dimension_rows(job, "csa_terms")
    BY <2>1, <2>2, <2>4, <2>5 DEF Slice, Rows, BookOf
  <2>7. CASE h = <<>>
    BY <2>1, <2>2, <2>3, <2>6, <2>7 DEF exposure_and_positions
  <2>8. CASE h # <<>>
    <3>1. /\ facts["exposure"][d] = <<[book |-> "live", csa |-> terms_on(h, d), job |-> job.n]>>
          /\ dims["live"]["csa_terms"] = <<csa_rows(h)>>
      BY <2>3, <2>4, <2>6, <2>8 DEF exposure_and_positions, dimension_rows
    <3>2. facts["exposure"][d][i].csa = terms_on(h, d) /\ dims["live"]["csa_terms"][j] = csa_rows(h)
      BY <2>1, <2>2, <3>1
    <3> QED
      BY <2>1, <2>2, <2>4, <3>2, OneVersionInForce
  <2> QED
    BY <2>7, <2>8
<1> QED
  BY <1>1, WareInductive, PTL

=============================================================================
