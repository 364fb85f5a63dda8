------------------------------ MODULE Desk_proofs ------------------------------
(***************************************************************************)
(* Proofs about Desk, for any number of turns and workers, any limit, any  *)
(* window and any faults: the limiter keeps its limit and its word to those *)
(* it turns away, and what an analyst has read stays.                      *)
(***************************************************************************)
EXTENDS Desk, TLAPS, WellFoundedInduction, SequenceTheorems

-----------------------------------------------------------------------------
(* Types.                                                                  *)

Times == 0..MaxClock
Admission == [clock: Times, at: Times]
Stages == {"new", "admitted", "inserted", "dispatched", "running", "failed"}
TurnType ==
  [stage: Stages] \cup [stage: {"clocked"}, now: Times, waited: SUBSET Nat]
    \cup [stage: {"refused"}, retry_at: Nat, after: Nat]
ResultType == [status: {"done", "error"}, by: Workers]
JobType == {NoJob, Pending} \cup ResultType
WorkerType ==
  {Idle} \cup [stage: {"chat"}, turn: Turns, late: BOOLEAN]
    \cup [stage: {"write"}, turn: Turns, late: BOOLEAN, result: ResultType]

LimiterTyped ==
  /\ clock \in Times /\ hits \in Seq(Times) /\ admitted \in Seq(Admission)
  /\ turn \in [Turns -> TurnType]
QueueTyped ==
  /\ job \in [Turns -> JobType] /\ read \in [Turns -> JobType \cup {NotRead}]
  /\ task \in [Turns -> {"none", "queued", "delivered", "gone"}]
  /\ worker \in [Workers -> WorkerType]
Typed == LimiterTyped /\ QueueTyped /\ faults \in 0..MaxFaults

-----------------------------------------------------------------------------
(* The window.                                                             *)

\* A nonempty set of natural numbers has a least one.
LEMMA Least ==
  ASSUME NEW S \in SUBSET Nat, S # {}
  PROVE  \E i \in S : \A j \in S : i <= j
<1> DEFINE R == OpToRel(<, Nat)
<1>1. IsWellFoundedOn(R, Nat)
  BY NatLessThanWellFounded
<1>2. \A i, j \in Nat : <<j, i>> \in R <=> j < i
  BY DEF OpToRel
<1> HIDE DEF R
<1>3. \E i \in S : \A j \in S : ~ (<<j, i>> \in R)
  BY <1>1, WFMin
<1>4. PICK i \in S : \A j \in S : ~ (<<j, i>> \in R)
  BY <1>3
<1>5. \A j \in S : i <= j
  <2> SUFFICES ASSUME NEW j \in S PROVE i <= j
    OBVIOUS
  <2>1. ~ (j < i) /\ i \in Nat /\ j \in Nat
    BY <1>2, <1>4
  <2> QED
    BY <2>1
<1> QED
  BY <1>5

\* What Recent drops is an old prefix; what it keeps begins with a young hit.
LEMMA RecentIsSuffix ==
  ASSUME NumbersAssumption, hits \in Seq(Times), NEW now \in Times
  PROVE  LET recent == Recent(now)
             dropped == Len(hits) - Len(recent)
         IN  /\ recent \in Seq(Times) /\ Len(recent) \in Nat /\ dropped \in Nat
             /\ \A i \in 1..Len(recent) : recent[i] = hits[dropped + i]
             /\ \A i \in 1..dropped : now - hits[i] >= WINDOW
             /\ recent # <<>> => now - recent[1] < WINDOW
<1> DEFINE young == {i \in DOMAIN hits : now - hits[i] < WINDOW}
<1>0. /\ DOMAIN hits = 1..Len(hits) /\ Len(hits) \in Nat
      /\ \A i \in 1..Len(hits) : hits[i] \in Times /\ hits[i] \in Int
      /\ now \in Int /\ WINDOW \in Nat
  BY DEF Times, NumbersAssumption
<1>1. CASE young = {}
  <2>1. Recent(now) = <<>>
    BY <1>1 DEF Recent
  <2>2. \A i \in 1..Len(hits) : now - hits[i] >= WINDOW
    BY <1>0, <1>1
  <2>3. \A s \in {<<>>} : s \in Seq(Times) /\ Len(s) = 0
    OBVIOUS
  <2> HIDE DEF young
  <2> QED
    BY <1>0, <2>1, <2>2, <2>3
<1>2. CASE young # {}
  <2> DEFINE k == CHOOSE i \in young : \A j \in young : i <= j
  <2>1. k \in young /\ \A j \in young : k <= j
    <3>1. young \in SUBSET Nat
      BY <1>0
    <3>2. \E i \in young : \A j \in young : i <= j
      BY <1>2, <3>1, Least
    <3> QED
      BY <3>2
  <2>2. Recent(now) = SubSeq(hits, k, Len(hits))
    BY <1>2 DEF Recent
  <2> HIDE DEF k
  <2>3. k \in 1..Len(hits) /\ now - hits[k] < WINDOW
    BY <1>0, <2>1
  <2>4. \A i \in 1..(k - 1) : now - hits[i] >= WINDOW
    <3> SUFFICES ASSUME NEW i \in 1..(k - 1) PROVE now - hits[i] >= WINDOW
      OBVIOUS
    <3>1. i \in 1..Len(hits) /\ ~(k <= i)
      BY <1>0, <2>3
    <3>2. i \notin young
      BY <2>1, <3>1
    <3> QED
      BY <1>0, <3>1, <3>2
  <2> HIDE DEF young
  <2> DEFINE r == SubSeq(hits, k, Len(hits))
  <2>5. /\ r \in Seq(Times) /\ Len(r) = Len(hits) - k + 1
        /\ \A i \in 1..Len(r) : r[i] = hits[k - 1 + i]
    BY <1>0, <2>3
  <2>6. Len(r) \in Nat /\ Len(hits) - Len(r) = k - 1 /\ k - 1 \in Nat /\ r[1] = hits[k]
    BY <1>0, <2>3, <2>5
  <2>7. Recent(now) = r
    BY <2>2
  <2> HIDE DEF r
  <2> QED
    BY <2>3, <2>4, <2>5, <2>6, <2>7
<1> QED
  BY <1>1, <1>2

-----------------------------------------------------------------------------
(* The limiter: its deque is the latest of those admitted, and whoever is  *)
(* forgotten is a window old.                                              *)

Forgotten == Len(admitted) - Len(hits)
HitsAreLatest ==
  /\ Len(hits) <= Len(admitted) /\ Len(hits) <= RATE_LIMIT
  /\ \A i \in 1..Len(hits) : hits[i] = admitted[Forgotten + i].clock
ForgottenAreOld == \A i \in 1..Forgotten : clock - admitted[i].clock >= WINDOW
ClocksPass ==
  /\ \A i \in 1..Len(admitted) : admitted[i].clock <= clock /\ admitted[i].at <= clock
  /\ \A t \in Turns : turn[t].stage = "clocked" => turn[t].now <= clock

\* There will be room at that time, if nobody else is admitted before.
RoomAt(time) == Len(hits) < RATE_LIMIT \/ time - hits[1] >= WINDOW
WaitIsEnough ==
  \A t \in Turns :
    /\ turn[t].stage = "refused" =>
         /\ turn[t].after <= Len(admitted)
         /\ turn[t].after = Len(admitted) => RoomAt(turn[t].retry_at)
    /\ turn[t].stage = "clocked" =>
         \A n \in turn[t].waited :
           n <= Len(admitted) /\ (n = Len(admitted) => RoomAt(turn[t].now))

LimiterInv ==
  LimiterTyped /\ HitsAreLatest /\ ForgottenAreOld /\ ClocksPass /\ WaitIsEnough /\ WindowHolds

-----------------------------------------------------------------------------
(* The queue: but for doubled turns, at most one worker runs a job, which  *)
(* is pending and unread until that worker writes.                         *)

Runs(w, t) == worker[w] # Idle /\ worker[w].turn = t
Undispatched(t) ==
  /\ turn[t].stage # "dispatched" => task[t] = "none" /\ t \notin doubled /\ read[t] = NotRead
  /\ turn[t].stage \notin {"dispatched", "running"} => \A w \in Workers : ~Runs(w, t)
  /\ turn[t].stage = "inserted" => job[t] = Pending
Alone(t) ==
  t \notin doubled => \A w \in Workers : Runs(w, t) =>
    /\ job[t] = Pending /\ read[t] = NotRead
    /\ \A v \in Workers : Runs(v, t) => v = w
Settled(t) == read[t] # Pending
QueueInv == QueueTyped /\ (\A t \in Turns : Undispatched(t) /\ Alone(t) /\ Settled(t)) /\ ReadIsKept

DeskInv == Typed /\ LimiterInv /\ QueueInv
-----------------------------------------------------------------------------
(* The limiter's steps.                                                    *)

\* What a turn record says by its stage.
LEMMA TurnTyped ==
  ASSUME NEW v \in TurnType
  PROVE  /\ v.stage = "clocked" => v.now \in Times /\ v.waited \in SUBSET Nat
         /\ v.stage = "refused" => v.retry_at \in Nat /\ v.after \in Nat
  BY DEF TurnType, Stages

\* The clock and the sequences, unfolded.
LEMMA Unfolded ==
  ASSUME LimiterTyped
  PROVE  /\ clock \in Int /\ Len(hits) \in Nat /\ Len(admitted) \in Nat /\ Forgotten \in Int
         /\ DOMAIN hits = 1..Len(hits) /\ DOMAIN admitted = 1..Len(admitted)
         /\ \A i \in 1..Len(hits) : hits[i] \in Int
         /\ \A i \in 1..Len(admitted) :
              admitted[i] \in Admission /\ admitted[i].clock \in Int /\ admitted[i].at \in Int
<1>1. /\ clock \in Int /\ Len(hits) \in Nat /\ Len(admitted) \in Nat
      /\ DOMAIN hits = 1..Len(hits) /\ DOMAIN admitted = 1..Len(admitted)
  BY DEF LimiterTyped, Times
<1>2. \A i \in 1..Len(hits) : hits[i] \in Int
  <2>1. \A i \in 1..Len(hits) : hits[i] \in Times
    BY DEF LimiterTyped
  <2> QED
    BY <2>1 DEF Times
<1>3. \A i \in 1..Len(admitted) : admitted[i] \in Admission
  BY DEF LimiterTyped
<1>4. \A a \in Admission : a.clock \in Int /\ a.at \in Int
  BY DEF Admission, Times
<1> QED
  BY <1>1, <1>2, <1>3, <1>4 DEF Forgotten

\* A turn goes where the limiter has nothing to say of it.
LEMMA TurnGoes ==
  ASSUME LimiterInv, NEW t \in Turns, NEW v \in TurnType, turn' = [turn EXCEPT ![t] = v],
         UNCHANGED limiter, v.stage \notin {"clocked", "refused"}
  PROVE  LimiterInv'
<1>1. \A q \in Turns : turn'[q] = IF q = t THEN v ELSE turn[q]
  BY DEF LimiterInv, LimiterTyped
<1>2. LimiterTyped'
  BY DEF LimiterInv, LimiterTyped, limiter
<1>3. HitsAreLatest' /\ ForgottenAreOld' /\ WindowHolds'
  BY DEF LimiterInv, HitsAreLatest, ForgottenAreOld, WindowHolds, Forgotten, limiter
<1>4. ClocksPass' /\ WaitIsEnough'
  BY <1>1 DEF LimiterInv, ClocksPass, WaitIsEnough, RoomAt, limiter
<1> QED
  BY <1>2, <1>3, <1>4 DEF LimiterInv

\* Time passes.
LEMMA TickLimiter ==
  ASSUME NumbersAssumption, LimiterInv, Tick
  PROVE  LimiterInv'
<1>1. clock' = clock + 1 /\ clock \in Int /\ clock' \in Times /\ UNCHANGED <<hits, admitted, turn>>
  BY DEF Tick, LimiterInv, LimiterTyped, Times, NumbersAssumption
<1>2. LimiterTyped' /\ HitsAreLatest' /\ WindowHolds' /\ WaitIsEnough'
  BY <1>1 DEF LimiterInv, LimiterTyped, HitsAreLatest, WindowHolds, WaitIsEnough, RoomAt, Forgotten
<1>3. ForgottenAreOld'
  <2> SUFFICES ASSUME NEW i \in 1..Forgotten PROVE clock' - admitted[i].clock >= WINDOW
    BY <1>1 DEF ForgottenAreOld, Forgotten
  <2>1. clock - admitted[i].clock >= WINDOW
    BY DEF LimiterInv, ForgottenAreOld
  <2>2. i \in 1..Len(admitted)
    BY Unfolded DEF LimiterInv, Forgotten
  <2>3. admitted[i].clock \in Int /\ WINDOW \in Nat
    BY <2>2, Unfolded, NumbersAssumption DEF LimiterInv
  <2> QED
    BY <1>1, <2>1, <2>3
<1>4. ClocksPass'
  <2>1. \A i \in 1..Len(admitted) : admitted[i].clock <= clock' /\ admitted[i].at <= clock'
    BY <1>1, Unfolded DEF LimiterInv, ClocksPass
  <2>2. ASSUME NEW t \in Turns, turn[t].stage = "clocked"
        PROVE  turn[t].now <= clock'
    <3>1. turn[t].now \in Times /\ turn[t].now <= clock
      BY <2>2, TurnTyped DEF LimiterInv, LimiterTyped, ClocksPass
    <3> QED
      BY <1>1, <3>1 DEF Times
  <2> QED
    BY <1>1, <2>1, <2>2 DEF ClocksPass
<1> QED
  BY <1>2, <1>3, <1>4 DEF LimiterInv

\* A turn reads the clock, the first time or after its wait.
LEMMA ReadClockLimiter ==
  ASSUME NumbersAssumption, LimiterInv, NEW t \in Turns, ReadClock(t)
  PROVE  LimiterInv'
<1> DEFINE waited == IF turn[t].stage = "refused" /\ clock >= turn[t].retry_at
                     THEN {turn[t].after} ELSE {}
           v == [stage |-> "clocked", now |-> clock, waited |-> waited]
<1>1. turn' = [turn EXCEPT ![t] = v] /\ UNCHANGED limiter
  BY DEF ReadClock
<1>2. turn[t] \in TurnType /\ clock \in Times /\ clock \in Int
  BY DEF LimiterInv, LimiterTyped, Times
<1>3. waited \in SUBSET Nat
  BY <1>2, TurnTyped
<1>4. \A n \in waited : n <= Len(admitted) /\ (n = Len(admitted) => RoomAt(clock))
  <2> SUFFICES ASSUME turn[t].stage = "refused", clock >= turn[t].retry_at
               PROVE  /\ turn[t].after <= Len(admitted)
                      /\ turn[t].after = Len(admitted) => RoomAt(clock)
    OBVIOUS
  <2>1. /\ turn[t].after <= Len(admitted)
        /\ turn[t].after = Len(admitted) => RoomAt(turn[t].retry_at)
    BY DEF LimiterInv, WaitIsEnough
  <2>2. turn[t].retry_at \in Nat
    BY <1>2, TurnTyped
  <2>3. RoomAt(turn[t].retry_at) => RoomAt(clock)
    <3> SUFFICES ASSUME turn[t].retry_at - hits[1] >= WINDOW, ~(Len(hits) < RATE_LIMIT)
                 PROVE  clock - hits[1] >= WINDOW
      BY DEF RoomAt
    <3>1. hits[1] \in Int
      BY Unfolded, NumbersAssumption DEF LimiterInv
    <3> QED
      BY <1>2, <2>2, <3>1, NumbersAssumption
  <2> QED
    BY <2>1, <2>3
<1>5. v \in TurnType /\ v.stage = "clocked" /\ v.now = clock /\ v.waited = waited
  BY <1>2, <1>3 DEF TurnType
<1> HIDE DEF v, waited
<1>6. \A q \in Turns : turn'[q] = IF q = t THEN v ELSE turn[q]
  BY <1>1 DEF LimiterInv, LimiterTyped
<1>7. LimiterTyped'
  BY <1>1, <1>5 DEF LimiterInv, LimiterTyped, limiter
<1>8. HitsAreLatest' /\ ForgottenAreOld' /\ WindowHolds'
  BY <1>1 DEF LimiterInv, HitsAreLatest, ForgottenAreOld, WindowHolds, Forgotten, limiter
<1>9. ClocksPass'
  BY <1>1, <1>2, <1>5, <1>6 DEF LimiterInv, ClocksPass, limiter
<1>10. WaitIsEnough'
  BY <1>1, <1>4, <1>5, <1>6 DEF LimiterInv, WaitIsEnough, RoomAt, limiter
<1> QED
  BY <1>7, <1>8, <1>9, <1>10 DEF LimiterInv

\* The deque with its old hits dropped is still the latest of those admitted.
LEMMA RecentAdmitted ==
  ASSUME NumbersAssumption, LimiterInv, NEW now \in Times, now <= clock
  PROVE  LET recent == Recent(now)
             before == Len(admitted) - Len(recent)
         IN  /\ recent \in Seq(Times) /\ Len(recent) \in Nat /\ before \in Nat
             /\ Len(recent) <= Len(hits)
             /\ Len(recent) = Len(hits) => recent = hits
             /\ \A i \in 1..Len(recent) : recent[i] = admitted[before + i].clock
             /\ \A i \in 1..before : clock - admitted[i].clock >= WINDOW
             /\ recent # <<>> => now - recent[1] < WINDOW
<1> DEFINE recent == Recent(now)
           dropped == Len(hits) - Len(recent)
           before == Len(admitted) - Len(recent)
<1>1. hits \in Seq(Times)
  BY DEF LimiterInv, LimiterTyped
<1>2. /\ recent \in Seq(Times) /\ Len(recent) \in Nat /\ dropped \in Nat
      /\ \A i \in 1..Len(recent) : recent[i] = hits[dropped + i]
      /\ \A i \in 1..dropped : now - hits[i] >= WINDOW
      /\ recent # <<>> => now - recent[1] < WINDOW
  BY <1>1, RecentIsSuffix
<1>3. /\ Len(hits) \in Nat /\ Len(admitted) \in Nat /\ Forgotten \in Nat
      /\ before = Forgotten + dropped /\ before \in Nat /\ clock \in Int /\ now \in Int
      /\ WINDOW \in Nat
      /\ \A i \in 1..Len(hits) : hits[i] = admitted[Forgotten + i].clock /\ hits[i] \in Int
  BY <1>2, Unfolded, NumbersAssumption DEF LimiterInv, HitsAreLatest, Forgotten, Times
<1> HIDE DEF recent
<1>4. ASSUME Len(recent) = Len(hits)
      PROVE  recent = hits
  <2>1. dropped = 0
    BY <1>2, <1>3, <1>4
  <2>2. \A i \in 1..Len(recent) : recent[i] = hits[i]
    BY <1>2, <2>1
  <2> QED
    BY <1>1, <1>2, <1>4, <2>2, SeqEqual
<1>5. ASSUME NEW i \in 1..Len(recent)
      PROVE  recent[i] = admitted[before + i].clock
  <2>0. i \in Int /\ i >= 1 /\ i <= Len(recent) /\ dropped + Len(recent) = Len(hits)
    BY <1>2, <1>3
  <2>1. dropped + i \in 1..Len(hits) /\ Forgotten + (dropped + i) = before + i
    <3> HIDE DEF dropped, before
    <3> QED
      BY <1>2, <1>3, <2>0
  <2>2. hits[dropped + i] = admitted[Forgotten + (dropped + i)].clock
    BY <1>3, <2>1
  <2> QED
    BY <1>2, <1>5, <2>1, <2>2
<1>6. ASSUME NEW i \in 1..before
      PROVE  clock - admitted[i].clock >= WINDOW
  <2>1. CASE i \in 1..Forgotten
    BY <2>1 DEF LimiterInv, ForgottenAreOld
  <2>2. CASE i \notin 1..Forgotten
    <3> DEFINE j == i - Forgotten
    <3>1. j \in 1..dropped /\ j \in 1..Len(hits) /\ Forgotten + j = i
      BY <1>2, <1>3, <2>2
    <3> HIDE DEF j
    <3>2. hits[j] = admitted[i].clock /\ hits[j] \in Int /\ now - hits[j] >= WINDOW
      BY <1>2, <1>3, <3>1
    <3> QED
      BY <1>3, <3>2
  <2> QED
    BY <2>1, <2>2
<1>7. Len(recent) <= Len(hits)
  BY <1>2, <1>3
<1> QED
  BY <1>2, <1>3, <1>4, <1>5, <1>6, <1>7 DEF recent

\* A deque as long as the limit has no young hit dropped from it; what the
\* refused one is told to wait for makes room.
LEMMA RefusedLimiter ==
  ASSUME NumbersAssumption, LimiterInv, NEW t \in Turns, Check(t), Full(Recent(turn[t].now))
  PROVE  LimiterInv' /\ hits' = hits /\ ~RoomAt(turn[t].now)
<1> DEFINE now == turn[t].now
           recent == Recent(now)
           v == [stage |-> "refused", retry_at |-> RetryAt(now, recent[1]), after |-> Len(admitted)]
<1>1. /\ turn[t].stage = "clocked" /\ hits' = recent /\ turn' = [turn EXCEPT ![t] = v]
      /\ UNCHANGED <<admitted, clock>>
  BY DEF Check, Refused
<1>2. now \in Times /\ now <= clock
  BY <1>1, TurnTyped DEF LimiterInv, LimiterTyped, ClocksPass
<1>3. /\ Len(recent) \in Nat /\ Len(recent) <= Len(hits) /\ Len(recent) >= RATE_LIMIT
      /\ Len(recent) = Len(hits) => recent = hits
      /\ recent # <<>> => now - recent[1] < WINDOW
  BY <1>2, RecentAdmitted DEF Full
<1>4. /\ recent = hits /\ Len(hits) = RATE_LIMIT /\ 1 \in 1..Len(hits)
      /\ now - hits[1] < WINDOW /\ hits[1] \in Times
  <2>1. Len(hits) \in Nat /\ Len(hits) <= RATE_LIMIT /\ RATE_LIMIT \in Nat \ {0}
    BY Unfolded, NumbersAssumption DEF LimiterInv, HitsAreLatest
  <2>2. recent = hits /\ Len(hits) = RATE_LIMIT /\ 1 \in 1..Len(hits)
    BY <1>3, <2>1
  <2>3. hits # <<>> /\ hits[1] \in Times
    BY <2>2 DEF LimiterInv, LimiterTyped
  <2> QED
    BY <1>3, <2>2, <2>3
<1>5. v = [stage |-> "refused", retry_at |-> RetryAt(now, hits[1]), after |-> Len(admitted)]
  BY <1>4
<1> HIDE DEF v, recent
<1>6. RetryAt(now, hits[1]) \in Nat /\ RetryAt(now, hits[1]) - hits[1] >= WINDOW
  <2> DEFINE w == WINDOW - (now - hits[1])
             q == w \div PER_SECOND
  <2>1. /\ w \in Nat /\ PER_SECOND \in Nat \ {0} /\ clock \in Nat /\ now \in Nat /\ hits[1] \in Nat
        /\ WINDOW \in Nat /\ hits[1] <= clock
    <3>1. /\ PER_SECOND \in Nat /\ PER_SECOND # 0 /\ WINDOW \in Nat /\ clock \in Nat /\ now \in Nat
          /\ hits[1] \in Nat
      BY <1>2, <1>4, NumbersAssumption DEF LimiterInv, LimiterTyped, Times
    <3>2. hits[1] <= clock
      <4>1. hits[1] = admitted[Forgotten + 1].clock /\ Forgotten + 1 \in 1..Len(admitted)
        BY <1>4, Unfolded DEF LimiterInv, HitsAreLatest, Forgotten
      <4> QED
        BY <4>1 DEF LimiterInv, ClocksPass
    <3> QED
      BY <1>4, <3>1, <3>2
  <2>2. PER_SECOND * (q + 1) > w /\ q \in Nat
    <3> HIDE DEF w
    <3> QED
      BY <2>1
  <2>3. PER_SECOND * (q + 1) \in Nat
    <3> HIDE DEF q
    <3> QED
      BY <2>1, <2>2
  <2>4. RetryAt(now, hits[1]) = clock + PER_SECOND * (q + 1)
    BY DEF RetryAt
  <2> DEFINE r == PER_SECOND * (q + 1)
  <2>5. r \in Nat /\ r > w /\ RetryAt(now, hits[1]) = clock + r
    BY <2>2, <2>3, <2>4
  <2>6. w = WINDOW - (now - hits[1])
    OBVIOUS
  <2> HIDE DEF r, w
  <2>7. now <= clock
    BY <1>2
  <2> QED
    BY <2>1, <2>5, <2>6, <2>7
<1>7. v \in TurnType /\ v.stage = "refused" /\ v.retry_at = RetryAt(now, hits[1]) /\ v.after = Len(admitted)
  BY <1>5, <1>6, Unfolded DEF TurnType, LimiterInv
<1>8. \A q \in Turns : turn'[q] = IF q = t THEN v ELSE turn[q]
  BY <1>1 DEF LimiterInv, LimiterTyped
<1>9. hits' = hits
  BY <1>1, <1>4
<1>10. LimiterTyped'
  BY <1>1, <1>7, <1>9 DEF LimiterInv, LimiterTyped
<1>11. HitsAreLatest' /\ ForgottenAreOld' /\ WindowHolds'
  BY <1>1, <1>9 DEF LimiterInv, HitsAreLatest, ForgottenAreOld, WindowHolds, Forgotten
<1>12. ClocksPass'
  BY <1>1, <1>7, <1>8 DEF LimiterInv, ClocksPass
<1>13. WaitIsEnough'
  <2>1. v.after <= Len(admitted) /\ RoomAt(v.retry_at)
    BY <1>6, <1>7, Unfolded DEF LimiterInv, RoomAt
  <2> QED
    BY <1>1, <1>7, <1>8, <1>9, <2>1 DEF LimiterInv, WaitIsEnough, RoomAt
<1>14. ~RoomAt(now)
  <2>1. now \in Int /\ hits[1] \in Int /\ WINDOW \in Nat /\ RATE_LIMIT \in Nat
    BY <1>2, <1>4, NumbersAssumption DEF Times
  <2> HIDE DEF now
  <2> QED
    BY <1>4, <2>1 DEF RoomAt
<1> QED
  BY <1>9, <1>10, <1>11, <1>12, <1>13, <1>14 DEF LimiterInv

\* One more is admitted: those in the way of the window are all forgotten.
LEMMA AdmittedLimiter ==
  ASSUME NumbersAssumption, LimiterInv, NEW t \in Turns, Check(t), ~Full(Recent(turn[t].now))
  PROVE  LimiterInv'
<1> DEFINE now == turn[t].now
           recent == Recent(now)
           before == Len(admitted) - Len(recent)
           a == [clock |-> now, at |-> clock]
<1>1. /\ turn[t].stage = "clocked" /\ hits' = Append(recent, now)
      /\ turn' = [turn EXCEPT ![t] = At("admitted")]
      /\ admitted' = Append(admitted, a) /\ UNCHANGED clock
  BY DEF Check
<1>2. now \in Times /\ now <= clock
  BY <1>1, TurnTyped DEF LimiterInv, LimiterTyped, ClocksPass
<1>3. /\ recent \in Seq(Times) /\ Len(recent) \in Nat /\ before \in Nat
      /\ \A i \in 1..Len(recent) : recent[i] = admitted[before + i].clock
      /\ \A i \in 1..before : clock - admitted[i].clock >= WINDOW
  BY <1>2, RecentAdmitted
<1>4. Len(recent) < RATE_LIMIT
  BY <1>3, NumbersAssumption DEF Full
<1>5. /\ clock \in Times /\ clock \in Int /\ now \in Int /\ WINDOW \in Nat /\ RATE_LIMIT \in Nat
      /\ Len(admitted) \in Nat /\ admitted \in Seq(Admission) /\ DOMAIN admitted = 1..Len(admitted)
      /\ a \in Admission /\ a.clock = now /\ a.at = clock
  BY <1>2, Unfolded, NumbersAssumption DEF LimiterInv, LimiterTyped, Times, Admission
<1> HIDE DEF recent, a
<1>6. /\ hits' \in Seq(Times) /\ Len(hits') = Len(recent) + 1
      /\ \A i \in 1..Len(recent) : hits'[i] = recent[i]
      /\ hits'[Len(recent) + 1] = now
  BY <1>1, <1>2, <1>3
<1>7. /\ admitted' \in Seq(Admission) /\ Len(admitted') = Len(admitted) + 1
      /\ \A i \in 1..Len(admitted) : admitted'[i] = admitted[i]
      /\ admitted'[Len(admitted) + 1] = a
  BY <1>1, <1>5
<1>8. Forgotten' = before
  BY <1>3, <1>5, <1>6, <1>7 DEF Forgotten
<1>9. At("admitted") \in TurnType /\ At("admitted").stage = "admitted"
  BY DEF TurnType, Stages, At
<1>10. \A q \in Turns : turn'[q] = IF q = t THEN At("admitted") ELSE turn[q]
  BY <1>1 DEF LimiterInv, LimiterTyped
<1>11. LimiterTyped'
  BY <1>1, <1>6, <1>7, <1>9 DEF LimiterInv, LimiterTyped
<1> HIDE DEF before
<1>12. before + Len(recent) = Len(admitted) /\ before <= Len(admitted)
  BY <1>3, <1>5 DEF before
<1>13. HitsAreLatest'
  <2>1. Len(hits') <= Len(admitted') /\ Len(hits') <= RATE_LIMIT
    BY <1>3, <1>4, <1>5, <1>6, <1>7, <1>12
  <2>2. ASSUME NEW i \in 1..Len(hits')
        PROVE  hits'[i] = admitted'[before + i].clock
    <3>1. CASE i <= Len(recent)
      <4>1. i \in 1..Len(recent) /\ before + i \in 1..Len(admitted)
        BY <1>3, <1>6, <1>12, <3>1
      <4> QED
        BY <1>3, <1>6, <1>7, <4>1
    <3>2. CASE i > Len(recent)
      <4>1. i = Len(recent) + 1 /\ before + i = Len(admitted) + 1
        <5>1. i \in 1..(Len(recent) + 1)
          BY <1>6
        <5>2. i = Len(recent) + 1
          BY <1>3, <3>2, <5>1
        <5>3. before + (Len(recent) + 1) = Len(admitted) + 1
          BY <1>3, <1>5, <1>12
        <5> QED
          BY <5>2, <5>3
      <4>2. hits'[i] = now
        BY <1>6, <4>1
      <4>3. admitted'[before + i] = a
        BY <1>7, <4>1
      <4> QED
        BY <1>5, <4>2, <4>3
    <3> QED
      BY <1>3, <1>6, <3>1, <3>2
  <2>3. \A i \in 1..Len(hits') : hits'[i] = admitted'[Forgotten' + i].clock
    BY <1>8, <2>2
  <2> QED
    BY <2>1, <2>3 DEF HitsAreLatest
<1>14. ForgottenAreOld'
  <2>1. ASSUME NEW i \in 1..before
        PROVE  clock' - admitted'[i].clock >= WINDOW
    <3>1. i \in 1..Len(admitted)
      BY <1>3, <1>5, <1>12
    <3> QED
      BY <1>1, <1>3, <1>7, <3>1
  <2> QED
    BY <1>8, <2>1 DEF ForgottenAreOld
<1>15. ClocksPass'
  <2>1. ASSUME NEW i \in 1..Len(admitted')
        PROVE  admitted'[i].clock <= clock /\ admitted'[i].at <= clock
    <3>1. CASE i \in 1..Len(admitted)
      BY <1>7, <3>1 DEF LimiterInv, ClocksPass
    <3>2. CASE i = Len(admitted) + 1
      BY <1>2, <1>5, <1>7, <3>2
    <3> QED
      BY <1>5, <1>7, <3>1, <3>2
  <2>2. \A q \in Turns : turn'[q].stage = "clocked" => turn'[q].now <= clock
    BY <1>9, <1>10 DEF LimiterInv, ClocksPass
  <2> QED
    BY <1>1, <2>1, <2>2 DEF ClocksPass
<1>16. WaitIsEnough'
  <2>1. ASSUME NEW n \in Nat, n <= Len(admitted)
        PROVE  n <= Len(admitted') /\ n # Len(admitted')
    BY <1>5, <1>7, <2>1
  <2>2. ASSUME NEW q \in Turns, turn'[q].stage = "refused"
        PROVE  turn'[q].after <= Len(admitted') /\ turn'[q].after # Len(admitted')
    <3>1. turn'[q] = turn[q]
      BY <1>9, <1>10, <2>2
    <3>2. turn[q].after \in Nat /\ turn[q].after <= Len(admitted)
      BY <2>2, <3>1, TurnTyped DEF LimiterInv, LimiterTyped, WaitIsEnough
    <3> QED
      BY <2>1, <3>1, <3>2
  <2>3. ASSUME NEW q \in Turns, turn'[q].stage = "clocked", NEW n \in turn'[q].waited
        PROVE  n <= Len(admitted') /\ n # Len(admitted')
    <3>1. turn'[q] = turn[q]
      BY <1>9, <1>10, <2>3
    <3>2. n \in Nat /\ n <= Len(admitted)
      BY <2>3, <3>1, TurnTyped DEF LimiterInv, LimiterTyped, WaitIsEnough
    <3> QED
      BY <2>1, <3>2
  <2> QED
    BY <2>2, <2>3 DEF WaitIsEnough
<1>17. WindowHolds'
  <2> SUFFICES ASSUME NEW i \in 1..Len(admitted'), i + RATE_LIMIT \in 1..Len(admitted')
               PROVE  admitted'[i + RATE_LIMIT].at - admitted'[i].clock >= WINDOW
    BY <1>7 DEF WindowHolds
  <2>1. CASE i + RATE_LIMIT \in 1..Len(admitted)
    <3>1. i \in 1..Len(admitted)
      BY <1>5, <2>1
    <3>2. admitted[i + RATE_LIMIT].at - admitted[i].clock >= WINDOW
      BY <1>5, <2>1, <3>1 DEF LimiterInv, WindowHolds
    <3> QED
      BY <1>7, <2>1, <3>1, <3>2
  <2>2. CASE i + RATE_LIMIT = Len(admitted) + 1
    <3>1. i \in 1..before /\ i \in 1..Len(admitted)
      BY <1>3, <1>4, <1>5, <1>12, <2>2
    <3> QED
      BY <1>3, <1>5, <1>7, <2>2, <3>1
  <2> QED
    BY <1>5, <1>7, <2>1, <2>2
<1> QED
  BY <1>11, <1>13, <1>14, <1>15, <1>16, <1>17 DEF LimiterInv

\* The limiter's decision; one that waited with nobody in between is let in.
LEMMA CheckLimiter ==
  ASSUME NumbersAssumption, LimiterInv, NEW t \in Turns, Check(t)
  PROVE  LimiterInv' /\ (turn'[t].stage = "refused" => Len(admitted) \notin turn[t].waited)
<1>1. turn[t].stage = "clocked" /\ turn \in [Turns -> TurnType]
  BY DEF Check, LimiterInv, LimiterTyped
<1>2. CASE Full(Recent(turn[t].now))
  BY <1>1, <1>2, RefusedLimiter DEF LimiterInv, WaitIsEnough
<1>3. CASE ~Full(Recent(turn[t].now))
  <2>1. turn' = [turn EXCEPT ![t] = At("admitted")]
    BY <1>3 DEF Check
  <2>2. turn'[t].stage = "admitted"
    BY <1>1, <2>1 DEF At
  <2> QED
    BY <1>3, <2>2, AdmittedLimiter
<1> QED
  BY <1>2, <1>3

-----------------------------------------------------------------------------
(* The queue's steps.                                                      *)

\* What a worker's record says by its stage.
LEMMA WorkerTyped ==
  ASSUME NEW v \in WorkerType
  PROVE  /\ v # Idle => v.turn \in Turns /\ v.late \in BOOLEAN /\ v.stage \in {"chat", "write"}
         /\ v.stage = "chat" => v # Idle
         /\ v.stage = "write" => v # Idle /\ v.result \in ResultType
  BY DEF WorkerType, Idle

\* A step about one turn leaves the others as they are.
LEMMA Elsewhere ==
  ASSUME QueueInv, NEW t \in Turns, QueueTyped',
         \A q \in Turns \ {t} :
           /\ turn'[q] = turn[q] /\ job'[q] = job[q] /\ task'[q] = task[q] /\ read'[q] = read[q]
           /\ (q \in doubled') = (q \in doubled)
           /\ \A w \in Workers : Runs(w, q)' = Runs(w, q),
         Undispatched(t)', Alone(t)', Settled(t)',
         t \notin doubled' => read'[t] = NotRead \/ job'[t] = read'[t]
  PROVE  QueueInv'
<1>1. ASSUME NEW q \in Turns, q # t
      PROVE  Undispatched(q)' /\ Alone(q)' /\ Settled(q)'
  <2>1. Undispatched(q) /\ Alone(q) /\ Settled(q)
    BY DEF QueueInv
  <2>2. \A w \in Workers : Runs(w, q)' = Runs(w, q)
    BY <1>1
  <2>3. Undispatched(q)'
    BY <1>1, <2>1, <2>2 DEF Undispatched
  <2>4. Alone(q)'
    BY <1>1, <2>1, <2>2 DEF Alone
  <2>5. Settled(q)'
    BY <1>1, <2>1 DEF Settled
  <2> QED
    BY <2>3, <2>4, <2>5
<1>2. ReadIsKept'
  BY DEF QueueInv, ReadIsKept
<1> QED
  BY <1>1, <1>2 DEF QueueInv

\* A turn goes where the queue has nothing to say of it.
LEMMA TurnWaits ==
  ASSUME QueueInv, turn \in [Turns -> TurnType], NEW t \in Turns, NEW v \in TurnType,
         turn' = [turn EXCEPT ![t] = v], turn[t].stage \notin {"dispatched", "running"},
         v.stage \notin {"dispatched", "running", "inserted"}, UNCHANGED <<job, queue, read>>
  PROVE  QueueInv'
<1>1. \A q \in Turns : turn'[q] = IF q = t THEN v ELSE turn[q]
  OBVIOUS
<1>2. \A q \in Turns, w \in Workers : Runs(w, q)' = Runs(w, q)
  BY DEF Runs, queue
<1>3. Undispatched(t) /\ Alone(t) /\ Settled(t) /\ ReadIsKept
  BY DEF QueueInv
<1>4. QueueTyped'
  BY DEF QueueInv, QueueTyped, queue
<1>5. Undispatched(t)' /\ Alone(t)' /\ Settled(t)'
  BY <1>1, <1>2, <1>3 DEF Undispatched, Alone, Settled, queue
<1>6. t \notin doubled' => read'[t] = NotRead \/ job'[t] = read'[t]
  BY <1>3 DEF ReadIsKept, queue
<1> QED
  BY <1>1, <1>2, <1>4, <1>5, <1>6, Elsewhere DEF queue

\* The row of the turn.
LEMMA InsertJobQueue ==
  ASSUME DeskInv, NEW t \in Turns, InsertJob(t)
  PROVE  QueueInv'
<1>1. /\ turn[t].stage = "admitted" /\ turn \in [Turns -> TurnType]
      /\ job' = [job EXCEPT ![t] = Pending] /\ turn' = [turn EXCEPT ![t] = At("inserted")]
      /\ UNCHANGED <<task, worker, doubled, read>>
  BY DEF InsertJob, queue, DeskInv, Typed, LimiterTyped
<1>2. QueueTyped'
  BY <1>1 DEF DeskInv, QueueInv, QueueTyped, JobType
<1>3. /\ \A q \in Turns : turn'[q] = IF q = t THEN At("inserted") ELSE turn[q]
      /\ \A q \in Turns : job'[q] = IF q = t THEN Pending ELSE job[q]
  BY <1>1 DEF DeskInv, QueueInv, QueueTyped
<1>4. \A q \in Turns, w \in Workers : Runs(w, q)' = Runs(w, q)
  BY <1>1 DEF Runs
<1>5. Undispatched(t) /\ Settled(t) /\ At("inserted").stage = "inserted"
  BY DEF DeskInv, QueueInv, At
<1>6. Undispatched(t)' /\ Alone(t)' /\ Settled(t)' /\ read'[t] = NotRead
  BY <1>1, <1>3, <1>4, <1>5 DEF Undispatched, Alone, Settled
<1> QED
  BY <1>1, <1>2, <1>3, <1>4, <1>6, Elsewhere DEF DeskInv

\* Its task.
LEMMA DispatchTaskQueue ==
  ASSUME DeskInv, NEW t \in Turns, DispatchTask(t)
  PROVE  QueueInv'
<1>1. /\ turn[t].stage = "inserted" /\ turn \in [Turns -> TurnType]
      /\ task' = [task EXCEPT ![t] = "queued"] /\ turn' = [turn EXCEPT ![t] = At("dispatched")]
      /\ UNCHANGED <<job, worker, doubled, read>>
  BY DEF DispatchTask, DeskInv, Typed, LimiterTyped
<1>2. QueueTyped'
  BY <1>1 DEF DeskInv, QueueInv, QueueTyped
<1>3. /\ \A q \in Turns : turn'[q] = IF q = t THEN At("dispatched") ELSE turn[q]
      /\ \A q \in Turns : task'[q] = IF q = t THEN "queued" ELSE task[q]
  BY <1>1 DEF DeskInv, QueueInv, QueueTyped
<1>4. \A q \in Turns, w \in Workers : Runs(w, q)' = Runs(w, q)
  BY <1>1 DEF Runs
<1>5. Undispatched(t) /\ Settled(t) /\ At("dispatched").stage = "dispatched"
  BY DEF DeskInv, QueueInv, At
<1>6. Undispatched(t)' /\ Alone(t)' /\ Settled(t)' /\ read'[t] = NotRead
  BY <1>1, <1>3, <1>4, <1>5 DEF Undispatched, Alone, Settled
<1> QED
  BY <1>1, <1>2, <1>3, <1>4, <1>6, Elsewhere DEF DeskInv

\* The request's own thread takes the job: it is the first to.
LEMMA DispatchSyncQueue ==
  ASSUME DeskInv, NEW t \in Turns, NEW w \in Workers, DispatchSync(t, w)
  PROVE  QueueInv'
<1> DEFINE r == [stage |-> "chat", turn |-> t, late |-> FALSE]
<1>1. /\ turn[t].stage = "inserted" /\ turn \in [Turns -> TurnType] /\ worker[w] = Idle
      /\ worker' = [worker EXCEPT ![w] = r] /\ turn' = [turn EXCEPT ![t] = At("running")]
      /\ UNCHANGED <<job, task, doubled, read>>
  BY DEF DispatchSync, DeskInv, Typed, LimiterTyped
<1>2. r \in WorkerType /\ r # Idle /\ r.turn = t
  BY DEF WorkerType, Idle
<1> HIDE DEF r
<1>3. QueueTyped'
  BY <1>1, <1>2 DEF DeskInv, QueueInv, QueueTyped
<1>4. /\ \A q \in Turns : turn'[q] = IF q = t THEN At("running") ELSE turn[q]
      /\ \A v \in Workers : worker'[v] = IF v = w THEN r ELSE worker[v]
  BY <1>1 DEF DeskInv, QueueInv, QueueTyped
<1>5. \A q \in Turns, v \in Workers : Runs(v, q)' = (Runs(v, q) \/ (v = w /\ q = t))
  BY <1>1, <1>2, <1>4 DEF Runs
<1>6. /\ Undispatched(t) /\ Settled(t) /\ At("running").stage = "running"
      /\ \A v \in Workers : ~Runs(v, t)
  BY <1>1 DEF DeskInv, QueueInv, At, Undispatched
<1>7. Undispatched(t)' /\ Alone(t)' /\ Settled(t)' /\ read'[t] = NotRead
  BY <1>1, <1>4, <1>5, <1>6 DEF Undispatched, Alone, Settled
<1>8. \A q \in Turns \ {t}, v \in Workers : Runs(v, q)' = Runs(v, q)
  <2> SUFFICES ASSUME NEW q \in Turns \ {t}, NEW v \in Workers PROVE Runs(v, q)' = Runs(v, q)
    OBVIOUS
  <2>1. Runs(v, q)' = (Runs(v, q) \/ (v = w /\ q = t))
    BY <1>5
  <2> QED
    BY <2>1 DEF Runs
<1> QED
  BY <1>1, <1>3, <1>4, <1>7, <1>8, Elsewhere DEF DeskInv

\* The analyst reads what is no longer pending: nobody runs it any more.
LEMMA DeskJobResponseQueue ==
  ASSUME DeskInv, NEW t \in Turns, DeskJobResponse(t)
  PROVE  QueueInv'
<1>1. /\ turn[t].stage = "dispatched" /\ read[t] = NotRead /\ job[t] # Pending
      /\ read' = [read EXCEPT ![t] = job[t]] /\ UNCHANGED <<turn, job, task, worker, doubled>>
  BY DEF DeskJobResponse, queue
<1>2. QueueTyped'
  BY <1>1 DEF DeskInv, QueueInv, QueueTyped
<1>3. \A q \in Turns : read'[q] = IF q = t THEN job[t] ELSE read[q]
  BY <1>1 DEF DeskInv, QueueInv, QueueTyped
<1>4. \A q \in Turns, w \in Workers : Runs(w, q)' = Runs(w, q)
  BY <1>1 DEF Runs
<1>5. Undispatched(t) /\ Alone(t) /\ Settled(t)
  BY DEF DeskInv, QueueInv
<1>6. Undispatched(t)' /\ Alone(t)' /\ Settled(t)'
  BY <1>1, <1>3, <1>4, <1>5 DEF Undispatched, Alone, Settled
<1> QED
  BY <1>1, <1>2, <1>3, <1>4, <1>6, Elsewhere DEF DeskInv

\* A worker lets go of a job, or takes a further step of it: nobody takes
\* one up.
LEMMA WorkerGoes ==
  ASSUME DeskInv, NEW w \in Workers, NEW v \in WorkerType, worker' = [worker EXCEPT ![w] = v],
         worker[w] # Idle, v # Idle => v.turn = worker[w].turn
  PROVE  /\ worker[w].turn \in Turns
         /\ worker' \in [Workers -> WorkerType]
         /\ \A q \in Turns, u \in Workers :
              Runs(u, q)' = IF u = w THEN v # Idle /\ q = worker[w].turn ELSE Runs(u, q)
         /\ \A q \in Turns \ {worker[w].turn}, u \in Workers : Runs(u, q)' = Runs(u, q)
<1>1. worker \in [Workers -> WorkerType]
  BY DEF DeskInv, QueueInv, QueueTyped
<1>2. worker[w].turn \in Turns /\ worker' \in [Workers -> WorkerType]
  BY <1>1, WorkerTyped
<1>3. \A u \in Workers : worker'[u] = IF u = w THEN v ELSE worker[u]
  BY <1>1
<1>4. ASSUME NEW q \in Turns, NEW u \in Workers
      PROVE  Runs(u, q)' = IF u = w THEN v # Idle /\ q = worker[w].turn ELSE Runs(u, q)
  BY <1>3 DEF Runs
<1>5. ASSUME NEW q \in Turns, q # worker[w].turn, NEW u \in Workers
      PROVE  Runs(u, q)' = Runs(u, q)
  BY <1>3, <1>5 DEF Runs
<1> QED
  BY <1>2, <1>4, <1>5

\* The chat of a job does not touch its row.
LEMMA ChatQueue ==
  ASSUME DeskInv, NEW w \in Workers, Chat(w)
  PROVE  QueueInv'
<1>1. PICK result \in ResultType :
        worker' = [worker EXCEPT ![w] =
          [stage |-> "write", turn |-> worker[w].turn, late |-> worker[w].late, result |-> result]]
  <2>1. PICK result \in Outcomes(worker[w].turn, w) : worker' = ToWrite(w, result)
    BY DEF Chat
  <2> QED
    BY <2>1 DEF Outcomes, ToWrite, ResultType
<1> DEFINE t == worker[w].turn
           v == [stage |-> "write", turn |-> t, late |-> worker[w].late, result |-> result]
<1>2. worker \in [Workers -> WorkerType] /\ worker[w].stage = "chat"
      /\ UNCHANGED <<turn, job, task, doubled, read>>
  BY DEF Chat, DeskInv, QueueInv, QueueTyped
<1>3. v \in WorkerType /\ v # Idle /\ v.turn = t /\ worker[w] # Idle
  BY <1>2, WorkerTyped DEF WorkerType, Idle
<1> HIDE DEF v
<1>4. worker' = [worker EXCEPT ![w] = v]
  BY <1>1 DEF v
<1>5. /\ t \in Turns /\ worker' \in [Workers -> WorkerType]
      /\ \A q \in Turns, u \in Workers : Runs(u, q)' = IF u = w THEN v # Idle /\ q = t ELSE Runs(u, q)
  BY <1>3, <1>4, WorkerGoes
<1>6. \A q \in Turns, u \in Workers : Runs(u, q)' = Runs(u, q)
  BY <1>3, <1>5 DEF Runs
<1>7. QueueTyped'
  BY <1>2, <1>5 DEF DeskInv, QueueInv, QueueTyped
<1>8. \A q \in Turns : Undispatched(q)' /\ Alone(q)' /\ Settled(q)'
  BY <1>2, <1>6 DEF DeskInv, QueueInv, Undispatched, Alone, Settled
<1>9. ReadIsKept'
  BY <1>2 DEF DeskInv, QueueInv, ReadIsKept
<1> QED
  BY <1>7, <1>8, <1>9 DEF QueueInv

\* The outcome is written: but for a doubled turn, to a row nobody has read.
LEMMA WriteResultQueue ==
  ASSUME DeskInv, NEW w \in Workers, NEW t \in Turns, t = worker[w].turn, WriteResult(w)
  PROVE  QueueInv'
<1>1. /\ worker[w].stage = "write" /\ worker' = [worker EXCEPT ![w] = Idle]
      /\ job' = [job EXCEPT ![t] = worker[w].result]
      /\ task' = [task EXCEPT ![t] = IF @ = "delivered" /\ ~worker[w].late THEN "gone" ELSE @]
      /\ turn' = [turn EXCEPT ![t] = IF @.stage = "running" THEN At("dispatched") ELSE @]
      /\ UNCHANGED <<doubled, read>>
  BY DEF WriteResult
<1>2. worker \in [Workers -> WorkerType] /\ turn \in [Turns -> TurnType] /\ job \in [Turns -> JobType]
      /\ task \in [Turns -> {"none", "queued", "delivered", "gone"}]
  BY DEF DeskInv, Typed, LimiterTyped, QueueTyped
<1>3. worker[w].result \in ResultType /\ worker[w] # Idle /\ Idle \in WorkerType
  BY <1>1, <1>2, WorkerTyped DEF WorkerType
<1>4. /\ worker' \in [Workers -> WorkerType]
      /\ \A q \in Turns, u \in Workers : Runs(u, q)' = IF u = w THEN FALSE ELSE Runs(u, q)
      /\ \A q \in Turns \ {t}, u \in Workers : Runs(u, q)' = Runs(u, q)
  BY <1>1, <1>3, WorkerGoes, ZenonT(60)
<1>5. /\ \A q \in Turns \ {t} : turn'[q] = turn[q] /\ job'[q] = job[q] /\ task'[q] = task[q]
      /\ turn'[t] = (IF turn[t].stage = "running" THEN At("dispatched") ELSE turn[t])
      /\ job'[t] = worker[w].result
      /\ task'[t] \in {task[t], "gone"} /\ (task[t] = "none" => task'[t] = "none")
  BY <1>1, <1>2, <1>3
<1>6. QueueTyped'
  <2>1. job' \in [Turns -> JobType]
    BY <1>1, <1>2, <1>3 DEF JobType
  <2>2. task' \in [Turns -> {"none", "queued", "delivered", "gone"}]
    BY <1>1, <1>2, <1>3
  <2> QED
    BY <1>1, <1>4, <2>1, <2>2 DEF DeskInv, QueueInv, QueueTyped
<1>7. Undispatched(t) /\ Alone(t) /\ Settled(t) /\ Runs(w, t)
  BY <1>3 DEF DeskInv, QueueInv, Runs
<1>8. turn[t].stage \in {"dispatched", "running"} /\ turn'[t].stage = "dispatched"
  BY <1>5, <1>7 DEF Undispatched, At
<1>9. t \notin doubled => read[t] = NotRead /\ \A u \in Workers : ~Runs(u, t)'
  BY <1>3, <1>4, <1>7 DEF Alone
<1>10. Undispatched(t)' /\ Alone(t)' /\ Settled(t)'
  BY <1>1, <1>7, <1>8, <1>9 DEF Undispatched, Alone, Settled
<1> QED
  BY <1>1, <1>3, <1>4, <1>5, <1>6, <1>9, <1>10, Elsewhere DEF DeskInv

\* A run fails: the request it was part of does, or its task is queued again.
LEMMA FailRunQueue ==
  ASSUME DeskInv, NEW w \in Workers, NEW t \in Turns, t = worker[w].turn, FailRun(w)
  PROVE  QueueInv'
<1>1. /\ worker[w] # Idle /\ worker' = [worker EXCEPT ![w] = Idle]
      /\ task' = [task EXCEPT ![t] = IF @ = "delivered" /\ ~worker[w].late THEN "queued" ELSE @]
      /\ turn' = [turn EXCEPT ![t] = IF @.stage = "running" THEN At("failed") ELSE @]
      /\ UNCHANGED <<job, doubled, read>>
  BY DEF FailRun, AfterFailure
<1>2. worker \in [Workers -> WorkerType] /\ turn \in [Turns -> TurnType] /\ job \in [Turns -> JobType]
      /\ task \in [Turns -> {"none", "queued", "delivered", "gone"}]
  BY DEF DeskInv, Typed, LimiterTyped, QueueTyped
<1>3. Idle \in WorkerType
  BY DEF WorkerType
<1>4. /\ worker' \in [Workers -> WorkerType]
      /\ \A q \in Turns, u \in Workers : Runs(u, q)' = IF u = w THEN FALSE ELSE Runs(u, q)
      /\ \A q \in Turns \ {t}, u \in Workers : Runs(u, q)' = Runs(u, q)
  <2>1. /\ worker' \in [Workers -> WorkerType]
        /\ \A q \in Turns, u \in Workers :
             Runs(u, q)' = IF u = w THEN Idle # Idle /\ q = worker[w].turn ELSE Runs(u, q)
        /\ \A q \in Turns \ {worker[w].turn}, u \in Workers : Runs(u, q)' = Runs(u, q)
    BY <1>1, <1>3, WorkerGoes
  <2> QED
    BY <2>1
<1>5. /\ \A q \in Turns \ {t} : turn'[q] = turn[q] /\ task'[q] = task[q]
      /\ turn'[t] = (IF turn[t].stage = "running" THEN At("failed") ELSE turn[t])
      /\ task[t] = "none" => task'[t] = "none"
  BY <1>1, <1>2, <1>3
<1>6. QueueTyped'
  <2>1. task' \in [Turns -> {"none", "queued", "delivered", "gone"}]
    BY <1>1, <1>2, <1>3
  <2> QED
    BY <1>1, <1>4, <2>1 DEF DeskInv, QueueInv, QueueTyped
<1>7. Undispatched(t) /\ Alone(t) /\ Settled(t) /\ Runs(w, t)
  BY <1>1, <1>3 DEF DeskInv, QueueInv, Runs
<1>8. /\ turn[t].stage \in {"dispatched", "running"}
      /\ turn[t].stage = "running" => turn'[t].stage = "failed"
      /\ turn[t].stage = "dispatched" => turn'[t].stage = "dispatched"
  BY <1>5, <1>7 DEF Undispatched, At
<1>9. t \notin doubled => \A u \in Workers : ~Runs(u, t)'
  BY <1>3, <1>4, <1>7 DEF Alone
<1>10. Undispatched(t)'
  <2>1. CASE turn[t].stage = "running"
    BY <1>1, <1>5, <1>7, <1>8, <1>9, <2>1 DEF Undispatched
  <2>2. CASE turn[t].stage = "dispatched"
    BY <1>8, <2>2 DEF Undispatched
  <2> QED
    BY <1>8, <2>1, <2>2
<1>11. Alone(t)' /\ Settled(t)'
  BY <1>1, <1>7, <1>9 DEF Alone, Settled
<1>12. t \notin doubled' => read'[t] = NotRead \/ job'[t] = read'[t]
  BY <1>1, <1>3 DEF DeskInv, QueueInv, ReadIsKept
<1> QED
  BY <1>1, <1>3, <1>4, <1>5, <1>6, <1>10, <1>11, <1>12, Elsewhere DEF DeskInv

\* A task is delivered: to the only runner of the job, or the turn is
\* doubled; one that is done is dropped.
LEMMA DeliverQueue ==
  ASSUME DeskInv, NEW t \in Turns, NEW w \in Workers, Deliver(t, w)
  PROVE  QueueInv'
<1>1. /\ task[t] = "queued" /\ worker[w] = Idle /\ UNCHANGED <<turn, job, read>>
      /\ worker \in [Workers -> WorkerType]
      /\ task \in [Turns -> {"none", "queued", "delivered", "gone"}]
  BY DEF Deliver, DeskInv, QueueTyped, Typed
<1>2. Undispatched(t) /\ Alone(t) /\ Settled(t) /\ ReadIsKept /\ turn[t].stage = "dispatched"
  BY <1>1 DEF DeskInv, QueueInv, Undispatched
<1>3. CASE StillPending(t)
  <2> DEFINE r == [stage |-> "chat", turn |-> t, late |-> FALSE]
  <2>1. /\ worker' = [worker EXCEPT ![w] = r] /\ task' = [task EXCEPT ![t] = "delivered"]
        /\ doubled' = IF Running(t) = {} THEN doubled ELSE doubled \cup {t}
    BY <1>3 DEF Deliver
  <2>2. r \in WorkerType /\ r # Idle /\ r.turn = t
    BY DEF WorkerType, Idle
  <2> HIDE DEF r
  <2>3. QueueTyped'
    BY <1>1, <2>1, <2>2 DEF DeskInv, QueueInv, QueueTyped
  <2>4. \A v \in Workers : worker'[v] = IF v = w THEN r ELSE worker[v]
    BY <1>1, <2>1
  <2>5. ASSUME NEW q \in Turns \ {t}, NEW v \in Workers
        PROVE  Runs(v, q)' = Runs(v, q)
    BY <1>1, <2>2, <2>4 DEF Runs
  <2>6. t \notin doubled' => \A v \in Workers : Runs(v, t)' => v = w
    <3> SUFFICES ASSUME t \notin doubled', NEW v \in Workers, v # w PROVE ~Runs(v, t)'
      BY DEF Runs
    <3>1. v \notin Running(t) /\ worker'[v] = worker[v]
      BY <2>1, <2>4
    <3> QED
      BY <3>1 DEF Running, Runs
  <2>7. job[t] = Pending /\ (t \notin doubled' => read[t] = NotRead)
    <3>1. job[t] = Pending
      BY <1>3 DEF StillPending
    <3>2. ASSUME t \notin doubled'
          PROVE  read[t] = NotRead
      <4>1. t \notin doubled
        BY <2>1, <3>2
      <4> QED
        BY <1>2, <3>1, <4>1 DEF ReadIsKept, Settled
    <3> QED
      BY <3>1, <3>2
  <2>8. Undispatched(t)' /\ Settled(t)'
    BY <1>1, <1>2 DEF Undispatched, Settled
  <2>9. Alone(t)'
    BY <1>1, <2>6, <2>7 DEF Alone
  <2>10. \A q \in Turns \ {t} : task'[q] = task[q] /\ (q \in doubled') = (q \in doubled)
    BY <1>1, <2>1
  <2> QED
    BY <1>1, <2>3, <2>5, <2>7, <2>8, <2>9, <2>10, Elsewhere DEF DeskInv
<1>4. CASE ~StillPending(t)
  <2>1. task' = [task EXCEPT ![t] = "gone"] /\ UNCHANGED <<worker, doubled>>
    BY <1>4 DEF Deliver
  <2>2. QueueTyped'
    BY <1>1, <2>1 DEF DeskInv, QueueInv, QueueTyped
  <2>3. \A q \in Turns, v \in Workers : Runs(v, q)' = Runs(v, q)
    BY <2>1 DEF Runs
  <2>4. Undispatched(t)' /\ Alone(t)' /\ Settled(t)'
    BY <1>1, <1>2, <2>1, <2>3 DEF Undispatched, Alone, Settled
  <2>5. t \notin doubled' => read'[t] = NotRead \/ job'[t] = read'[t]
    BY <1>1, <1>2, <2>1 DEF ReadIsKept
  <2>6. \A q \in Turns \ {t} : task'[q] = task[q]
    BY <1>1, <2>1
  <2> QED
    BY <1>1, <2>1, <2>2, <2>3, <2>4, <2>5, <2>6, Elsewhere DEF DeskInv
<1> QED
  BY <1>3, <1>4

\* A task is delivered again: those that run it go on unheard.
LEMMA DeliverAgainQueue ==
  ASSUME DeskInv, NEW t \in Turns, DeliverAgain(t)
  PROVE  QueueInv'
<1>1. /\ task[t] \in {"delivered", "gone"} /\ task' = [task EXCEPT ![t] = "queued"]
      /\ worker' = [u \in Workers |->
           IF u \in Running(t) THEN [worker[u] EXCEPT !.late = TRUE] ELSE worker[u]]
      /\ UNCHANGED <<turn, job, doubled, read>>
      /\ worker \in [Workers -> WorkerType]
      /\ task \in [Turns -> {"none", "queued", "delivered", "gone"}]
  BY DEF DeliverAgain, DeskInv, QueueTyped, Typed
<1>2. Undispatched(t) /\ Alone(t) /\ Settled(t) /\ ReadIsKept /\ turn[t].stage = "dispatched"
  BY <1>1 DEF DeskInv, QueueInv, Undispatched
<1>3. ASSUME NEW u \in Workers
      PROVE  /\ worker'[u] \in WorkerType
             /\ worker'[u] = Idle <=> worker[u] = Idle
             /\ worker[u] # Idle => worker'[u].turn = worker[u].turn
  <2>1. CASE u \in Running(t)
    <3> DEFINE v == [worker[u] EXCEPT !.late = TRUE]
    <3>1. worker'[u] = v /\ worker[u] # Idle /\ worker[u] \in WorkerType
      BY <1>1, <2>1 DEF Running
    <3>2. v \in WorkerType /\ v # Idle /\ v.turn = worker[u].turn
      <4>1. CASE worker[u] \in [stage: {"chat"}, turn: Turns, late: BOOLEAN]
        <5>1. v \in [stage: {"chat"}, turn: Turns, late: BOOLEAN] /\ v.turn = worker[u].turn
          BY <4>1
        <5> QED
          BY <5>1 DEF WorkerType, Idle
      <4>2. CASE worker[u] \in [stage: {"write"}, turn: Turns, late: BOOLEAN, result: ResultType]
        <5>1. /\ v \in [stage: {"write"}, turn: Turns, late: BOOLEAN, result: ResultType]
              /\ v.turn = worker[u].turn
          BY <4>2
        <5> QED
          BY <5>1 DEF WorkerType, Idle
      <4> QED
        BY <3>1, <4>1, <4>2 DEF WorkerType
    <3> QED
      BY <3>1, <3>2
  <2>2. CASE u \notin Running(t)
    BY <1>1, <2>2
  <2> QED
    BY <2>1, <2>2
<1>4. worker' \in [Workers -> WorkerType]
  BY <1>1, <1>3
<1>5. QueueTyped'
  BY <1>1, <1>4 DEF DeskInv, QueueInv, QueueTyped
<1>6. \A q \in Turns, v \in Workers : Runs(v, q)' = Runs(v, q)
  BY <1>3 DEF Runs
<1>7. Undispatched(t)' /\ Alone(t)' /\ Settled(t)'
  BY <1>1, <1>2, <1>6 DEF Undispatched, Alone, Settled
<1>8. t \notin doubled' => read'[t] = NotRead \/ job'[t] = read'[t]
  BY <1>1, <1>2 DEF ReadIsKept
<1>9. \A q \in Turns \ {t} : task'[q] = task[q]
  BY <1>1
<1> QED
  BY <1>1, <1>5, <1>6, <1>7, <1>8, <1>9, Elsewhere DEF DeskInv

-----------------------------------------------------------------------------
(* The invariant, step by step.                                            *)

\* Nobody who has been told to wait is turned away again by this step.
KeepsWord ==
  \A t \in Turns :
    turn[t].stage = "clocked" /\ turn'[t].stage = "refused" => Len(admitted) \notin turn[t].waited

\* A turn in another stage moves, if any does: no word is broken.
LEMMA OtherTurn ==
  ASSUME turn \in [Turns -> TurnType], NEW t \in Turns, NEW v, turn' = [turn EXCEPT ![t] = v],
         turn[t].stage # "clocked" \/ v.stage # "refused"
  PROVE  KeepsWord
<1>1. \A q \in Turns : turn'[q] = IF q = t THEN v ELSE turn[q]
  OBVIOUS
<1> QED
  BY <1>1 DEF KeepsWord

\* In the beginning.
LEMMA DeskInit ==
  ASSUME NumbersAssumption, Init
  PROVE  DeskInv
<1>1. LimiterTyped
  BY DEF Init, NumbersAssumption, LimiterTyped, Times, TurnType, Stages, At
<1>2. QueueTyped /\ faults \in 0..MaxFaults
  BY DEF Init, NumbersAssumption, QueueTyped, JobType, WorkerType
<1>3. Len(hits) = 0 /\ Len(admitted) = 0 /\ DOMAIN admitted = {} /\ 0 <= RATE_LIMIT
  BY DEF Init, NumbersAssumption
<1>4. HitsAreLatest /\ ForgottenAreOld /\ WindowHolds
  BY <1>3 DEF HitsAreLatest, ForgottenAreOld, WindowHolds, Forgotten
<1>5. ClocksPass /\ WaitIsEnough
  BY <1>3 DEF Init, ClocksPass, WaitIsEnough, At
<1>6. \A t \in Turns : Undispatched(t) /\ Alone(t) /\ Settled(t)
  BY DEF Init, Undispatched, Alone, Settled, Runs, At, NotRead, Pending
<1>7. ReadIsKept
  BY DEF Init, ReadIsKept
<1> QED
  BY <1>1, <1>2, <1>4, <1>5, <1>6, <1>7 DEF DeskInv, Typed, LimiterInv, QueueInv

\* A step of the limiter leaves the queue alone.
LEMMA LimiterSteps ==
  ASSUME NumbersAssumption, DeskInv,
         Tick \/ \E t \in Turns : ReadClock(t) \/ Check(t)
  PROVE  LimiterInv' /\ QueueInv' /\ KeepsWord /\ faults' = faults
<1>0. LimiterInv /\ QueueInv /\ turn \in [Turns -> TurnType]
  BY DEF DeskInv, LimiterInv, LimiterTyped
<1>1. CASE Tick
  <2>1. UNCHANGED <<turn, job, task, worker, doubled, read, faults>>
    BY <1>1 DEF Tick, queue
  <2>2. QueueInv'
    BY <1>0, <2>1 DEF QueueInv, QueueTyped, Undispatched, Alone, Settled, ReadIsKept, Runs
  <2>3. KeepsWord
    BY <2>1 DEF KeepsWord
  <2> QED
    BY <1>0, <1>1, <2>1, <2>2, <2>3, TickLimiter
<1>2. ASSUME NEW t \in Turns, ReadClock(t)
      PROVE  LimiterInv' /\ QueueInv' /\ KeepsWord /\ faults' = faults
  <2>1. LimiterInv'
    BY <1>0, <1>2, ReadClockLimiter
  <2>2. turn'[t] \in TurnType
    BY <1>0, <2>1 DEF LimiterInv, LimiterTyped
  <2> DEFINE v == [stage |-> "clocked", now |-> clock,
                   waited |-> IF turn[t].stage = "refused" /\ clock >= turn[t].retry_at
                              THEN {turn[t].after} ELSE {}]
  <2>3. /\ turn' = [turn EXCEPT ![t] = v] /\ turn[t].stage \in {"new", "refused"}
        /\ UNCHANGED <<job, queue, read, faults>> /\ v.stage = "clocked"
    BY <1>2 DEF ReadClock
  <2> HIDE DEF v
  <2>4. v \in TurnType
    BY <1>0, <2>2, <2>3
  <2> QED
    BY <1>0, <2>1, <2>3, <2>4, TurnWaits, OtherTurn
<1>3. ASSUME NEW t \in Turns, Check(t)
      PROVE  LimiterInv' /\ QueueInv' /\ KeepsWord /\ faults' = faults
  <2>1. LimiterInv' /\ (turn'[t].stage = "refused" => Len(admitted) \notin turn[t].waited)
    BY <1>0, <1>3, CheckLimiter
  <2>2. PICK v : turn' = [turn EXCEPT ![t] = v] /\ v.stage \in {"refused", "admitted"}
    <3> DEFINE recent == Recent(turn[t].now)
               r == [stage |-> "refused", retry_at |-> RetryAt(turn[t].now, recent[1]),
                     after |-> Len(admitted)]
    <3>1. CASE Full(recent)
      <4>1. turn' = [turn EXCEPT ![t] = r] /\ r.stage = "refused"
        BY <1>3, <3>1 DEF Check
      <4> HIDE DEF r
      <4> QED
        BY <4>1
    <3>2. CASE ~Full(recent)
      <4>1. turn' = [turn EXCEPT ![t] = At("admitted")]
        BY <1>3, <3>2 DEF Check
      <4>2. At("admitted").stage = "admitted"
        BY DEF At
      <4> QED
        BY <4>1, <4>2
    <3> QED
      BY <3>1, <3>2
  <2>3. turn'[t] \in TurnType /\ turn'[t] = v
    BY <1>0, <2>1, <2>2 DEF LimiterInv, LimiterTyped
  <2>4. turn[t].stage = "clocked" /\ UNCHANGED <<job, queue, read, faults>>
    BY <1>3 DEF Check
  <2>5. QueueInv'
    BY <1>0, <2>2, <2>3, <2>4, TurnWaits
  <2>6. \A q \in Turns : turn'[q] = IF q = t THEN v ELSE turn[q]
    BY <1>0, <2>2
  <2>7. KeepsWord
    BY <2>1, <2>6 DEF KeepsWord
  <2> QED
    BY <2>1, <2>4, <2>5, <2>7
<1> QED
  BY <1>1, <1>2, <1>3

\* A step of the request after it was let in.
LEMMA RequestSteps ==
  ASSUME DeskInv, NEW t \in Turns,
         InsertJob(t) \/ DispatchTask(t) \/ FailPost(t) \/ \E w \in Workers : DispatchSync(t, w)
  PROVE  LimiterInv' /\ QueueInv' /\ KeepsWord
<1>0. LimiterInv /\ QueueInv /\ turn \in [Turns -> TurnType]
  BY DEF DeskInv, LimiterInv, LimiterTyped
<1>1. \A s \in Stages : At(s) \in TurnType /\ At(s).stage = s
  BY DEF TurnType, At
<1>2. \E s \in Stages : turn' = [turn EXCEPT ![t] = At(s)]
  BY DEF InsertJob, DispatchTask, FailPost, DispatchSync, Stages
<1>3. turn[t].stage \in {"admitted", "inserted"} /\ UNCHANGED limiter
  BY DEF InsertJob, DispatchTask, FailPost, DispatchSync
<1>4. LimiterInv'
  BY <1>0, <1>1, <1>2, <1>3, TurnGoes DEF Stages
<1>5. KeepsWord
  BY <1>0, <1>2, <1>3, OtherTurn
<1>6. ASSUME FailPost(t)
      PROVE  QueueInv'
  <2>1. turn' = [turn EXCEPT ![t] = At("failed")] /\ UNCHANGED <<job, queue, read>>
    BY <1>6 DEF FailPost
  <2>2. At("failed") \in TurnType /\ At("failed").stage = "failed"
    BY <1>1 DEF Stages
  <2> QED
    BY <1>0, <1>3, <2>1, <2>2, TurnWaits
<1>7. QueueInv'
  BY <1>6, InsertJobQueue, DispatchTaskQueue, DispatchSyncQueue
<1> QED
  BY <1>4, <1>5, <1>7

\* A step of the analyst's poll, of Cloud Tasks or of a worker.
LEMMA JobSteps ==
  ASSUME DeskInv,
         \/ \E t \in Turns : \/ DeskJobResponse(t) \/ DeliverAgain(t)
                             \/ \E w \in Workers : Deliver(t, w)
         \/ \E w \in Workers : Chat(w) \/ WriteResult(w) \/ FailRun(w)
  PROVE  LimiterInv' /\ QueueInv' /\ KeepsWord
<1>0. LimiterInv /\ QueueInv /\ turn \in [Turns -> TurnType] /\ worker \in [Workers -> WorkerType]
  BY DEF DeskInv, LimiterInv, LimiterTyped, QueueInv, QueueTyped
<1>1. QueueInv'
  <2>1. ASSUME NEW w \in Workers, WriteResult(w) \/ FailRun(w)
        PROVE  QueueInv'
    <3>1. worker[w] # Idle
      BY <2>1 DEF WriteResult, FailRun, Idle
    <3>2. worker[w].turn \in Turns
      BY <1>0, <3>1, WorkerTyped
    <3> QED
      BY <2>1, <3>2, WriteResultQueue, FailRunQueue
  <2> QED
    BY <2>1, DeskJobResponseQueue, DeliverAgainQueue, DeliverQueue, ChatQueue
<1>2. CASE UNCHANGED <<limiter, turn>>
  <2>1. LimiterInv'
    BY <1>0, <1>2 DEF LimiterInv, LimiterTyped, HitsAreLatest, ForgottenAreOld, ClocksPass,
                      WaitIsEnough, WindowHolds, RoomAt, Forgotten, limiter
  <2>2. KeepsWord
    BY <1>2 DEF KeepsWord
  <2> QED
    BY <1>1, <2>1, <2>2
<1>3. ASSUME NEW w \in Workers, WriteResult(w) \/ FailRun(w)
      PROVE  LimiterInv' /\ KeepsWord
  <2>1. worker[w] # Idle
    BY <1>3 DEF WriteResult, FailRun, Idle
  <2>2. PICK t \in Turns : t = worker[w].turn
    BY <1>0, <2>1, WorkerTyped
  <2>3. PICK s \in {"dispatched", "failed"} :
          turn' = [turn EXCEPT ![t] = IF @.stage = "running" THEN At(s) ELSE @]
    BY <1>3, <2>2 DEF WriteResult, FailRun, AfterFailure
  <2>4. UNCHANGED limiter
    BY <1>3 DEF WriteResult, FailRun
  <2>5. CASE turn[t].stage = "running"
    <3>1. turn' = [turn EXCEPT ![t] = At(s)]
      BY <2>3, <2>5
    <3>2. At(s) \in TurnType /\ At(s).stage \in {"dispatched", "failed"}
      BY DEF TurnType, Stages, At
    <3> QED
      BY <1>0, <2>4, <2>5, <3>1, <3>2, TurnGoes, OtherTurn
  <2>6. CASE turn[t].stage # "running"
    <3>1. turn' = turn
      BY <1>0, <2>3, <2>6
    <3> QED
      BY <1>2, <2>4, <3>1
  <2> QED
    BY <2>5, <2>6
<1>4. (\E w \in Workers : WriteResult(w) \/ FailRun(w)) \/ UNCHANGED <<limiter, turn>>
  BY DEF DeskJobResponse, DeliverAgain, Deliver, Chat
<1> QED
  BY <1>1, <1>2, <1>3, <1>4

\* Every step keeps the invariant, and the limiter's word.
LEMMA DeskStep ==
  ASSUME NumbersAssumption, DeskInv, [Next]_vars
  PROVE  DeskInv' /\ KeepsWord
<1>1. CASE UNCHANGED vars
  <2>1. UNCHANGED <<clock, hits, admitted, turn, job, task, worker, doubled, read, faults>>
    BY <1>1 DEF vars, limiter, queue
  <2>2. KeepsWord
    BY <2>1 DEF KeepsWord
  <2>3. Typed' /\ LimiterInv'
    BY <2>1 DEF DeskInv, Typed, LimiterInv, LimiterTyped, QueueTyped, HitsAreLatest, ForgottenAreOld,
                ClocksPass, WaitIsEnough, WindowHolds, RoomAt, Forgotten
  <2>4. QueueInv'
    BY <2>1 DEF DeskInv, QueueInv, QueueTyped, Undispatched, Alone, Settled, ReadIsKept, Runs
  <2> QED
    BY <2>2, <2>3, <2>4 DEF DeskInv
<1>2. CASE Next
  <2>1. LimiterInv' /\ QueueInv' /\ KeepsWord
    BY <1>2, LimiterSteps, RequestSteps, JobSteps DEF Next
  <2>2. faults' \in 0..MaxFaults
    <3>1. faults' = faults \/ Fault
      BY <1>2 DEF Next, Tick, ReadClock, Check, InsertJob, DispatchTask, FailPost, DeskJobResponse,
                  DeliverAgain, DispatchSync, Deliver, Chat, WriteResult, FailRun
    <3> QED
      BY <3>1 DEF Fault, DeskInv, Typed, NumbersAssumption
  <2> QED
    BY <2>1, <2>2 DEF DeskInv, Typed, LimiterInv, QueueInv
<1> QED
  BY <1>1, <1>2

\* The types the run checks.
LEMMA DeskTypeOK ==
  ASSUME DeskInv
  PROVE  TypeOK
<1>1. clock \in 0..MaxClock /\ faults \in 0..MaxFaults /\ hits \in Seq(0..MaxClock)
      /\ Len(hits) <= RATE_LIMIT
  BY DEF DeskInv, Typed, LimiterInv, LimiterTyped, HitsAreLatest, Times
<1>2. \A v \in JobType : v.status \in {"none", "pending", "done", "error"}
  BY DEF JobType, ResultType, NoJob, Pending
<1>3. \A v \in WorkerType : v.stage \in {"idle", "chat", "write"}
  BY DEF WorkerType, Idle
<1> QED
  BY <1>1, <1>2, <1>3 DEF DeskInv, Typed, QueueTyped, TypeOK

-----------------------------------------------------------------------------
(* Theorems.                                                               *)

\* The invariant of the limiter and of the queue holds in every state.
THEOREM DeskInductive == Spec => []DeskInv
<1>1. Init => DeskInv
  BY DeskInit, NumbersAssumption
<1>2. DeskInv /\ [Next]_vars => DeskInv'
  BY DeskStep, NumbersAssumption
<1> QED
  BY <1>1, <1>2, PTL DEF Spec

\* What an analyst has read of a turn stays its outcome, unless two workers
\* ran it at once (run_desk_chat_job).
THEOREM ReadStays == Spec => []ReadIsKept
<1>1. DeskInv => ReadIsKept
  BY DEF DeskInv, QueueInv
<1> QED
  BY <1>1, DeskInductive, PTL

\* No more than the limit in a window, and whoever waits out the Retry-After
\* it was told is let in, unless another was before (api/rate_limit.py).
THEOREM LimiterKeepsItsWord == Spec => LimiterHolds
<1>1. DeskInv => TypeOK /\ WindowHolds
  BY DeskTypeOK DEF DeskInv, LimiterInv
<1>2. DeskInv /\ [Next]_vars => [KeepsWord]_vars
  BY DeskStep, NumbersAssumption
<1>3. Spec => [][KeepsWord]_vars
  BY <1>2, DeskInductive, PTL DEF Spec
<1>4. Spec => RetryAfterSuffices
  BY <1>3 DEF KeepsWord, RetryAfterSuffices
<1> QED
  BY <1>1, <1>4, DeskInductive, PTL DEF LimiterHolds
=============================================================================
