------------------------ MODULE MarginPolicy_proofs ------------------------
(***************************************************************************)
(* Proofs about MarginPolicy, for any number of workers, triggers,         *)
(* counterparties, redeliveries, exceptions and lost instances.            *)
(***************************************************************************)
EXTENDS MarginPolicy, FiniteSetTheorems, TLAPS

-----------------------------------------------------------------------------
(* What a worker has in hand.                                              *)

Busy(w, e) == ~At(w, "idle") /\ work[w].event = e
Owning == InDispatch \cup {"lease", "takeover", "unclaim"}
Owns(w) == work[w].pc \in Owning

-----------------------------------------------------------------------------
(* Type correctness.                                                       *)

\* The lists name counterparties.
LEMMA ListsTyped ==
  /\ \A e \in Events : Listed[e] \subseteq Cps
  /\ \A e \in Events : \A i \in 1..Len(CpLists[e]) : CpLists[e][i] \in Listed[e]
  /\ \A e \in Events : \A cp \in Listed[e] : <<e, cp>> \in Keys
  /\ \A k \in Keys : k = <<k[1], k[2]>> /\ k[1] \in Events /\ k[2] \in Listed[k[1]]
<1>1. \A e \in Events : Listed[e] = {CpLists[e][i] : i \in DOMAIN CpLists[e]}
  BY DEF Listed
<1>2. \A e \in Events : DOMAIN CpLists[e] = 1..Len(CpLists[e])
  BY CpListsAssumption
<1>3. Keys = UNION {{e} \X Listed[e] : e \in Events}
  BY DEF Keys
<1>4. \A e \in Events : Listed[e] \subseteq Cps
  BY DEF Cps
<1>5. \A e \in Events : \A cp \in Listed[e] : <<e, cp>> \in {e} \X Listed[e]
  OBVIOUS
<1>6. ASSUME NEW e \in Events, NEW cp \in Listed[e]
      PROVE  <<e, cp>> \in Keys
  <2>1. {e} \X Listed[e] \in {{f} \X Listed[f] : f \in Events}
    OBVIOUS
  <2> QED
    BY <1>3, <1>5, <2>1
<1>7. ASSUME NEW k \in Keys
      PROVE  k = <<k[1], k[2]>> /\ k[1] \in Events /\ k[2] \in Listed[k[1]]
  <2>1. PICK e \in Events : k \in {e} \X Listed[e]
    BY <1>3
  <2> QED
    BY <2>1
<1> QED
  BY <1>1, <1>2, <1>4, <1>6, <1>7

Pcs == Owning \cup {"claim"}
Results == {"none", "done", "busy", "failed"}

\* A worker that has a counterparty in hand has one of its trigger's list.
Indexed == \A w \in Workers : Owns(w) => work[w].i <= Len(CpLists[work[w].event])

\* A request under way has a trigger and a place in its list.
LEMMA Handles ==
  ASSUME TypeOK, NEW w \in Workers, ~At(w, "idle")
  PROVE  /\ work[w] \in Work
         /\ work[w].event \in Events /\ work[w].i \in Nat \ {0}
         /\ work[w].pc \in Pcs
<1>1. work[w] \in Work
  BY DEF TypeOK, At, Idle
<1> QED
  BY <1>1 DEF Work, Pcs, Owning, InDispatch

\* The counterparty in hand is one of them.
LEMMA InHand ==
  ASSUME TypeOK, Indexed, NEW w \in Workers, Owns(w)
  PROVE  /\ ~At(w, "idle")
         /\ Cp(w) \in Listed[work[w].event] /\ Cp(w) \in Cps
         /\ Key(w) \in Keys /\ Key(w)[1] = work[w].event /\ Key(w)[2] = Cp(w)
<1>1. ~At(w, "idle")
  BY DEF Owns, At, Owning, InDispatch
<1>2. work[w].event \in Events /\ work[w].i \in 1..Len(CpLists[work[w].event])
  BY <1>1, Handles, CpListsAssumption DEF Indexed
<1> QED
  BY <1>1, <1>2, ListsTyped DEF Cp, Key

\* What a step does to the work: one worker's changes, and stays well typed.
Works(w, pc, result, i) ==
  /\ work' \in [Workers -> Work \cup {Idle}]
  /\ work'[w].pc = pc /\ work'[w].event = work[w].event /\ work'[w].i = i
  /\ work'[w].result = result
  /\ \A v \in Workers \ {w} : work'[v] = work[v]

\* A step that only moves the worker on.
LEMMA GotoWorks ==
  ASSUME TypeOK, NEW w \in Workers, ~At(w, "idle"), NEW pc \in Pcs, Goto(w, pc)
  PROVE  Works(w, pc, work[w].result, work[w].i) /\ work'[w].busy = work[w].busy
<1>1. work[w] \in Work
  BY Handles
<1>2. [work[w] EXCEPT !.pc = pc] \in Work
  BY <1>1 DEF Work, Pcs, Owning, InDispatch
<1> QED
  BY <1>1, <1>2 DEF TypeOK, Work, Goto, Works

\* One that ends its dispatch, or its attempt at the lease.
LEMMA ResultWorks ==
  ASSUME TypeOK, NEW w \in Workers, ~At(w, "idle"), NEW pc \in Pcs,
         NEW result \in Results, Result(w, result, pc)
  PROVE  Works(w, pc, result, work[w].i) /\ work'[w].busy = work[w].busy
<1>1. work[w] \in Work
  BY Handles
<1>2. [work[w] EXCEPT !.pc = pc, !.result = result] \in Work
  BY <1>1 DEF Work, Pcs, Owning, InDispatch, Results
<1> QED
  BY <1>1, <1>2 DEF TypeOK, Work, Result, Works

\* One that settles which run it updates.
LEMMA ThreadWorks ==
  ASSUME TypeOK, NEW w \in Workers, ~At(w, "idle"), NEW pc \in Pcs, NEW t \in Events,
         work' = [work EXCEPT ![w].pc = pc, ![w].thread = t]
  PROVE  Works(w, pc, work[w].result, work[w].i) /\ work'[w].thread = t
         /\ work'[w].busy = work[w].busy
<1>1. work[w] \in Work
  BY Handles
<1>2. [work[w] EXCEPT !.pc = pc, !.thread = t] \in Work
  BY <1>1 DEF Work, Pcs, Owning, InDispatch
<1> QED
  BY <1>1, <1>2 DEF TypeOK, Work, Works

\* The next counterparty of the list.
LEMMA NextCpWorks ==
  ASSUME TypeOK, NEW w \in Workers, ~At(w, "idle"), NEW busy \in BOOLEAN, NextCp(w, busy)
  PROVE  Works(w, "claim", work[w].result, work[w].i + 1)
         /\ (busy \/ work[w].busy => work'[w].busy)
<1> DEFINE b == work[w].busy \/ busy
           n == work[w].i + 1
           x == [work[w] EXCEPT !.pc = "claim", !.i = n, !.busy = b]
<1>1. work[w] \in Work
  BY Handles
<1>2. b \in BOOLEAN /\ n \in Nat \ {0}
  BY <1>1 DEF Work
<1>3. work' = [work EXCEPT ![w] = x]
  BY DEF NextCp
<1>4. busy \/ work[w].busy => b
  OBVIOUS
<1> HIDE DEF b, n
<1>5. /\ x \in Work /\ x.pc = "claim" /\ x.event = work[w].event /\ x.i = n
      /\ x.result = work[w].result /\ x.busy = b
  BY <1>1, <1>2 DEF Work
<1> HIDE DEF x
<1>6. /\ work' \in [Workers -> Work \cup {Idle}] /\ work'[w] = x
      /\ \A v \in Workers \ {w} : work'[v] = work[v]
  BY <1>3, <1>5 DEF TypeOK
<1> QED
  BY <1>4, <1>5, <1>6 DEF Works, n

\* The end of a request: the worker is idle, its message closer to settled.
LEMMA SettleWorks ==
  ASSUME TypeOK, NEW w \in Workers, ~At(w, "idle"), NEW ok \in BOOLEAN, Settle(w, ok)
  PROVE  /\ work' \in [Workers -> Work \cup {Idle}]
         /\ work'[w].pc = "idle" /\ \A v \in Workers \ {w} : work'[v] = work[v]
         /\ messages' \in [Events -> [state: {"new", "pending", "acked", "dead"},
                                      attempts: 0..MaxDeliveries, twice: BOOLEAN]]
         /\ \A e \in Events :
              /\ messages'[e].twice = messages[e].twice
              /\ messages[e].state # "new" => messages'[e].state # "new"
              /\ messages[e].state = "new" => messages'[e].state = "new"
              /\ messages'[e].state = "acked" /\ messages[e].state # "acked" =>
                   e = work[w].event /\ (ok \/ e \in Simulated)
<1>1. work[w].event \in Events
  BY Handles
<1>2. /\ work' = [work EXCEPT ![w] = Idle]
      /\ messages' = [messages EXCEPT ![work[w].event] =
           IF @.state # "pending" THEN @
           ELSE IF ok \/ work[w].event \in Simulated THEN [@ EXCEPT !.state = "acked"]
           ELSE IF @.attempts = MaxDeliveries THEN [@ EXCEPT !.state = "dead"]
           ELSE @]
  BY DEF Settle
<1> QED
  BY <1>1, <1>2, ZenonT(60) DEF TypeOK, Idle

\* A worker keeps its place in the list while it has the counterparty in hand.
LEMMA IndexedKept ==
  ASSUME Indexed, NEW w \in Workers, NEW pc, NEW result, NEW i, Works(w, pc, result, i),
         pc \in Owning => i <= Len(CpLists[work[w].event])
  PROVE  Indexed'
<1> SUFFICES ASSUME NEW v \in Workers, Owns(v)'
             PROVE  work'[v].i <= Len(CpLists[work'[v].event])
  BY DEF Indexed
<1>1. CASE v = w
  BY <1>1 DEF Works, Owns
<1>2. CASE v # w
  BY <1>2 DEF Works, Owns, Indexed
<1> QED
  BY <1>1, <1>2

\* A worker whose request is over has nothing in hand.
LEMMA IndexedSettled ==
  ASSUME Indexed, NEW w \in Workers, work'[w].pc = "idle",
         \A v \in Workers \ {w} : work'[v] = work[v]
  PROVE  Indexed'
<1> SUFFICES ASSUME NEW v \in Workers, Owns(v)'
             PROVE  work'[v].i <= Len(CpLists[work'[v].event])
  BY DEF Indexed
<1>1. v # w
  BY DEF Owns, Owning, InDispatch
<1> QED
  BY <1>1 DEF Owns, Indexed

\* What a trigger's outcome adds to the log.
LEMMA RecordTyped ==
  ASSUME TypeOK, Indexed, NEW w \in Workers, Owns(w), NEW outcome \in Outcomes,
         Record(w, outcome)
  PROVE  /\ log' \in [Keys -> Seq(Outcomes)]
         /\ log'[Key(w)] = Append(log[Key(w)], outcome)
         /\ \A k \in Keys \ {Key(w)} : log'[k] = log[k]
<1>1. Key(w) \in Keys
  BY InHand
<1>2. log \in [Keys -> Seq(Outcomes)]
  BY DEF TypeOK
<1>3. Append(log[Key(w)], outcome) \in Seq(Outcomes)
  BY <1>1, <1>2
<1>4. log' = [log EXCEPT ![Key(w)] = Append(log[Key(w)], outcome)]
  BY DEF Record
<1> HIDE DEF Key
<1> QED
  BY <1>1, <1>2, <1>3, <1>4

\* A counterparty's lease row changes to one of its states.
LEMMA LeaseTyped ==
  ASSUME TypeOK, NEW cp \in Cps, NEW l \in {"free", "live", "expired"},
         lease' = [lease EXCEPT ![cp] = l]
  PROVE  /\ lease' \in [Cps -> {"free", "live", "expired"}]
         /\ lease'[cp] = l /\ \A c \in Cps \ {cp} : lease'[c] = lease[c]
BY DEF TypeOK

\* A thread changes to another thread.
LEMMA ThreadTyped ==
  ASSUME TypeOK, NEW k, NEW th, k \in Keys => th \in Thread,
         threads' = [threads EXCEPT ![k] = th]
  PROVE  threads' \in [Keys -> Thread]
BY DEF TypeOK

\* What the actions write to a thread is a thread.
LEMMA ThreadUpdates ==
  ASSUME NEW th \in Thread
  PROVE  /\ \A e \in Events : [th EXCEPT !.gate = FALSE, !.applied = {e}] \in Thread
         /\ \A e \in Events : [th EXCEPT !.gate = FALSE, !.applied = th.applied \cup {e}] \in Thread
         /\ \A b \in BOOLEAN : [th EXCEPT !.breached = b, !.gate = b] \in Thread
         /\ [th EXCEPT !.breached = TRUE] \in Thread
         /\ \A d \in {"approved", "rejected"} :
              [th EXCEPT !.gate = FALSE, !.decision = d] \in Thread
         /\ [th EXCEPT !.over = TRUE] \in Thread
BY DEF Thread

\* Every step keeps the types and the places in the lists.
LEMMA TypedStep ==
  ASSUME TypeOK, Indexed, [Next]_vars
  PROVE  TypeOK' /\ Indexed'
<1> USE BoundsAssumption
<1>0. CASE UNCHANGED vars
  BY <1>0 DEF vars, TypeOK, Indexed, Owns
<1>1. ASSUME NEW w \in Workers, Claim(w)
      PROVE  TypeOK' /\ Indexed'
  <2>1. ~At(w, "idle") /\ work[w].i \in Nat \ {0}
    BY <1>1, Handles DEF Claim, At
  <2>2. CASE work[w].i > Len(CpLists[work[w].event])
    <3>1. Settle(w, ~work[w].busy) /\ UNCHANGED <<claims, lease, threads, log, stranded, crashes, failures>>
      BY <1>1, <2>2 DEF Claim
    <3>2. work[w].busy \in BOOLEAN
      BY <2>1, Handles DEF Work
    <3>3. (~work[w].busy) \in BOOLEAN
      BY <3>2
    <3> QED
      BY <2>1, <3>1, <3>3, SettleWorks, IndexedSettled DEF TypeOK
  <2>3. CASE ~(work[w].i > Len(CpLists[work[w].event]))
    <3>1. /\ \/ Goto(w, "lease") /\ (claims' = claims \/ claims' = claims \cup {Key(w)})
             \/ NextCp(w, FALSE) /\ claims' = claims
          /\ UNCHANGED <<messages, lease, threads, log, stranded, crashes, failures>>
      BY <1>1, <2>3 DEF Claim
    <3>2. work[w].i <= Len(CpLists[work[w].event]) /\ Key(w) \in Keys
      BY <2>1, <2>3, Handles, ListsTyped, CpListsAssumption, SMTT(30) DEF Key, Cp
    <3>3. ASSUME Goto(w, "lease")
          PROVE  work' \in [Workers -> Work \cup {Idle}] /\ Indexed'
      <4>1. Works(w, "lease", work[w].result, work[w].i)
        BY <2>1, <3>3, GotoWorks DEF Pcs, Owning
      <4> QED
        BY <3>2, <4>1, IndexedKept DEF Works
    <3>4. ASSUME NextCp(w, FALSE)
          PROVE  work' \in [Workers -> Work \cup {Idle}] /\ Indexed'
      <4>1. Works(w, "claim", work[w].result, work[w].i + 1)
        BY <2>1, <3>4, NextCpWorks
      <4> QED
        BY <4>1, IndexedKept DEF Works, Owning, InDispatch
    <3>5. claims' \subseteq Keys
      BY <3>1, <3>2 DEF TypeOK
    <3> QED
      BY <3>1, <3>3, <3>4, <3>5 DEF TypeOK
  <2> QED
    BY <2>2, <2>3
<1>2. ASSUME NEW w \in Workers, TakeLease(w) \/ TakeOver(w)
      PROVE  TypeOK' /\ Indexed'
  <2>1. Owns(w) /\ ~At(w, "idle")
    BY <1>2 DEF TakeLease, TakeOver, Owns, At, Owning
  <2>2. Cp(w) \in Cps /\ work[w].i <= Len(CpLists[work[w].event])
    BY <2>1, InHand DEF Indexed
  <2>3. /\ lease' = lease \/ lease' = [lease EXCEPT ![Cp(w)] = "live"]
        /\ \/ Goto(w, "find") \/ Goto(w, "takeover")
           \/ Result(w, "busy", "unclaim") \/ Result(w, "failed", "unclaim")
        /\ UNCHANGED <<claims, threads, messages, log, stranded, crashes, failures>>
    <3>1. lease[Cp(w)] \in {"free", "live", "expired"}
      BY <2>2 DEF TypeOK
    <3> QED
      BY <1>2, <3>1 DEF TakeLease, TakeOver
  <2>4. \E pc \in Pcs : \E result \in Results \cup {work[w].result} :
          Works(w, pc, result, work[w].i)
    BY <2>1, <2>3, GotoWorks, ResultWorks DEF Pcs, Owning, InDispatch, Results
  <2>5. work' \in [Workers -> Work \cup {Idle}] /\ Indexed'
    BY <2>2, <2>4, IndexedKept DEF Works
  <2>6. lease' \in [Cps -> {"free", "live", "expired"}]
    BY <2>2, <2>3 DEF TypeOK
  <2> QED
    BY <2>3, <2>5, <2>6 DEF TypeOK
<1>3. ASSUME NEW w \in Workers, Dispatch(w)
      PROVE  TypeOK' /\ Indexed'
  <2>1. Owns(w) /\ ~At(w, "idle")
    BY <1>3 DEF Dispatch, Owns, At, Owning, InDispatch
  <2>2. work[w].i <= Len(CpLists[work[w].event])
    BY <2>1 DEF Indexed
  <2>3. /\ \/ log' = log
           \/ \E outcome \in Outcomes : Record(w, outcome)
        /\ \/ Goto(w, "start") \/ Result(w, "done", "release")
           \/ \E t \in Events : work' = [work EXCEPT ![w].pc = "update", ![w].thread = t]
        /\ UNCHANGED <<claims, lease, threads, messages, stranded, crashes, failures>>
    BY <1>3 DEF Dispatch, Leave, Outcomes, FindOpenCall, OpenCalls
  <2>4. \E pc \in Pcs : \E result \in Results \cup {work[w].result} :
          Works(w, pc, result, work[w].i)
    BY <2>1, <2>3, GotoWorks, ResultWorks, ThreadWorks DEF Pcs, Owning, InDispatch, Results
  <2>5. work' \in [Workers -> Work \cup {Idle}] /\ Indexed'
    BY <2>2, <2>4, IndexedKept DEF Works
  <2>6. log' \in [Keys -> Seq(Outcomes)]
    BY <2>1, <2>3, RecordTyped DEF TypeOK
  <2> QED
    BY <2>3, <2>5, <2>6 DEF TypeOK
<1>4. ASSUME NEW w \in Workers, StartRun(w) \/ UpdateState(w)
      PROVE  TypeOK' /\ Indexed'
  <2>1. Owns(w) /\ ~At(w, "idle")
    BY <1>4 DEF StartRun, UpdateState, Owns, At, Owning, InDispatch
  <2>2. work[w].i <= Len(CpLists[work[w].event]) /\ work[w].event \in Events
    BY <2>1, Handles DEF Indexed
  <2>3. /\ \/ Goto(w, "evaluate")
           \/ work' = [work EXCEPT ![w].pc = "evaluate", ![w].thread = work[w].event]
        /\ stranded' \in {stranded, stranded \cup {"decision"}}
        /\ UNCHANGED <<claims, lease, log, messages, crashes, failures>>
    BY <1>4 DEF StartRun, UpdateState
  <2>4. \E pc \in Pcs : \E result \in Results \cup {work[w].result} :
          Works(w, pc, result, work[w].i)
    BY <2>1, <2>2, <2>3, GotoWorks, ThreadWorks DEF Pcs, Owning, InDispatch
  <2>5. work' \in [Workers -> Work \cup {Idle}] /\ Indexed'
    BY <2>2, <2>4, IndexedKept DEF Works
  <2>6. threads' \in [Keys -> Thread]
    <3>1. CASE StartRun(w)
      <4> DEFINE th == [threads[Key(w)] EXCEPT !.gate = FALSE, !.applied = {work[w].event}]
      <4>1. threads' = [threads EXCEPT ![Key(w)] = th]
        BY <3>1 DEF StartRun
      <4>2. Key(w) \in Keys => th \in Thread
        BY <2>2, ThreadUpdates DEF TypeOK
      <4> HIDE DEF th
      <4> QED
        BY <4>1, <4>2, ThreadTyped
    <3>2. CASE UpdateState(w)
      <4> DEFINE k == <<work[w].thread, Cp(w)>>
                 th == [threads[k] EXCEPT !.gate = FALSE,
                                          !.applied = threads[k].applied \cup {work[w].event}]
      <4>1. threads' = [threads EXCEPT ![k] = th]
        BY <3>2 DEF UpdateState
      <4>2. k \in Keys => th \in Thread
        BY <2>2, ThreadUpdates DEF TypeOK
      <4> HIDE DEF th, k
      <4> QED
        BY <4>1, <4>2, ThreadTyped
    <3> QED
      BY <1>4, <3>1, <3>2
  <2> QED
    BY <2>3, <2>5, <2>6 DEF TypeOK
<1>5. ASSUME NEW w \in Workers, Evaluate(w) \/ AuditUpdate(w) \/ FailDispatch(w) \/ FailLate(w),
             UNCHANGED <<claims, lease, crashes>>, failures' \in {failures, failures + 1}
      PROVE  TypeOK' /\ Indexed'
  <2>1. Owns(w) /\ ~At(w, "idle")
    BY <1>5 DEF Evaluate, AuditUpdate, FailDispatch, FailLate, Owns, At, Owning, InDispatch
  <2>2. work[w].i <= Len(CpLists[work[w].event])
    BY <2>1 DEF Indexed
  <2>3. /\ log' = log \/ \E outcome \in Outcomes : Record(w, outcome)
        /\ \/ \E result \in Results, pc \in Pcs : Result(w, result, pc)
           \/ Goto(w, "release")
        /\ stranded' \in {stranded, stranded \cup {"lease"}}
        /\ UNCHANGED messages
    BY <1>5
    DEF Evaluate, AuditUpdate, FailDispatch, FailLate, Outcomes, Results, Pcs, Owning, InDispatch
  <2>4. \E pc \in Pcs : \E result \in Results \cup {work[w].result} :
          Works(w, pc, result, work[w].i)
    BY <2>1, <2>3, GotoWorks, ResultWorks DEF Pcs, Owning, InDispatch, Results
  <2>5. work' \in [Workers -> Work \cup {Idle}] /\ Indexed'
    BY <2>2, <2>4, IndexedKept DEF Works
  <2>6. log' \in [Keys -> Seq(Outcomes)]
    BY <2>1, <2>3, RecordTyped DEF TypeOK
  <2>7. threads' \in [Keys -> Thread]
    <3> DEFINE k == <<work[w].thread, Cp(w)>>
    <3>1. CASE UNCHANGED threads
      BY <3>1 DEF TypeOK
    <3>2. ASSUME NEW b \in BOOLEAN,
                 threads' = [threads EXCEPT ![k] = [@ EXCEPT !.breached = b, !.gate = b]]
          PROVE  threads' \in [Keys -> Thread]
      <4> DEFINE th == [threads[k] EXCEPT !.breached = b, !.gate = b]
      <4>1. k \in Keys => th \in Thread
        BY ThreadUpdates DEF TypeOK
      <4>2. threads' = [threads EXCEPT ![k] = th]
        BY <3>2
      <4> HIDE DEF th, k
      <4> QED
        BY <4>1, <4>2, ThreadTyped
    <3>3. ASSUME threads' = [threads EXCEPT ![k] = [@ EXCEPT !.breached = TRUE]]
          PROVE  threads' \in [Keys -> Thread]
      <4> DEFINE th == [threads[k] EXCEPT !.breached = TRUE]
      <4>1. k \in Keys => th \in Thread
        BY ThreadUpdates DEF TypeOK
      <4>2. threads' = [threads EXCEPT ![k] = th]
        BY <3>3
      <4> HIDE DEF th, k
      <4> QED
        BY <4>1, <4>2, ThreadTyped
    <3> QED
      BY <1>5, <3>1, <3>2, <3>3 DEF Evaluate, AuditUpdate, FailDispatch, FailLate
  <2>8. failures' \in Nat
    BY <1>5 DEF TypeOK
  <2> QED
    BY <1>5, <2>3, <2>5, <2>6, <2>7, <2>8 DEF TypeOK
<1>6. ASSUME NEW w \in Workers, ReleaseLease(w)
      PROVE  TypeOK' /\ Indexed'
  <2>1. Owns(w) /\ ~At(w, "idle")
    BY <1>6 DEF ReleaseLease, Owns, At, Owning, InDispatch
  <2>2. Cp(w) \in Cps /\ work[w].i <= Len(CpLists[work[w].event])
    BY <2>1, InHand DEF Indexed
  <2>3. /\ lease' = [lease EXCEPT ![Cp(w)] = "free"]
        /\ Goto(w, "unclaim") \/ NextCp(w, FALSE)
        /\ UNCHANGED <<claims, threads, messages, log, stranded, crashes, failures>>
    BY <1>6 DEF ReleaseLease
  <2>4. \/ Works(w, "unclaim", work[w].result, work[w].i)
        \/ Works(w, "claim", work[w].result, work[w].i + 1)
    BY <2>1, <2>3, GotoWorks, NextCpWorks DEF Pcs, Owning
  <2>5. work' \in [Workers -> Work \cup {Idle}] /\ Indexed'
    BY <2>2, <2>4, IndexedKept DEF Works, Owning, InDispatch
  <2>6. lease' \in [Cps -> {"free", "live", "expired"}]
    BY <2>2, <2>3, LeaseTyped
  <2> QED
    BY <2>3, <2>5, <2>6 DEF TypeOK
<1>7. ASSUME NEW w \in Workers, ReleaseRun(w)
      PROVE  TypeOK' /\ Indexed'
  <2>1. ~At(w, "idle")
    BY <1>7 DEF ReleaseRun, At
  <2>2. /\ claims' = claims \ {Key(w)}
        /\ \/ NextCp(w, work[w].event \notin Simulated) /\ UNCHANGED messages
           \/ Settle(w, FALSE)
        /\ UNCHANGED <<lease, threads, log, stranded, crashes, failures>>
    BY <1>7 DEF ReleaseRun
  <2>3. claims' \subseteq Keys
    BY <2>2 DEF TypeOK
  <2>4. CASE NextCp(w, work[w].event \notin Simulated) /\ UNCHANGED messages
    <3>1. (work[w].event \notin Simulated) \in BOOLEAN
      OBVIOUS
    <3>2. Works(w, "claim", work[w].result, work[w].i + 1)
      BY <2>1, <2>4, <3>1, NextCpWorks
    <3>3. work' \in [Workers -> Work \cup {Idle}] /\ Indexed'
      BY <3>2, IndexedKept DEF Works, Owning, InDispatch
    <3> QED
      BY <2>2, <2>3, <2>4, <3>3 DEF TypeOK
  <2>5. CASE Settle(w, FALSE)
    BY <2>1, <2>2, <2>3, <2>5, SettleWorks, IndexedSettled DEF TypeOK
  <2> QED
    BY <2>2, <2>4, <2>5
<1>8. ASSUME NEW w \in Workers, Crash(w)
      PROVE  TypeOK' /\ Indexed'
  <2>1. /\ ~At(w, "idle") /\ Settle(w, FALSE) /\ crashes' = crashes + 1
        /\ UNCHANGED <<claims, lease, threads, log, stranded, failures>>
    BY <1>8 DEF Crash
  <2>2. crashes' \in Nat
    BY <2>1 DEF TypeOK
  <2>3. /\ work' \in [Workers -> Work \cup {Idle}] /\ Indexed'
        /\ messages' \in [Events -> [state: {"new", "pending", "acked", "dead"},
                                     attempts: 0..MaxDeliveries, twice: BOOLEAN]]
    BY <2>1, SettleWorks, IndexedSettled
  <2> QED
    BY <2>1, <2>2, <2>3 DEF TypeOK
<1>9. ASSUME NEW w \in Workers, NEW e \in Events, Deliver(w, e) \/ Simulate(w, e)
      PROVE  TypeOK' /\ Indexed'
  <2> DEFINE x == [pc |-> "claim", event |-> e, i |-> 1, busy |-> FALSE, result |-> "none",
                   thread |-> e]
  <2>1. /\ work' = [work EXCEPT ![w] = x]
        /\ UNCHANGED <<claims, lease, threads, log, stranded, crashes, failures>>
    BY <1>9 DEF Deliver, Simulate, Begin
  <2>2. x \in Work /\ x.pc = "claim"
    BY DEF Work
  <2> HIDE DEF x
  <2>3. work' \in [Workers -> Work \cup {Idle}]
    BY <2>1, <2>2 DEF TypeOK
  <2>4. Indexed'
    <3> SUFFICES ASSUME NEW v \in Workers, Owns(v)'
                 PROVE  work'[v].i <= Len(CpLists[work'[v].event])
      BY DEF Indexed
    <3>1. v # w
      BY <2>1, <2>2 DEF TypeOK, Owns, Owning, InDispatch
    <3> QED
      BY <2>1, <3>1 DEF TypeOK, Indexed, Owns
  <2>5. messages' \in [Events -> [state: {"new", "pending", "acked", "dead"},
                                  attempts: 0..MaxDeliveries, twice: BOOLEAN]]
    <3>1. CASE Deliver(w, e)
      <4> DEFINE inHand == \E v \in Workers : ~At(v, "idle") /\ work[v].event = e
                 m == [state |-> IF messages[e].state = "new" THEN "pending" ELSE messages[e].state,
                       attempts |-> messages[e].attempts + 1,
                       twice |-> messages[e].twice \/ inHand]
      <4>1. messages' = [messages EXCEPT ![e] = m] /\ messages[e].attempts < MaxDeliveries
        BY <3>1 DEF Deliver, Deliverable
      <4>2. (messages[e].twice \/ inHand) \in BOOLEAN
        BY DEF TypeOK
      <4>3. messages[e].attempts + 1 \in 0..MaxDeliveries
        BY <4>1 DEF TypeOK
      <4>4. m.state \in {"new", "pending", "acked", "dead"}
        BY DEF TypeOK
      <4>5. m \in [state: {"new", "pending", "acked", "dead"},
                   attempts: 0..MaxDeliveries, twice: BOOLEAN]
        BY <4>2, <4>3, <4>4
      <4> HIDE DEF m
      <4> QED
        BY <4>1, <4>5 DEF TypeOK
    <3>2. CASE Simulate(w, e)
      BY <3>2 DEF Simulate, TypeOK
    <3> QED
      BY <1>9, <3>1, <3>2
  <2> QED
    BY <2>1, <2>3, <2>4, <2>5 DEF TypeOK
<1>10. ASSUME NEW cp \in Cps, Expire(cp)
       PROVE  TypeOK' /\ Indexed'
  BY <1>10 DEF Expire, TypeOK, Indexed, Owns
<1>11. ASSUME NEW t \in Events, NEW cp \in Listed[t], Approve(t, cp) \/ Resolve(t, cp)
       PROVE  TypeOK' /\ Indexed'
  <2> DEFINE k == <<t, cp>>
  <2>1. /\ UNCHANGED <<claims, lease, work, messages, log, stranded, crashes, failures>>
        /\ \/ threads' = [threads EXCEPT ![k] = [threads[k] EXCEPT !.over = TRUE]]
           \/ \E d \in {"approved", "rejected"} :
                threads' = [threads EXCEPT ![k] = [threads[k] EXCEPT !.gate = FALSE, !.decision = d]]
    BY <1>11 DEF Approve, Resolve
  <2>2. threads[k] \in Thread
    BY ListsTyped DEF TypeOK
  <2> HIDE DEF k
  <2>3. threads' \in [Keys -> Thread]
    BY <2>1, <2>2, ThreadUpdates, ThreadTyped
  <2> QED
    BY <2>1, <2>3 DEF TypeOK, Indexed, Owns
<1>12. ASSUME NEW w \in Workers, FailRequest(w), UNCHANGED <<claims, lease, crashes>>,
              failures' = failures + 1
       PROVE  TypeOK' /\ Indexed'
  <2>1. /\ ~At(w, "idle") /\ Settle(w, FALSE) /\ UNCHANGED <<threads, log>>
        /\ stranded' \in {stranded, stranded \cup {"claim"}}
    BY <1>12 DEF FailRequest
  <2>2. /\ work' \in [Workers -> Work \cup {Idle}] /\ Indexed'
        /\ messages' \in [Events -> [state: {"new", "pending", "acked", "dead"},
                                     attempts: 0..MaxDeliveries, twice: BOOLEAN]]
    BY <2>1, SettleWorks, IndexedSettled
  <2> QED
    BY <1>12, <2>1, <2>2 DEF TypeOK
<1>13. ASSUME NEW w \in Workers, Fail(w)
       PROVE  TypeOK' /\ Indexed'
  BY <1>5, <1>12, <1>13 DEF Fail
<1>14. ASSUME NEW w \in Workers, Evaluate(w) \/ AuditUpdate(w)
       PROVE  TypeOK' /\ Indexed'
  <2>1. UNCHANGED <<claims, lease, crashes, failures>>
    BY <1>14 DEF Evaluate, AuditUpdate
  <2> QED
    BY <1>5, <1>14, <2>1
<1> QED
  BY <1>0, <1>1, <1>2, <1>3, <1>4, <1>6, <1>7, <1>8, <1>9, <1>10, <1>11, <1>13, <1>14
  DEF Next, Worker

\* Every variable stays within its type, whatever overlaps, fails or is lost.
THEOREM TypeCorrect == Spec => []TypeOK
<1>1. Init => TypeOK /\ Indexed
  BY BoundsAssumption
  DEF Init, TypeOK, Indexed, Owns, Owning, InDispatch, Idle, Thread, NewThread
<1>2. TypeOK /\ Indexed /\ [Next]_vars => TypeOK' /\ Indexed'
  BY TypedStep
<1> QED
  BY <1>1, <1>2, PTL DEF Spec

-----------------------------------------------------------------------------
(* The kinds of steps, by what they do to the claims and the log.          *)

Others(w) == \A v \in Workers \ {w} : work'[v] = work[v]
SamePlace(w) ==
  /\ work'[w].event = work[w].event /\ work'[w].i = work[w].i
  /\ work'[w].busy = work[w].busy

\* A counterparty in hand that is dealt with, but for the call's audit record and
\* giving back its lease.
Dealt(w) == At(w, "audit") \/ (At(w, "release") /\ work[w].result # "failed")

\* A worker gets on with the counterparty in hand.
Moves(w) ==
  /\ Owns(w) /\ Owns(w)' /\ (Dealt(w)' <=> Dealt(w))
  /\ SamePlace(w) /\ Others(w) /\ UNCHANGED <<claims, log, messages>>

\* It deals with it.
Records(w) ==
  /\ Owns(w) /\ ~Dealt(w) /\ Dealt(w)'
  /\ SamePlace(w) /\ Others(w) /\ UNCHANGED <<claims, messages>>
  /\ \E outcome \in Outcomes : log'[Key(w)] = Append(log[Key(w)], outcome)
  /\ \A k \in Keys \ {Key(w)} : log'[k] = log[k]

\* An exception follows: it will be dealt with again.
Raises(w) ==
  /\ Dealt(w) /\ Owns(w)' /\ ~Dealt(w)'
  /\ SamePlace(w) /\ Others(w) /\ UNCHANGED <<claims, messages>>
  /\ log'[Key(w)] = Append(log[Key(w)], "raised")
  /\ \A k \in Keys \ {Key(w)} : log'[k] = log[k]

\* It goes to the next, having dealt with this one or found it claimed.
Onward(w) ==
  /\ At(w, "claim")' /\ work'[w].event = work[w].event /\ work'[w].i = work[w].i + 1
  /\ Others(w) /\ UNCHANGED <<log, messages>>
Passes(w) ==
  /\ \/ Dealt(w)
     \/ /\ At(w, "claim") /\ work[w].i <= Len(CpLists[work[w].event])
        /\ work[w].event \notin Simulated /\ Key(w) \in claims
  /\ Onward(w) /\ (work[w].busy => work'[w].busy) /\ UNCHANGED claims

\* It claims the counterparty.
Takes(w) ==
  /\ At(w, "claim") /\ work[w].i <= Len(CpLists[work[w].event])
  /\ At(w, "lease")' /\ SamePlace(w) /\ Others(w) /\ UNCHANGED <<log, messages>>
  /\ IF work[w].event \in Simulated THEN UNCHANGED claims
     ELSE Key(w) \notin claims /\ claims' = claims \cup {Key(w)}

\* Its request ends.
Through(w) == At(w, "claim") /\ work[w].i > Len(CpLists[work[w].event]) /\ ~work[w].busy
Leaves(w) ==
  /\ At(w, "idle")' /\ Others(w) /\ UNCHANGED log
  /\ \A e \in Events :
       /\ messages'[e].twice = messages[e].twice
       /\ messages'[e].state = "new" <=> messages[e].state = "new"
       /\ messages'[e].state = "acked" /\ messages[e].state # "acked" =>
            e = work[w].event /\ (Through(w) \/ e \in Simulated)
Ends(w) ==
  /\ ~At(w, "idle") /\ Leaves(w) /\ UNCHANGED claims
  /\ crashes' = 0 /\ "claim" \notin stranded' => At(w, "claim")

\* It gives its claim back, and goes on or ends.
GivesBack(w) ==
  /\ At(w, "unclaim") /\ claims' = claims \ {Key(w)}
  /\ Leaves(w) \/ (Onward(w) /\ (work[w].event \notin Simulated => work'[w].busy))

\* A request begins.
Begins(w, e) ==
  /\ At(w, "idle") /\ At(w, "claim")' /\ work'[w].event = e /\ work'[w].i = 1
  /\ Others(w) /\ UNCHANGED <<claims, log>>
  /\ \A f \in Events \ {e} : messages'[f] = messages[f]
  /\ messages'[e].state # "new"
  /\ IF e \in Simulated THEN messages[e].state = "new"
     ELSE /\ messages'[e].state = "acked" => messages[e].state = "acked"
          /\ ~messages'[e].twice => ~messages[e].twice /\ \A v \in Workers : ~Busy(v, e)

Kinds(w) ==
  \/ Moves(w) \/ Records(w) \/ Raises(w) \/ Passes(w) \/ Takes(w) \/ Ends(w) \/ GivesBack(w)
  \/ \E e \in Events : Begins(w, e)

\* A dispatch in progress moves, deals with the counterparty, or fails.
LEMMA ResultKinds ==
  ASSUME TypeOK, Indexed, NEW w \in Workers, Owns(w), ~Dealt(w),
         UNCHANGED <<claims, messages>>,
         \/ UNCHANGED log
              /\ \/ \E pc \in Owning \ {"release", "audit"} : Goto(w, pc)
                 \/ Result(w, "busy", "unclaim") \/ Result(w, "failed", "unclaim")
                 \/ Result(w, "failed", "release")
                 \/ \E t \in Events, pc \in Owning \ {"release", "audit"} :
                      work' = [work EXCEPT ![w].pc = pc, ![w].thread = t]
         \/ /\ Result(w, "done", "release") \/ Result(w, "done", "audit")
            /\ \E outcome \in Outcomes : Record(w, outcome)
  PROVE  Moves(w) \/ Records(w)
<1>1. ~At(w, "idle") /\ ~Dealt(w)
  BY InHand
<1>2. ASSUME NEW pc \in Owning \ {"release", "audit"}, Goto(w, pc), UNCHANGED log
      PROVE  Moves(w)
  <2>1. Works(w, pc, work[w].result, work[w].i) /\ work'[w].busy = work[w].busy
    BY <1>1, <1>2, GotoWorks DEF Pcs
  <2> QED
    BY <1>1, <1>2, <2>1 DEF Works, Moves, Owns, Dealt, At, SamePlace, Others
<1>3. ASSUME NEW t \in Events, NEW pc \in Owning \ {"release", "audit"}, UNCHANGED log,
             work' = [work EXCEPT ![w].pc = pc, ![w].thread = t]
      PROVE  Moves(w)
  <2>1. Works(w, pc, work[w].result, work[w].i) /\ work'[w].busy = work[w].busy
    BY <1>1, <1>3, ThreadWorks DEF Pcs
  <2> QED
    BY <1>1, <1>3, <2>1 DEF Works, Moves, Owns, Dealt, At, SamePlace, Others
<1>4. ASSUME UNCHANGED log,
             \/ Result(w, "busy", "unclaim") \/ Result(w, "failed", "unclaim")
             \/ Result(w, "failed", "release")
      PROVE  Moves(w)
  <2>1. \/ Works(w, "unclaim", "busy", work[w].i) /\ work'[w].busy = work[w].busy
        \/ Works(w, "unclaim", "failed", work[w].i) /\ work'[w].busy = work[w].busy
        \/ Works(w, "release", "failed", work[w].i) /\ work'[w].busy = work[w].busy
    BY <1>1, <1>4, ResultWorks DEF Pcs, Owning, InDispatch, Results
  <2> QED
    BY <1>1, <1>4, <2>1 DEF Works, Moves, Owns, Owning, InDispatch, Dealt, At, SamePlace, Others
<1>5. ASSUME NEW pc \in {"release", "audit"}, Result(w, "done", pc), NEW outcome \in Outcomes, Record(w, outcome)
      PROVE  Records(w)
  <2>1. Works(w, pc, "done", work[w].i) /\ work'[w].busy = work[w].busy
    BY <1>1, <1>5, ResultWorks DEF Pcs, Owning, InDispatch, Results
  <2> QED
    BY <1>1, <1>5, <2>1, RecordTyped
    DEF Works, Records, Dealt, At, SamePlace, Others
<1> QED
  BY <1>2, <1>3, <1>4, <1>5

\* Every step leaves all of this alone, or is of one of the kinds.
Still == UNCHANGED <<work, log, claims, messages>>

\* A request that is settled leaves, acknowledging what it went through.
LEMMA LeavesAfterSettle ==
  ASSUME TypeOK, NEW w \in Workers, ~At(w, "idle"), NEW ok \in BOOLEAN, Settle(w, ok),
         ok => Through(w), UNCHANGED log
  PROVE  Leaves(w)
<1>1. /\ work'[w].pc = "idle" /\ \A v \in Workers \ {w} : work'[v] = work[v]
      /\ \A e \in Events :
           /\ messages'[e].twice = messages[e].twice
           /\ messages[e].state # "new" => messages'[e].state # "new"
           /\ messages[e].state = "new" => messages'[e].state = "new"
           /\ messages'[e].state = "acked" /\ messages[e].state # "acked" =>
                e = work[w].event /\ (ok \/ e \in Simulated)
  BY SettleWorks
<1> QED
  BY <1>1 DEF Leaves, Others, At

\* Every step leaves the claims, the log and the messages alone, or is of one kind.
LEMMA StepKinds ==
  ASSUME TypeOK, Indexed, [Next]_vars
  PROVE  Still \/ \E w \in Workers : Kinds(w)
<1>0. CASE UNCHANGED vars
  BY <1>0 DEF vars, Still
<1>1. ASSUME NEW w \in Workers, Claim(w)
      PROVE  Kinds(w)
  <2>1. ~At(w, "idle") /\ At(w, "claim") /\ work[w].i \in Nat \ {0} /\ work[w].busy \in BOOLEAN
    BY <1>1, Handles DEF Claim, At, Work
  <2>2. CASE work[w].i > Len(CpLists[work[w].event])
    <3>1. Settle(w, ~work[w].busy) /\ UNCHANGED <<claims, log>>
      BY <1>1, <2>2 DEF Claim
    <3>2. (~work[w].busy) \in BOOLEAN /\ (~work[w].busy => Through(w))
      BY <2>1, <2>2 DEF Through
    <3>3. Leaves(w)
      BY <2>1, <3>1, <3>2, LeavesAfterSettle
    <3> QED
      BY <2>1, <3>1, <3>3 DEF Kinds, Ends
  <2>3. CASE ~(work[w].i > Len(CpLists[work[w].event]))
    <3>1. work[w].i <= Len(CpLists[work[w].event])
      BY <2>1, <2>3, Handles, CpListsAssumption
    <3>2. UNCHANGED <<messages, log>>
      BY <1>1, <2>3 DEF Claim
    <3>3. CASE work[w].event \in Simulated
      <4>1. Goto(w, "lease") /\ UNCHANGED claims
        BY <1>1, <2>3, <3>3 DEF Claim
      <4>2. Works(w, "lease", work[w].result, work[w].i) /\ work'[w].busy = work[w].busy
        BY <2>1, <4>1, GotoWorks DEF Pcs, Owning
      <4> QED
        BY <2>1, <3>1, <3>2, <3>3, <4>1, <4>2 DEF Kinds, Takes, Works, SamePlace, Others, At
    <3>4. CASE work[w].event \notin Simulated /\ Key(w) \in claims
      <4>1. NextCp(w, FALSE) /\ UNCHANGED claims
        BY <1>1, <2>3, <3>4 DEF Claim
      <4>2. Works(w, "claim", work[w].result, work[w].i + 1)
            /\ (work[w].busy => work'[w].busy)
        BY <2>1, <4>1, NextCpWorks
      <4> QED
        BY <2>1, <3>1, <3>2, <3>4, <4>1, <4>2 DEF Kinds, Passes, Onward, Works, Others, At
    <3>5. CASE work[w].event \notin Simulated /\ Key(w) \notin claims
      <4>1. Goto(w, "lease") /\ claims' = claims \cup {Key(w)}
        BY <1>1, <2>3, <3>5 DEF Claim
      <4>2. Works(w, "lease", work[w].result, work[w].i) /\ work'[w].busy = work[w].busy
        BY <2>1, <4>1, GotoWorks DEF Pcs, Owning
      <4> QED
        BY <2>1, <3>1, <3>2, <3>5, <4>1, <4>2 DEF Kinds, Takes, Works, SamePlace, Others, At
    <3> QED
      BY <3>3, <3>4, <3>5
  <2> QED
    BY <2>2, <2>3
<1>2. ASSUME NEW w \in Workers, TakeLease(w) \/ TakeOver(w)
      PROVE  Kinds(w)
  <2>1. Owns(w) /\ ~Dealt(w)
    BY <1>2 DEF Dealt, TakeLease, TakeOver, Owns, At, Owning
  <2>2. lease[Cp(w)] \in {"free", "live", "expired"}
    BY <2>1, InHand DEF TypeOK
  <2>3. /\ \/ Goto(w, "find") \/ Goto(w, "takeover")
           \/ Result(w, "busy", "unclaim") \/ Result(w, "failed", "unclaim")
        /\ UNCHANGED <<claims, messages, log>>
    BY <1>2, <2>2 DEF TakeLease, TakeOver
  <2> QED
    BY <2>1, <2>3, ResultKinds DEF Kinds, Owning, InDispatch
<1>3. ASSUME NEW w \in Workers, Dispatch(w)
      PROVE  Kinds(w)
  <2>1. Owns(w) /\ ~Dealt(w)
    BY <1>3 DEF Dealt, Dispatch, Owns, At, Owning, InDispatch
  <2>2. /\ \/ UNCHANGED log /\ Goto(w, "start")
           \/ \E t \in Events : /\ UNCHANGED log
                                /\ work' = [work EXCEPT ![w].pc = "update", ![w].thread = t]
           \/ Result(w, "done", "release") /\ \E outcome \in Outcomes : Record(w, outcome)
        /\ UNCHANGED <<claims, messages>>
    <3>1. \A t \in FindOpenCall(Cp(w)) : t \in Events
      BY DEF FindOpenCall, OpenCalls
    <3> QED
      BY <1>3, <3>1 DEF Dispatch, Leave, Outcomes
  <2> QED
    BY <2>1, <2>2, ResultKinds DEF Kinds, Owning, InDispatch
<1>4. ASSUME NEW w \in Workers, StartRun(w) \/ UpdateState(w)
      PROVE  Kinds(w)
  <2>1. Owns(w) /\ ~Dealt(w)
    BY <1>4 DEF Dealt, StartRun, UpdateState, Owns, At, Owning, InDispatch
  <2>2. /\ \/ Goto(w, "evaluate")
           \/ \E t \in Events : work' = [work EXCEPT ![w].pc = "evaluate", ![w].thread = t]
        /\ UNCHANGED <<claims, log, messages>>
    BY <1>4, <2>1, InHand, Handles DEF StartRun, UpdateState
  <2> QED
    BY <2>1, <2>2, ResultKinds DEF Kinds, Owning, InDispatch
<1>5. ASSUME NEW w \in Workers, Evaluate(w) \/ FailDispatch(w), UNCHANGED <<claims, messages>>
      PROVE  Kinds(w)
  <2>1. Owns(w) /\ ~Dealt(w)
    BY <1>5 DEF Dealt, Evaluate, FailDispatch, Owns, At, Owning, InDispatch
  <2>2. \/ /\ UNCHANGED log
           /\ Result(w, "failed", "unclaim") \/ Result(w, "failed", "release")
        \/ /\ Result(w, "done", "release") \/ Result(w, "done", "audit")
           /\ \E outcome \in Outcomes : Record(w, outcome)
    BY <1>5 DEF Evaluate, FailDispatch, Outcomes
  <2> QED
    BY <1>5, <2>1, <2>2, ResultKinds DEF Kinds
<1>6. ASSUME NEW w \in Workers, ReleaseLease(w)
      PROVE  Kinds(w)
  <2>1. Owns(w) /\ ~At(w, "idle") /\ At(w, "release") /\ UNCHANGED <<claims, log, messages>>
    BY <1>6 DEF ReleaseLease, Owns, At, Owning, InDispatch
  <2>2. CASE work[w].result = "failed"
    <3>1. Goto(w, "unclaim")
      BY <1>6, <2>2 DEF ReleaseLease
    <3>2. Works(w, "unclaim", work[w].result, work[w].i) /\ work'[w].busy = work[w].busy
      BY <2>1, <3>1, GotoWorks DEF Pcs, Owning
    <3> QED
      BY <2>1, <2>2, <3>2
      DEF Kinds, Moves, Works, SamePlace, Others, Owns, Owning, InDispatch, Dealt, At
  <2>3. CASE work[w].result # "failed"
    <3>1. NextCp(w, FALSE)
      BY <1>6, <2>3 DEF ReleaseLease
    <3>2. Works(w, "claim", work[w].result, work[w].i + 1)
          /\ (work[w].busy => work'[w].busy)
      BY <2>1, <3>1, NextCpWorks
    <3> QED
      BY <2>1, <2>3, <3>2 DEF Kinds, Passes, Dealt, Onward, Works, Others, At
  <2> QED
    BY <2>2, <2>3
<1>7. ASSUME NEW w \in Workers, ReleaseRun(w)
      PROVE  Kinds(w)
  <2>1. ~At(w, "idle") /\ At(w, "unclaim") /\ claims' = claims \ {Key(w)} /\ UNCHANGED log
    BY <1>7 DEF ReleaseRun, At
  <2>2. CASE NextCp(w, work[w].event \notin Simulated) /\ UNCHANGED messages
    <3> DEFINE b == work[w].event \notin Simulated
    <3>1. b \in BOOLEAN /\ (work[w].event \notin Simulated => b)
      OBVIOUS
    <3> HIDE DEF b
    <3>2. NextCp(w, b)
      BY <2>2 DEF b
    <3>3. Works(w, "claim", work[w].result, work[w].i + 1) /\ (b => work'[w].busy)
      BY <2>1, <3>1, <3>2, NextCpWorks
    <3> QED
      BY <2>1, <2>2, <3>1, <3>3 DEF Kinds, GivesBack, Onward, Works, Others, At
  <2>3. CASE Settle(w, FALSE)
    <3>1. Leaves(w)
      BY <2>1, <2>3, LeavesAfterSettle
    <3> QED
      BY <2>1, <3>1 DEF Kinds, GivesBack
  <2> QED
    BY <1>7, <2>2, <2>3 DEF ReleaseRun
<1>8. ASSUME NEW w \in Workers, Crash(w)
      PROVE  Kinds(w)
  <2>1. /\ ~At(w, "idle") /\ Settle(w, FALSE) /\ crashes' = crashes + 1
        /\ UNCHANGED <<claims, log>>
    BY <1>8 DEF Crash
  <2>2. crashes' # 0
    BY <2>1 DEF TypeOK
  <2>3. Leaves(w)
    BY <2>1, LeavesAfterSettle
  <2> QED
    BY <2>1, <2>2, <2>3 DEF Kinds, Ends
<1>9. ASSUME NEW w \in Workers, NEW e \in Events, Deliver(w, e) \/ Simulate(w, e)
      PROVE  Begins(w, e)
  <2>1. /\ At(w, "idle") /\ UNCHANGED <<claims, log>>
        /\ work' = [work EXCEPT ![w] =
             [pc |-> "claim", event |-> e, i |-> 1, busy |-> FALSE, result |-> "none",
              thread |-> e]]
    BY <1>9 DEF Deliver, Simulate, Begin
  <2>2. At(w, "claim")' /\ work'[w].event = e /\ work'[w].i = 1 /\ Others(w)
    BY <2>1 DEF TypeOK, At, Others
  <2>3. /\ messages[e].state \in {"new", "pending", "acked", "dead"}
        /\ messages[e].twice \in BOOLEAN
        /\ DOMAIN messages = Events
    BY DEF TypeOK
  <2>4. CASE Deliver(w, e)
    <3> DEFINE inHand == \E v \in Workers : ~At(v, "idle") /\ work[v].event = e
    <3>1. /\ e \notin Simulated
          /\ messages' = [messages EXCEPT ![e] =
               [state |-> IF @.state = "new" THEN "pending" ELSE @.state,
                attempts |-> @.attempts + 1, twice |-> @.twice \/ inHand]]
      BY <2>4 DEF Deliver
    <3>2. /\ \A f \in Events \ {e} : messages'[f] = messages[f]
          /\ messages'[e].state = IF messages[e].state = "new" THEN "pending" ELSE messages[e].state
          /\ messages'[e].twice = (messages[e].twice \/ inHand)
      BY <3>1, <2>3
    <3>3. ~messages'[e].twice => ~messages[e].twice /\ ~inHand
      BY <3>2
    <3>4. messages'[e].state # "new" /\ (messages'[e].state = "acked" => messages[e].state = "acked")
      BY <3>2
    <3>5. ~inHand => \A v \in Workers : ~Busy(v, e)
      BY DEF Busy
    <3> HIDE DEF inHand
    <3> QED
      BY <2>1, <2>2, <3>1, <3>2, <3>3, <3>4, <3>5 DEF Begins
  <2>5. CASE Simulate(w, e)
    <3>1. /\ e \in Simulated /\ messages[e].state = "new"
          /\ messages' = [messages EXCEPT ![e] = [state |-> "pending", attempts |-> 1, twice |-> FALSE]]
      BY <2>5 DEF Simulate
    <3>2. /\ \A f \in Events \ {e} : messages'[f] = messages[f]
          /\ messages'[e].state # "new"
      BY <3>1, <2>3
    <3> QED
      BY <2>1, <2>2, <3>1, <3>2 DEF Begins
  <2> QED
    BY <1>9, <2>4, <2>5
<1>10. ASSUME NEW cp \in Cps, Expire(cp)
       PROVE  Still
  BY <1>10 DEF Expire, Still
<1>11. ASSUME NEW t \in Events, NEW cp \in Listed[t], Approve(t, cp) \/ Resolve(t, cp)
       PROVE  Still
  BY <1>11 DEF Approve, Resolve, Still
<1>12. ASSUME NEW w \in Workers, AuditUpdate(w)
       PROVE  Moves(w)
  <2>1. Owns(w) /\ Dealt(w) /\ ~At(w, "idle") /\ Result(w, "done", "release")
    BY <1>12 DEF AuditUpdate, Owns, Dealt, At, Owning, InDispatch
  <2>2. Works(w, "release", "done", work[w].i) /\ work'[w].busy = work[w].busy
    BY <2>1, ResultWorks DEF Pcs, Owning, InDispatch, Results
  <2> QED
    BY <1>12, <2>1, <2>2
    DEF AuditUpdate, Moves, Works, SamePlace, Others, Owns, Owning, InDispatch, Dealt, At
<1>16. \A w \in Workers : Worker(w) => Kinds(w)
  <2>1. \A w \in Workers : Evaluate(w) => UNCHANGED <<claims, messages>>
    BY DEF Evaluate
  <2> QED
    BY <1>1, <1>2, <1>3, <1>4, <1>5, <1>6, <1>7, <1>12, <2>1 DEF Worker, Kinds
<1>13. \A w \in Workers : \A e \in Events : Deliver(w, e) \/ Simulate(w, e) => Kinds(w)
  BY <1>9 DEF Kinds
<1>14. ASSUME NEW w \in Workers, FailLate(w), UNCHANGED claims
       PROVE  Moves(w) \/ Raises(w)
  <2>1. /\ Owns(w) /\ ~At(w, "idle") /\ UNCHANGED <<claims, messages>>
        /\ Result(w, "failed", "release") \/ Result(w, "failed", "unclaim")
    BY <1>14 DEF FailLate, Owns, At, Owning, InDispatch
  <2>2. \E pc \in {"release", "unclaim"} :
          Works(w, pc, "failed", work[w].i) /\ work'[w].busy = work[w].busy
    BY <2>1, ResultWorks DEF Pcs, Owning, InDispatch, Results
  <2>3. Owns(w)' /\ ~Dealt(w)' /\ SamePlace(w) /\ Others(w)
    BY <2>2 DEF Works, SamePlace, Others, Owns, Owning, InDispatch, Dealt, At
  <2>4. CASE At(w, "release") /\ work[w].result = "failed"
    BY <1>14, <2>1, <2>3, <2>4 DEF FailLate, Moves, Dealt, At
  <2>5. CASE ~(At(w, "release") /\ work[w].result = "failed")
    <3>1. Record(w, "raised") /\ Dealt(w)
      BY <1>14, <2>5 DEF FailLate, Dealt
    <3> QED
      BY <2>1, <2>3, <3>1, RecordTyped DEF Raises, Outcomes
  <2> QED
    BY <2>4, <2>5
<1>15. ASSUME NEW w \in Workers, FailRequest(w), UNCHANGED claims
       PROVE  Ends(w)
  <2>1. /\ ~At(w, "idle") /\ Settle(w, FALSE) /\ UNCHANGED <<claims, log>>
        /\ At(w, "claim") \/ "claim" \in stranded'
    BY <1>15 DEF FailRequest
  <2>2. Leaves(w)
    BY <2>1, LeavesAfterSettle
  <2> QED
    BY <2>1, <2>2 DEF Ends
<1>17. ASSUME NEW w \in Workers, Fail(w)
       PROVE  Kinds(w)
  <2>1. FailDispatch(w) => UNCHANGED messages
    BY DEF FailDispatch
  <2> QED
    BY <1>5, <1>14, <1>15, <1>17, <2>1 DEF Fail, Kinds
<1> QED
  BY <1>0, <1>8, <1>10, <1>11, <1>13, <1>16, <1>17 DEF Next

-----------------------------------------------------------------------------
(* No trigger is dealt with twice, unless an exception followed.           *)

\* Nothing was done for a trigger's counterparty, or an exception followed what was.
Undone(k) == log[k] = <<>> \/ log[k][Len(log[k])] = "raised"

\* A claim stands behind every counterparty in hand and every one that is done.
Claimed ==
  \A w \in Workers : Owns(w) /\ work[w].event \notin Simulated => Key(w) \in claims
LogClaimed ==
  \A k \in Keys : k[1] \notin Simulated /\ ~Undone(k) => k \in claims

\* A trigger's counterparty is in one worker's hands at most, and not yet dealt
\* with while it is.
Exclusive ==
  \A w, v \in Workers :
    Owns(w) /\ Owns(v) /\ work[w].event \notin Simulated /\ Key(w) = Key(v) => w = v
Undealt ==
  \A w \in Workers : Owns(w) /\ ~Dealt(w) => Undone(Key(w))

\* A simulation is one request, which has not dealt with the rest of its list.
SimulatedOnce ==
  \A e \in Simulated :
    /\ \A w, v \in Workers : Busy(w, e) /\ Busy(v, e) => w = v
    /\ \A w \in Workers : Busy(w, e) =>
         /\ messages[e].state # "new"
         /\ \A j \in 1..Len(CpLists[e]) :
              j > work[w].i \/ (j = work[w].i /\ At(w, "claim")) => log[<<e, CpLists[e][j]>>] = <<>>
    /\ messages[e].state = "new" => \A cp \in Listed[e] : log[<<e, cp>>] = <<>>

Once == Claimed /\ LogClaimed /\ Exclusive /\ Undealt /\ SimulatedOnce /\ AtMostOnce

\* What the other workers have in hand stays as it is.
LEMMA Elsewhere ==
  ASSUME NEW w \in Workers, Others(w), NEW v \in Workers, v # w
  PROVE  /\ work'[v] = work[v] /\ (Owns(v)' <=> Owns(v)) /\ (Dealt(v)' <=> Dealt(v))
         /\ Key(v)' = Key(v) /\ \A e \in Events : Busy(v, e)' <=> Busy(v, e)
BY DEF Others, Owns, Dealt, Key, Cp, Busy, At

\* So does the counterparty of a worker that keeps its place.
LEMMA InPlace ==
  ASSUME NEW w \in Workers, SamePlace(w)
  PROVE  Key(w)' = Key(w)
BY DEF SamePlace, Key, Cp

\* The entry of the log that a worker is about to make.
LEMMA KeyAt ==
  ASSUME TypeOK, Indexed, NEW w \in Workers, Owns(w)
  PROVE  /\ work[w].event \in Events /\ Busy(w, work[w].event)
         /\ work[w].i \in 1..Len(CpLists[work[w].event])
         /\ Key(w) = <<work[w].event, CpLists[work[w].event][work[w].i]>>
         /\ Key(w) \in Keys
BY InHand, Handles, CpListsAssumption DEF Indexed, Busy, Key, Cp

\* The counterparty in hand moves on: nothing is logged or claimed.
LEMMA OnceMoves ==
  ASSUME TypeOK, Indexed, Once, NEW w \in Workers, Moves(w)
  PROVE  Once'
<1>1. /\ Owns(w) /\ Owns(w)' /\ (Dealt(w)' <=> Dealt(w))
      /\ SamePlace(w) /\ Others(w) /\ UNCHANGED <<claims, log, messages>>
  BY DEF Moves
<1>2. \A v \in Workers : (Owns(v)' <=> Owns(v)) /\ Key(v)' = Key(v)
                         /\ (Dealt(v)' <=> Dealt(v)) /\ work'[v].event = work[v].event
                         /\ work'[v].i = work[v].i /\ (At(v, "claim")' => At(v, "claim"))
                         /\ (At(v, "idle") => At(v, "idle")')
                         /\ \A e \in Events : Busy(v, e)' => Busy(v, e)
  <2>1. ~At(w, "claim")' /\ ~At(w, "idle") /\ ~At(w, "idle")'
    BY <1>1 DEF Owns, At, Owning, InDispatch
  <2> QED
    BY <1>1, <2>1, Elsewhere, InPlace DEF SamePlace, At, Busy
<1>3. Claimed' /\ LogClaimed' /\ Exclusive' /\ Undealt' /\ AtMostOnce'
  BY <1>1, <1>2 DEF Once, Claimed, LogClaimed, Exclusive, Undealt, Undone, AtMostOnce
<1>4. SimulatedOnce'
  BY <1>1, <1>2, EventsAssumption DEF Once, SimulatedOnce
<1> QED
  BY <1>3, <1>4 DEF Once

\* An entry that follows nothing, or an exception, or is one, keeps what is said of
\* the entries.
LEMMA Entered ==
  ASSUME NEW s \in Seq(Outcomes), NEW outcome \in Outcomes,
         s = <<>> \/ s[Len(s)] = "raised" \/ outcome = "raised",
         \A i \in 2..Len(s) : "raised" \in {s[i - 1], s[i]}
  PROVE  LET t == Append(s, outcome)
         IN  /\ \A i \in 2..Len(t) : "raised" \in {t[i - 1], t[i]}
             /\ t # <<>> /\ t[Len(t)] = outcome
<1> DEFINE t == Append(s, outcome)
<1>1. /\ Len(s) \in Nat /\ Len(t) = Len(s) + 1 /\ t[Len(s) + 1] = outcome
      /\ \A i \in 1..Len(s) : t[i] = s[i]
  OBVIOUS
<1> HIDE DEF t
<1>2. ASSUME NEW i \in 2..Len(t)
      PROVE  "raised" \in {t[i - 1], t[i]}
  <2>1. CASE i \in 2..Len(s)
    <3>1. i \in 1..Len(s) /\ i - 1 \in 1..Len(s)
      BY <1>1, <2>1
    <3> QED
      BY <1>1, <2>1, <3>1
  <2>2. CASE i = Len(s) + 1
    <3>1. Len(s) \in 1..Len(s) /\ i - 1 = Len(s)
      BY <1>1, <1>2, <2>2
    <3>2. s # <<>>
      BY <3>1
    <3> QED
      BY <1>1, <2>2, <3>1, <3>2
  <2> QED
    BY <1>1, <2>1, <2>2
<1>3. t # <<>>
  BY <1>1
<1> QED
  BY <1>1, <1>2, <1>3 DEF t

\* It is dealt with, with nothing done before or an exception after that; or an
\* exception follows.
LEMMA OnceLogs ==
  ASSUME TypeOK, Indexed, Once, NEW w \in Workers, Records(w) \/ Raises(w)
  PROVE  Once'
<1>1. /\ Owns(w) /\ Owns(w)' /\ (Dealt(w)' <=> ~Dealt(w))
      /\ SamePlace(w) /\ Others(w) /\ UNCHANGED <<claims, messages>>
      /\ \A k \in Keys \ {Key(w)} : log'[k] = log[k]
  BY DEF Records, Raises, Dealt, Owns, At, Owning, InDispatch
<1>2. \A v \in Workers : (Owns(v)' <=> Owns(v)) /\ Key(v)' = Key(v)
                         /\ work'[v].event = work[v].event /\ work'[v].i = work[v].i
                         /\ (At(v, "claim")' => At(v, "claim"))
                         /\ \A e \in Events : Busy(v, e)' => Busy(v, e)
  <2>1. ~At(w, "claim")' /\ ~At(w, "idle") /\ ~At(w, "idle")'
    BY <1>1 DEF Owns, At, Owning, InDispatch
  <2> QED
    BY <1>1, <2>1, Elsewhere, InPlace DEF SamePlace, At, Busy
<1>3. \A v \in Workers \ {w} : Dealt(v)' <=> Dealt(v)
  BY <1>1, Elsewhere
<1>4. Key(w) \in Keys /\ log[Key(w)] \in Seq(Outcomes)
  BY <1>1, KeyAt DEF TypeOK
<1>5. /\ \A i \in 2..Len(log'[Key(w)]) : "raised" \in {log'[Key(w)][i - 1], log'[Key(w)][i]}
      /\ Dealt(w) => Undone(Key(w))'
  <2>1. PICK outcome \in Outcomes :
          /\ log'[Key(w)] = Append(log[Key(w)], outcome)
          /\ Dealt(w) => outcome = "raised"
          /\ Undone(Key(w)) \/ outcome = "raised"
    BY <1>1, "raised" \in Outcomes DEF Records, Raises, Once, Undealt, Outcomes
  <2>2. \A i \in 2..Len(log[Key(w)]) : "raised" \in {log[Key(w)][i - 1], log[Key(w)][i]}
    BY <1>4 DEF Once, AtMostOnce
  <2>3. LET t == Append(log[Key(w)], outcome)
        IN  /\ \A i \in 2..Len(t) : "raised" \in {t[i - 1], t[i]}
            /\ t # <<>> /\ t[Len(t)] = outcome
    BY <1>4, <2>1, <2>2, Entered DEF Undone
  <2> QED
    BY <1>2, <2>1, <2>3 DEF Undone
<1>6. Claimed' /\ AtMostOnce'
  BY <1>1, <1>2, <1>5 DEF Once, Claimed, AtMostOnce
<1>7. Exclusive'
  BY <1>1, <1>2 DEF Once, Exclusive
<1>8. LogClaimed'
  BY <1>1, <1>4, KeyAt DEF Once, Claimed, LogClaimed, Undone
<1>9. ASSUME NEW v \in Workers, v # w, Owns(v), Key(v) = Key(w)
      PROVE  FALSE
  <2>1. work[v].event = work[w].event
    BY <1>9 DEF Key
  <2>2. CASE work[w].event \in Simulated
    BY <1>1, <1>9, <2>1, <2>2, KeyAt DEF Once, SimulatedOnce
  <2>3. CASE work[w].event \notin Simulated
    BY <1>1, <1>9, <2>3 DEF Once, Exclusive
  <2> QED
    BY <2>2, <2>3
<1>10. Undealt'
  <2> SUFFICES ASSUME NEW v \in Workers, Owns(v)', ~Dealt(v)'
               PROVE  Undone(Key(v))'
    BY DEF Undealt
  <2>1. CASE v = w
    BY <1>1, <1>5, <2>1
  <2>2. CASE v # w
    <3>1. Owns(v) /\ ~Dealt(v) /\ Key(v)' = Key(v)
      BY <1>2, <1>3, <2>2
    <3>2. Key(v) \in Keys /\ Key(v) # Key(w) /\ Undone(Key(v))
      BY <1>9, <2>2, <3>1, KeyAt DEF Once, Undealt
    <3> QED
      BY <1>1, <3>1, <3>2 DEF Undone
  <2> QED
    BY <2>1, <2>2
<1>11. SimulatedOnce'
  <2> SUFFICES ASSUME NEW e \in Simulated
               PROVE  /\ \A u, v \in Workers : Busy(u, e)' /\ Busy(v, e)' => u = v
                      /\ \A v \in Workers : Busy(v, e)' =>
                           /\ messages'[e].state # "new"
                           /\ \A j \in 1..Len(CpLists[e]) :
                                j > work'[v].i \/ (j = work'[v].i /\ At(v, "claim")') =>
                                  log'[<<e, CpLists[e][j]>>] = <<>>
                      /\ messages'[e].state = "new" => \A cp \in Listed[e] : log'[<<e, cp>>] = <<>>
    BY DEF SimulatedOnce
  <2>0. e \in Events
    BY EventsAssumption
  <2>1. \A u, v \in Workers : Busy(u, e)' /\ Busy(v, e)' => u = v
    BY <1>2, <2>0 DEF Once, SimulatedOnce
  <2>2. ASSUME NEW v \in Workers, Busy(v, e)', NEW j \in 1..Len(CpLists[e]),
               j > work'[v].i \/ (j = work'[v].i /\ At(v, "claim")')
        PROVE  log'[<<e, CpLists[e][j]>>] = <<>>
    <3>1. Busy(v, e) /\ (j > work[v].i \/ (j = work[v].i /\ At(v, "claim")))
      BY <1>2, <2>0, <2>2
    <3>2. log[<<e, CpLists[e][j]>>] = <<>> /\ <<e, CpLists[e][j]>> \in Keys
      BY <2>0, <3>1, ListsTyped DEF Once, SimulatedOnce
    <3>3. <<e, CpLists[e][j]>> # Key(w)
      <4>1. CASE work[w].event # e
        BY <4>1 DEF Key
      <4>2. CASE work[w].event = e
        <5>1. v = w /\ work[w].i \in 1..Len(CpLists[e]) /\ ~At(w, "claim")
              /\ Key(w) = <<e, CpLists[e][work[w].i]>>
          <6>1. v = w
            BY <1>1, <3>1, <4>2, KeyAt DEF Once, SimulatedOnce
          <6> QED
            BY <1>1, <4>2, <6>1, KeyAt DEF Owns, At, Owning, InDispatch
        <5>2. j # work[w].i
          BY <3>1, <5>1
        <5> QED
          BY <2>0, <5>1, <5>2, CpListsAssumption
      <4> QED
        BY <4>1, <4>2
    <3> QED
      BY <1>1, <3>2, <3>3
  <2>3. ASSUME NEW v \in Workers, Busy(v, e)'
        PROVE  messages'[e].state # "new"
    BY <1>1, <1>2, <2>0, <2>3 DEF Once, SimulatedOnce
  <2>4. ASSUME messages'[e].state = "new", NEW cp \in Listed[e]
        PROVE  log'[<<e, cp>>] = <<>>
    <3>1. messages[e].state = "new" /\ log[<<e, cp>>] = <<>> /\ <<e, cp>> \in Keys
      BY <1>1, <2>0, <2>4, ListsTyped DEF Once, SimulatedOnce
    <3>2. work[w].event # e
      BY <1>1, <3>1, KeyAt DEF Once, SimulatedOnce
    <3> QED
      BY <1>1, <3>1, <3>2 DEF Key
  <2> QED
    BY <2>1, <2>2, <2>3, <2>4
<1> QED
  BY <1>6, <1>7, <1>8, <1>10, <1>11 DEF Once

\* The next counterparty's turn: those before it are done with.
LEMMA OncePasses ==
  ASSUME TypeOK, Indexed, Once, NEW w \in Workers, Passes(w)
  PROVE  Once'
<1>1. /\ ~At(w, "idle") /\ At(w, "claim")' /\ ~Owns(w)' /\ Others(w)
      /\ work'[w].event = work[w].event /\ work'[w].i = work[w].i + 1
      /\ UNCHANGED <<claims, log, messages>>
  BY DEF Passes, Onward, Dealt, Owns, Owning, InDispatch, At
<1>2. \A v \in Workers : \A e \in Events : Busy(v, e)' => Busy(v, e)
  BY <1>1, Elsewhere DEF Busy
<1>3. \A v \in Workers \ {w} :
        (Owns(v)' <=> Owns(v)) /\ Key(v)' = Key(v) /\ (Dealt(v)' <=> Dealt(v)) /\ work'[v] = work[v]
  BY <1>1, Elsewhere
<1>4. Claimed' /\ LogClaimed' /\ Exclusive' /\ Undealt' /\ AtMostOnce'
  BY <1>1, <1>3 DEF Once, Claimed, LogClaimed, Exclusive, Undealt, Undone, AtMostOnce
<1>5. SimulatedOnce'
  <2> SUFFICES ASSUME NEW e \in Simulated
               PROVE  /\ \A u, v \in Workers : Busy(u, e)' /\ Busy(v, e)' => u = v
                      /\ \A v \in Workers : Busy(v, e)' =>
                           /\ messages'[e].state # "new"
                           /\ \A j \in 1..Len(CpLists[e]) :
                                j > work'[v].i \/ (j = work'[v].i /\ At(v, "claim")') =>
                                  log'[<<e, CpLists[e][j]>>] = <<>>
                      /\ messages'[e].state = "new" => \A cp \in Listed[e] : log'[<<e, cp>>] = <<>>
    BY DEF SimulatedOnce
  <2>0. e \in Events
    BY EventsAssumption
  <2>1. ASSUME NEW v \in Workers, Busy(v, e)', NEW j \in 1..Len(CpLists[e]),
               j > work'[v].i \/ (j = work'[v].i /\ At(v, "claim")')
        PROVE  log'[<<e, CpLists[e][j]>>] = <<>>
    <3>1. Busy(v, e) /\ (j > work[v].i \/ (j = work[v].i /\ At(v, "claim")))
      <4>1. CASE v = w
        <5>1. work[w].i \in Nat /\ Busy(w, e)
          BY <1>1, <1>2, <2>0, <2>1, <4>1, Handles
        <5> QED
          BY <1>1, <2>1, <4>1, <5>1
      <4>2. CASE v # w
        BY <1>2, <1>3, <2>0, <2>1, <4>2 DEF At
      <4> QED
        BY <4>1, <4>2
    <3> QED
      BY <1>1, <2>0, <3>1 DEF Once, SimulatedOnce
  <2> QED
    BY <1>1, <1>2, <2>0, <2>1 DEF Once, SimulatedOnce
<1> QED
  BY <1>4, <1>5 DEF Once

\* A counterparty is claimed that nothing was done for: a claim stands behind
\* each one that is in hand or dealt with.
LEMMA OnceTakes ==
  ASSUME TypeOK, Indexed, Indexed', TypeOK', Once, NEW w \in Workers, Takes(w)
  PROVE  Once'
<1>1. /\ At(w, "claim") /\ At(w, "lease")' /\ ~At(w, "idle") /\ Owns(w)' /\ ~Dealt(w)'
      /\ ~At(w, "claim")' /\ ~Owns(w)
      /\ SamePlace(w) /\ Others(w) /\ UNCHANGED <<log, messages>>
      /\ work[w].i <= Len(CpLists[work[w].event])
  BY DEF Takes, At, Owns, Dealt, Owning, InDispatch
<1>2. /\ work[w].event \in Events /\ Busy(w, work[w].event)
      /\ work[w].i \in 1..Len(CpLists[work[w].event])
      /\ Key(w) = <<work[w].event, CpLists[work[w].event][work[w].i]>>
      /\ Key(w) \in Keys /\ Key(w)' = Key(w)
  BY <1>1, Handles, InPlace, ListsTyped, CpListsAssumption DEF Busy, Key, Cp
<1>3. \A v \in Workers \ {w} :
        (Owns(v)' <=> Owns(v)) /\ Key(v)' = Key(v) /\ (Dealt(v)' <=> Dealt(v)) /\ work'[v] = work[v]
  BY <1>1, Elsewhere
<1>4. \A v \in Workers : \A e \in Events : Busy(v, e)' => Busy(v, e)
  BY <1>1, <1>3 DEF SamePlace, Busy, At
<1>5. SimulatedOnce'
  BY <1>1, <1>3, <1>4, EventsAssumption, SMTT(30) DEF Once, SimulatedOnce, SamePlace, At
<1>6. AtMostOnce'
  BY <1>1 DEF Once, AtMostOnce
<1>7. CASE work[w].event \in Simulated
  <2>1. claims' = claims
    BY <1>7 DEF Takes
  <2>2. work'[w].event \in Simulated
    BY <1>1, <1>7 DEF SamePlace
  <2>3. log'[Key(w)'] = <<>>
    BY <1>1, <1>2, <1>7 DEF Once, SimulatedOnce
  <2>4. Claimed' /\ LogClaimed'
    BY <1>1, <1>3, <2>1, <2>2 DEF Once, Claimed, LogClaimed, Undone
  <2>5. Undealt'
    BY <1>1, <1>3, <2>3 DEF Once, Undealt, Undone
  <2>6. \A v \in Workers : Owns(v)' /\ Key(v)' = Key(w)' => work'[v].event \in Simulated
    BY <1>7, <1>2, <1>3, <2>2 DEF Key
  <2>7. Exclusive'
    BY <1>1, <1>2, <1>3, <2>2, <2>6 DEF Once, Exclusive
  <2> QED
    BY <1>5, <1>6, <2>4, <2>5, <2>7 DEF Once
<1>8. CASE work[w].event \notin Simulated
  <2>1. Key(w) \notin claims /\ claims' = claims \cup {Key(w)}
    BY <1>8 DEF Takes
  <2>2. Undone(Key(w))'
    BY <1>1, <1>2, <1>8, <2>1 DEF Once, LogClaimed, Key, Undone
  <2>3. Claimed' /\ LogClaimed'
    BY <1>1, <1>2, <1>3, <2>1 DEF Once, Claimed, LogClaimed, Undone
  <2>4. Undealt'
    BY <1>1, <1>3, <2>2 DEF Once, Undealt, Undone
  <2>5. ASSUME NEW v \in Workers, v # w, Owns(v)', Key(v)' = Key(w)'
        PROVE  FALSE
    <3>1. Owns(v) /\ Key(v) = Key(w)
      BY <1>2, <1>3, <2>5
    <3>2. work[v].event \notin Simulated
      BY <1>8, <3>1 DEF Key
    <3> QED
      BY <2>1, <3>1, <3>2 DEF Once, Claimed
  <2>6. Exclusive'
    BY <1>2, <1>3, <2>5 DEF Once, Exclusive
  <2> QED
    BY <1>5, <1>6, <2>3, <2>4, <2>6 DEF Once
<1> QED
  BY <1>7, <1>8

\* A request is over: what it had in hand is nobody's.
LEMMA OnceLeaves ==
  ASSUME TypeOK, Indexed, Once, NEW w \in Workers, ~At(w, "idle"), Leaves(w)
  PROVE  /\ Exclusive' /\ Undealt' /\ SimulatedOnce' /\ AtMostOnce'
         /\ \A v \in Workers : Owns(v)' =>
              v # w /\ Owns(v) /\ Key(v)' = Key(v) /\ work'[v] = work[v]
<1>1. /\ At(w, "idle")' /\ ~Owns(w)' /\ Others(w) /\ UNCHANGED log
      /\ \A e \in Events : ~Busy(w, e)'
      /\ \A e \in Events : messages'[e].state = "new" <=> messages[e].state = "new"
  BY DEF Leaves, Owns, Owning, InDispatch, At, Busy
<1>2. \A v \in Workers \ {w} :
        (Owns(v)' <=> Owns(v)) /\ Key(v)' = Key(v) /\ (Dealt(v)' <=> Dealt(v)) /\ work'[v] = work[v]
  BY <1>1, Elsewhere
<1>3. \A v \in Workers : \A e \in Events : Busy(v, e)' => v # w /\ Busy(v, e)
  BY <1>1, <1>2 DEF Busy, At
<1>4. Exclusive' /\ Undealt' /\ AtMostOnce'
  BY <1>1, <1>2 DEF Once, Exclusive, Undealt, Undone, AtMostOnce
<1>5. SimulatedOnce'
  BY <1>1, <1>2, <1>3, EventsAssumption DEF Once, SimulatedOnce, At
<1> QED
  BY <1>1, <1>2, <1>4, <1>5

\* A request ends and keeps its claims.
LEMMA OnceEnds ==
  ASSUME TypeOK, Indexed, Once, NEW w \in Workers, Ends(w)
  PROVE  Once'
<1>1. ~At(w, "idle") /\ Leaves(w) /\ UNCHANGED <<claims, log>>
  BY DEF Ends, Leaves
<1> QED
  BY <1>1, OnceLeaves DEF Once, Claimed, LogClaimed, Undone

\* A claim is given back for a counterparty that is not done.
LEMMA OnceGivesBack ==
  ASSUME TypeOK, Indexed, Once, NEW w \in Workers, GivesBack(w)
  PROVE  Once'
<1>1. /\ At(w, "unclaim") /\ ~At(w, "idle") /\ Owns(w) /\ ~Dealt(w) /\ ~At(w, "claim")
      /\ claims' = claims \ {Key(w)} /\ UNCHANGED log
  BY DEF GivesBack, Leaves, Onward, At, Owns, Dealt, Owning
<1>2. LogClaimed'
  BY <1>1 DEF Once, Undealt, LogClaimed, Undone
<1>3. ASSUME NEW v \in Workers, v # w, Owns(v), work[v].event \notin Simulated
      PROVE  Key(v) \in claims'
  BY <1>1, <1>3 DEF Once, Claimed, Exclusive
<1>4. CASE Leaves(w)
  BY <1>1, <1>2, <1>3, <1>4, OnceLeaves DEF Once, Claimed
<1>5. CASE Onward(w)
  <2>1. /\ At(w, "claim")' /\ ~Owns(w)' /\ Others(w) /\ UNCHANGED messages
        /\ work'[w].event = work[w].event /\ work'[w].i = work[w].i + 1
        /\ work[w].i \in Nat
    BY <1>1, <1>5, Handles DEF Onward, Owns, Owning, InDispatch, At
  <2>2. \A v \in Workers \ {w} :
          (Owns(v)' <=> Owns(v)) /\ Key(v)' = Key(v) /\ (Dealt(v)' <=> Dealt(v)) /\ work'[v] = work[v]
    BY <2>1, Elsewhere
  <2>3. \A v \in Workers : \A e \in Events : Busy(v, e)' => Busy(v, e)
    BY <1>1, <2>1, <2>2 DEF Busy, At
  <2>4. Claimed' /\ Exclusive' /\ Undealt' /\ AtMostOnce'
    BY <1>1, <1>3, <2>1, <2>2 DEF Once, Claimed, Exclusive, Undealt, Undone, AtMostOnce
  <2>5. SimulatedOnce'
    <3> SUFFICES ASSUME NEW e \in Simulated
                 PROVE  /\ \A u, v \in Workers : Busy(u, e)' /\ Busy(v, e)' => u = v
                        /\ \A v \in Workers : Busy(v, e)' =>
                             /\ messages'[e].state # "new"
                             /\ \A j \in 1..Len(CpLists[e]) :
                                  j > work'[v].i \/ (j = work'[v].i /\ At(v, "claim")') =>
                                    log'[<<e, CpLists[e][j]>>] = <<>>
                        /\ messages'[e].state = "new" => \A cp \in Listed[e] : log'[<<e, cp>>] = <<>>
      BY DEF SimulatedOnce
    <3>0. e \in Events
      BY EventsAssumption
    <3>1. ASSUME NEW v \in Workers, Busy(v, e)', NEW j \in 1..Len(CpLists[e]),
                 j > work'[v].i \/ (j = work'[v].i /\ At(v, "claim")')
          PROVE  log'[<<e, CpLists[e][j]>>] = <<>>
      <4>1. Busy(v, e) /\ (j > work[v].i \/ (j = work[v].i /\ At(v, "claim")))
        <5>1. CASE v = w
          BY <2>1, <2>3, <3>0, <3>1, <5>1
        <5>2. CASE v # w
          BY <2>2, <2>3, <3>0, <3>1, <5>2 DEF At
        <5> QED
          BY <5>1, <5>2
      <4> QED
        BY <1>1, <3>0, <4>1 DEF Once, SimulatedOnce
    <3> QED
      BY <1>1, <2>1, <2>3, <3>0, <3>1 DEF Once, SimulatedOnce
  <2> QED
    BY <1>2, <2>4, <2>5 DEF Once
<1> QED
  BY <1>4, <1>5 DEF GivesBack

\* A request begins at the head of the list, a simulation with nothing done.
LEMMA OnceBegins ==
  ASSUME TypeOK, Indexed, Once, NEW w \in Workers, NEW e \in Events, Begins(w, e)
  PROVE  Once'
<1>1. /\ At(w, "idle") /\ At(w, "claim")' /\ ~Owns(w)' /\ ~Owns(w) /\ Others(w)
      /\ work'[w].event = e /\ work'[w].i = 1 /\ UNCHANGED <<claims, log>>
      /\ messages'[e].state # "new"
      /\ \A f \in Events \ {e} : messages'[f] = messages[f]
      /\ e \in Simulated => messages[e].state = "new"
  BY DEF Begins, Owns, Owning, InDispatch, At
<1>2. \A v \in Workers \ {w} :
        (Owns(v)' <=> Owns(v)) /\ Key(v)' = Key(v) /\ (Dealt(v)' <=> Dealt(v)) /\ work'[v] = work[v]
  BY <1>1, Elsewhere
<1>3. \A v \in Workers : \A f \in Events : Busy(v, f)' => (v = w /\ f = e) \/ (v # w /\ Busy(v, f))
  BY <1>1, <1>2 DEF Busy, At
<1>4. Claimed' /\ LogClaimed' /\ Exclusive' /\ Undealt' /\ AtMostOnce'
  BY <1>1, <1>2 DEF Once, Claimed, LogClaimed, Exclusive, Undealt, Undone, AtMostOnce
<1>5. SimulatedOnce'
  <2> SUFFICES ASSUME NEW f \in Simulated
               PROVE  /\ \A u, v \in Workers : Busy(u, f)' /\ Busy(v, f)' => u = v
                      /\ \A v \in Workers : Busy(v, f)' =>
                           /\ messages'[f].state # "new"
                           /\ \A j \in 1..Len(CpLists[f]) :
                                j > work'[v].i \/ (j = work'[v].i /\ At(v, "claim")') =>
                                  log'[<<f, CpLists[f][j]>>] = <<>>
                      /\ messages'[f].state = "new" => \A cp \in Listed[f] : log'[<<f, cp>>] = <<>>
    BY DEF SimulatedOnce
  <2>0. f \in Events
    BY EventsAssumption
  <2>1. CASE f = e
    <3>1. messages[e].state = "new" /\ \A cp \in Listed[e] : log[<<e, cp>>] = <<>>
      BY <1>1, <2>1 DEF Once, SimulatedOnce
    <3>2. \A v \in Workers : ~Busy(v, e)
      BY <2>1, <3>1 DEF Once, SimulatedOnce
    <3>3. \A v \in Workers : Busy(v, e)' => v = w
      BY <1>3, <3>2
    <3>4. \A j \in 1..Len(CpLists[e]) : CpLists[e][j] \in Listed[e]
      BY ListsTyped
    <3> QED
      BY <1>1, <2>1, <3>1, <3>3, <3>4
  <2>2. CASE f # e
    <3>1. \A v \in Workers : Busy(v, f)' => v # w /\ Busy(v, f) /\ work'[v] = work[v]
      BY <1>2, <1>3, <2>0, <2>2
    <3> QED
      BY <1>1, <2>0, <2>2, <3>1 DEF Once, SimulatedOnce, At
  <2> QED
    BY <2>1, <2>2
<1> QED
  BY <1>4, <1>5 DEF Once

\* Every step keeps Once.
LEMMA OnceStep ==
  ASSUME TypeOK, Indexed, Once, [Next]_vars, TypeOK', Indexed'
  PROVE  Once'
<1>1. CASE Still
  <2>1. UNCHANGED <<work, log, claims, messages>>
    BY <1>1 DEF Still
  <2> QED
    BY <2>1 DEF Once, Claimed, LogClaimed, Exclusive, Undealt, Undone, SimulatedOnce, AtMostOnce,
                Owns, Dealt, Busy, Key, Cp, At
<1>2. ASSUME NEW w \in Workers, Kinds(w)
      PROVE  Once'
  BY <1>2, OnceMoves, OnceLogs, OncePasses, OnceTakes, OnceEnds, OnceGivesBack, OnceBegins
  DEF Kinds
<1> QED
  BY <1>1, <1>2, StepKinds

\* A trigger is dealt with once for a counterparty, but for what an exception
\* followed: with any number of duplicates, exceptions, expired leases and lost
\* instances.
THEOREM DealtWithOnce == Spec => []AtMostOnce
<1>1. Init => Once
  BY ListsTyped, EventsAssumption
  DEF Init, Once, Claimed, LogClaimed, Exclusive, Undealt, Undone, SimulatedOnce, AtMostOnce,
      Owns, Owning, InDispatch, Busy, At, Idle
<1>2. TypeOK /\ Indexed /\ Once /\ [Next]_vars => Once'
  BY TypedStep, OnceStep
<1>3. Once => AtMostOnce
  BY DEF Once
<1>4. Init => TypeOK /\ Indexed
  BY BoundsAssumption
  DEF Init, TypeOK, Indexed, Owns, Owning, InDispatch, Idle, Thread, NewThread
<1>5. TypeOK /\ Indexed /\ [Next]_vars => TypeOK' /\ Indexed'
  BY TypedStep
<1> QED
  BY <1>1, <1>2, <1>3, <1>4, <1>5, PTL DEF Spec

-----------------------------------------------------------------------------
(* While no worker is lost, no acknowledged trigger is.                    *)

Logged(k) == log[k] # <<>>

\* A claim is held for a reason, and a counterparty's turn ends with an entry.
ClaimMeant ==
  \A k \in claims : Logged(k) \/ \E w \in Workers : Owns(w) /\ Key(w) = k
DealtLogged == \A w \in Workers : Dealt(w) => Logged(Key(w))

\* A trigger delivered to one worker at a time: what that worker has passed, when
\* it met no busy lease, was dealt with, and so was the whole list of one that is
\* acknowledged.
InTurn ==
  \A e \in Events \ Simulated : ~messages[e].twice =>
    /\ \A w, v \in Workers : Busy(w, e) /\ Busy(v, e) => w = v
    /\ \A w \in Workers : Busy(w, e) /\ ~work[w].busy =>
         \A j \in 1..Len(CpLists[e]) : j < work[w].i => Logged(<<e, CpLists[e][j]>>)
    /\ messages[e].state = "acked" => \A cp \in Listed[e] : Logged(<<e, cp>>)

Kept == ClaimMeant /\ DealtLogged /\ InTurn

\* Lost instances are counted, and what is left behind is not forgotten.
LEMMA FaultsCounted ==
  ASSUME TypeOK, [Next]_vars
  PROVE  /\ crashes' = 0 => crashes = 0
         /\ crashes' = 0 => \A w \in Workers : ~Crash(w)
         /\ stranded \subseteq stranded'
<1>1. \A w \in Workers : Crash(w) => crashes' = crashes + 1 /\ stranded' = stranded
  BY DEF Crash
<1>2. \/ crashes' = crashes /\ stranded \subseteq stranded'
      \/ \E w \in Workers : Crash(w)
  <2>1. ASSUME NEW w \in Workers, Worker(w) \/ Fail(w)
        PROVE  crashes' = crashes /\ stranded \subseteq stranded'
    BY <2>1
    DEF Worker, Claim, TakeLease, TakeOver, Dispatch, StartRun, UpdateState, Evaluate,
        AuditUpdate, ReleaseLease, ReleaseRun, Fail, FailRequest, FailDispatch, FailLate
  <2>2. \A w \in Workers : \A e \in Events :
          Deliver(w, e) \/ Simulate(w, e) => UNCHANGED <<crashes, stranded>>
    BY DEF Deliver, Simulate, Begin
  <2>3. \A cp \in Cps : Expire(cp) => UNCHANGED <<crashes, stranded>>
    BY DEF Expire
  <2>4. \A t \in Events : \A cp \in Listed[t] :
          Approve(t, cp) \/ Resolve(t, cp) => UNCHANGED <<crashes, stranded>>
    BY DEF Approve, Resolve
  <2> QED
    BY <2>1, <2>2, <2>3, <2>4 DEF Next, vars
<1> QED
  BY <1>1, <1>2 DEF TypeOK

\* A sequence that was appended to is not empty.
LEMMA AppendNonEmpty ==
  ASSUME NEW S, NEW s \in Seq(S), NEW x \in S
  PROVE  Append(s, x) # <<>>
<1>1. Len(s) \in Nat /\ Len(Append(s, x)) = Len(s) + 1
  OBVIOUS
<1> QED
  BY <1>1

\* Nothing is taken out of the log.
LEMMA LogGrows ==
  ASSUME TypeOK, Indexed, NEW w \in Workers, Kinds(w), NEW k \in Keys, Logged(k)
  PROVE  Logged(k)'
<1>1. CASE Records(w) \/ Raises(w)
  <2>1. PICK outcome \in Outcomes : log'[Key(w)] = Append(log[Key(w)], outcome)
    BY <1>1, "raised" \in Outcomes DEF Records, Raises, Outcomes
  <2>2. log[Key(w)] \in Seq(Outcomes) /\ (k # Key(w) => log'[k] = log[k])
    <3>1. Owns(w)
      BY <1>1 DEF Records, Raises, Dealt, Owns, Owning, InDispatch, At
    <3> QED
      BY <1>1, <3>1, InHand DEF Records, Raises, TypeOK
  <2>3. Append(log[Key(w)], outcome) # <<>>
    BY <2>2, AppendNonEmpty
  <2> QED
    BY <2>1, <2>2, <2>3 DEF Logged
<1>2. CASE ~Records(w) /\ ~Raises(w)
  <2>1. log' = log
    BY <1>2 DEF Kinds, Moves, Passes, Takes, Ends, GivesBack, Leaves, Onward, Begins
  <2> QED
    BY <2>1 DEF Logged
<1> QED
  BY <1>1, <1>2

\* The invariant of a trigger survives a step that leaves the places in the lists.
LEMMA InTurnKept ==
  ASSUME InTurn, UNCHANGED messages,
         \A e \in Events : \A cp \in Listed[e] : Logged(<<e, cp>>) => Logged(<<e, cp>>)',
         \A v \in Workers : \A e \in Events : Busy(v, e)' =>
           Busy(v, e) /\ work'[v].i = work[v].i /\ (work[v].busy => work'[v].busy)
  PROVE  InTurn'
<1> SUFFICES ASSUME NEW e \in Events \ Simulated, ~messages[e].twice
             PROVE  /\ \A w, v \in Workers : Busy(w, e)' /\ Busy(v, e)' => w = v
                    /\ \A w \in Workers : Busy(w, e)' /\ ~work'[w].busy =>
                         \A j \in 1..Len(CpLists[e]) :
                           j < work'[w].i => Logged(<<e, CpLists[e][j]>>)'
                    /\ messages[e].state = "acked" => \A cp \in Listed[e] : Logged(<<e, cp>>)'
  BY DEF InTurn
<1>1. \A j \in 1..Len(CpLists[e]) : CpLists[e][j] \in Listed[e]
  BY ListsTyped
<1> QED
  BY <1>1 DEF InTurn

\* A dispatch that goes on, ends with its entry, or raises after it.
LEMMA KeptMoves ==
  ASSUME TypeOK, Indexed, Kept, NEW w \in Workers, Moves(w) \/ Records(w) \/ Raises(w)
  PROVE  Kept'
<1>1. /\ Owns(w) /\ Owns(w)' /\ Others(w) /\ SamePlace(w)
      /\ ~At(w, "idle") /\ ~At(w, "idle")' /\ UNCHANGED <<claims, messages>>
  BY DEF Moves, Records, Raises, Dealt, Owns, At, Owning, InDispatch
<1>2. \A k \in Keys : Logged(k) => Logged(k)'
  BY LogGrows DEF Kinds
<1>3. \A v \in Workers :
        /\ Owns(v)' <=> Owns(v)
        /\ Key(v)' = Key(v)
        /\ \A e \in Events : Busy(v, e)' =>
             Busy(v, e) /\ work'[v].i = work[v].i /\ (work[v].busy => work'[v].busy)
  BY <1>1, Elsewhere, InPlace DEF SamePlace, Busy, At
<1>4. claims \subseteq Keys
  BY DEF TypeOK
<1>5. ClaimMeant'
  BY <1>1, <1>2, <1>3, <1>4 DEF Kept, ClaimMeant
<1>6. Dealt(w)' => Logged(Key(w))'
  <2>1. CASE Moves(w)
    <3>1. Dealt(w)' => Logged(Key(w))
      BY <2>1 DEF Moves, Kept, DealtLogged
    <3> QED
      BY <1>1, <1>2, <1>3, <3>1, KeyAt DEF Logged
  <2>2. CASE Records(w)
    <3>1. PICK outcome \in Outcomes : log'[Key(w)] = Append(log[Key(w)], outcome)
      BY <2>2 DEF Records
    <3>2. log[Key(w)] \in Seq(Outcomes)
      BY <1>1, InHand DEF TypeOK
    <3>3. Append(log[Key(w)], outcome) # <<>>
      BY <3>2, AppendNonEmpty
    <3>4. log'[Key(w)'] # <<>>
      BY <1>3, <3>1, <3>3
    <3> QED
      BY <3>4 DEF Logged
  <2>3. CASE Raises(w)
    BY <2>3 DEF Raises
  <2> QED
    BY <2>1, <2>2, <2>3
<1>7. DealtLogged'
  <2> SUFFICES ASSUME NEW v \in Workers, v # w, Dealt(v)'
               PROVE  Logged(Key(v))'
    BY <1>6 DEF DealtLogged
  <2>1. Dealt(v) /\ Key(v)' = Key(v) /\ Owns(v)
    BY <1>1, Elsewhere DEF Dealt, Owns, Owning, InDispatch, At
  <2>2. Key(v) \in Keys /\ Logged(Key(v))
    BY <2>1, KeyAt DEF Kept, DealtLogged
  <2> QED
    BY <1>2, <2>1, <2>2 DEF Logged
<1>8. InTurn'
  BY <1>1, <1>2, <1>3, ListsTyped, InTurnKept DEF Kept
<1> QED
  BY <1>5, <1>7, <1>8 DEF Kept

\* What is passed was dealt with, by this worker or by the one that claimed it.
LEMMA KeptPasses ==
  ASSUME TypeOK, Indexed, Kept, NEW w \in Workers, Passes(w)
  PROVE  Kept'
<1>1. /\ ~At(w, "idle") /\ ~Owns(w)' /\ ~Dealt(w)' /\ Others(w)
      /\ work'[w].event = work[w].event /\ work'[w].i = work[w].i + 1
      /\ (work[w].busy => work'[w].busy) /\ UNCHANGED <<claims, log, messages>>
      /\ \/ Owns(w) /\ Dealt(w)
         \/ /\ ~Owns(w) /\ work[w].i <= Len(CpLists[work[w].event])
            /\ work[w].event \notin Simulated /\ Key(w) \in claims
  BY DEF Passes, Onward, Dealt, Owns, Owning, InDispatch, At
<1>2. \A v \in Workers \ {w} :
        (Owns(v)' <=> Owns(v)) /\ Key(v)' = Key(v) /\ (Dealt(v)' <=> Dealt(v)) /\ work'[v] = work[v]
  BY <1>1, Elsewhere
<1>3. \A v \in Workers : \A e \in Events : Busy(v, e)' => Busy(v, e)
  BY <1>1, <1>2 DEF Busy, At
<1>4. Owns(w) => Logged(Key(w))
  BY <1>1 DEF Kept, DealtLogged
<1>5. ClaimMeant' /\ DealtLogged'
  BY <1>1, <1>2, <1>4 DEF Kept, ClaimMeant, DealtLogged, Logged
<1>6. /\ work[w].event \in Events /\ work[w].i \in 1..Len(CpLists[work[w].event])
      /\ Busy(w, work[w].event)
      /\ Key(w) = <<work[w].event, CpLists[work[w].event][work[w].i]>>
  BY <1>1, KeyAt, Handles, CpListsAssumption DEF Busy, Key, Cp
<1>7. ASSUME work[w].event \notin Simulated, ~messages[work[w].event].twice
      PROVE  Logged(Key(w))
  <2>1. ASSUME ~Owns(w), ~Logged(Key(w))
        PROVE  FALSE
    <3>1. PICK v \in Workers : Owns(v) /\ Key(v) = Key(w)
      BY <1>1, <2>1 DEF Kept, ClaimMeant
    <3>2. work[v].event = work[w].event /\ Busy(v, work[w].event)
      BY <3>1, KeyAt DEF Key
    <3>3. v = w
      BY <1>6, <1>7, <3>2 DEF Kept, InTurn
    <3> QED
      BY <2>1, <3>1, <3>3
  <2> QED
    BY <1>4, <2>1
<1>8. InTurn'
  <2> SUFFICES ASSUME NEW e \in Events \ Simulated, ~messages'[e].twice
               PROVE  /\ \A u, v \in Workers : Busy(u, e)' /\ Busy(v, e)' => u = v
                      /\ \A v \in Workers : Busy(v, e)' /\ ~work'[v].busy =>
                           \A j \in 1..Len(CpLists[e]) :
                             j < work'[v].i => Logged(<<e, CpLists[e][j]>>)'
                      /\ messages'[e].state = "acked" => \A cp \in Listed[e] : Logged(<<e, cp>>)'
    BY DEF InTurn
  <2>1. ASSUME NEW v \in Workers, Busy(v, e)', ~work'[v].busy, NEW j \in 1..Len(CpLists[e]),
               j < work'[v].i
        PROVE  Logged(<<e, CpLists[e][j]>>)
    <3>1. CASE v # w
      BY <1>1, <1>2, <1>3, <2>1, <3>1 DEF Kept, InTurn
    <3>2. CASE v = w
      <4>1. Busy(w, e) /\ ~work[w].busy /\ work[w].event = e /\ j < work[w].i + 1
        BY <1>1, <1>3, <2>1, <3>2 DEF Busy
      <4>2. CASE j < work[w].i
        BY <1>1, <2>1, <4>1, <4>2 DEF Kept, InTurn
      <4>3. CASE j = work[w].i
        BY <1>1, <1>6, <1>7, <4>1, <4>3
      <4> QED
        BY <1>6, <4>1, <4>2, <4>3
    <3> QED
      BY <3>1, <3>2
  <2> QED
    BY <1>1, <1>3, <2>1 DEF Kept, InTurn, Logged
<1> QED
  BY <1>5, <1>8 DEF Kept

\* A new claim belongs to the counterparty in hand.
LEMMA KeptTakes ==
  ASSUME TypeOK, Indexed, Kept, NEW w \in Workers, Takes(w)
  PROVE  Kept'
<1>1. /\ ~At(w, "idle") /\ ~Owns(w) /\ Owns(w)' /\ ~Dealt(w)' /\ Others(w) /\ SamePlace(w)
      /\ claims' \subseteq claims \cup {Key(w)} /\ UNCHANGED <<log, messages>>
  BY DEF Takes, Dealt, Owns, Owning, InDispatch, At
<1>2. \A v \in Workers \ {w} :
        (Owns(v)' <=> Owns(v)) /\ Key(v)' = Key(v) /\ (Dealt(v)' <=> Dealt(v))
  BY <1>1, Elsewhere
<1>3. Key(w)' = Key(w)
  BY <1>1, InPlace
<1>4. ClaimMeant' /\ DealtLogged'
  BY <1>1, <1>2, <1>3 DEF Kept, ClaimMeant, DealtLogged, Logged
<1>5. \A v \in Workers : \A e \in Events : Busy(v, e)' =>
        Busy(v, e) /\ work'[v].i = work[v].i /\ (work[v].busy => work'[v].busy)
  BY <1>1, Elsewhere DEF SamePlace, Busy, At
<1>6. InTurn'
  BY <1>1, <1>5, InTurnKept DEF Kept, Logged
<1> QED
  BY <1>4, <1>6 DEF Kept

\* A request that is over: it acknowledges what it went through without a busy
\* lease.
LEMMA KeptLeaves ==
  ASSUME TypeOK, Indexed, Kept, NEW w \in Workers, ~At(w, "idle"), Leaves(w)
  PROVE  /\ DealtLogged' /\ InTurn'
         /\ \A v \in Workers : v # w => (Owns(v)' <=> Owns(v)) /\ Key(v)' = Key(v)
<1>1. /\ At(w, "idle")' /\ ~Owns(w)' /\ ~Dealt(w)' /\ Others(w) /\ UNCHANGED log
      /\ \A e \in Events : ~Busy(w, e)' /\ messages'[e].twice = messages[e].twice
      /\ \A e \in Events \ Simulated : messages'[e].state = "acked" =>
           messages[e].state = "acked" \/ (e = work[w].event /\ Through(w))
  BY DEF Leaves, Dealt, Owns, Owning, InDispatch, At, Busy
<1>2. \A v \in Workers \ {w} :
        (Owns(v)' <=> Owns(v)) /\ Key(v)' = Key(v) /\ (Dealt(v)' <=> Dealt(v)) /\ work'[v] = work[v]
  BY <1>1, Elsewhere
<1>3. \A v \in Workers : \A e \in Events : Busy(v, e)' => v # w /\ Busy(v, e)
  BY <1>1, <1>2 DEF Busy, At
<1>4. DealtLogged'
  BY <1>1, <1>2 DEF Kept, DealtLogged, Logged
<1>5. ASSUME NEW e \in Events \ Simulated, ~messages[e].twice, e = work[w].event, Through(w),
             NEW cp \in Listed[e]
      PROVE  Logged(<<e, cp>>)
  <2>1. PICK j \in 1..Len(CpLists[e]) : CpLists[e][j] = cp
    BY CpListsAssumption DEF Listed
  <2>2. Busy(w, e) /\ ~work[w].busy /\ work[w].i > Len(CpLists[e]) /\ work[w].i \in Nat
    BY <1>5, Handles DEF Through, Busy
  <2>3. Len(CpLists[e]) \in Nat
    BY CpListsAssumption
  <2>4. j < work[w].i
    BY <2>2, <2>3
  <2> QED
    BY <1>5, <2>1, <2>2, <2>4 DEF Kept, InTurn
<1>6. InTurn'
  BY <1>1, <1>2, <1>3, <1>5 DEF Kept, InTurn, Logged
<1> QED
  BY <1>2, <1>4, <1>6

\* A request ends, having nothing in hand.
LEMMA KeptEnds ==
  ASSUME TypeOK, Indexed, Kept, NEW w \in Workers, Ends(w), At(w, "claim")
  PROVE  Kept'
<1>1. ~At(w, "idle") /\ ~Owns(w) /\ Leaves(w) /\ UNCHANGED <<claims, log>>
  BY DEF Ends, Leaves, Owns, Owning, InDispatch, At
<1>2. ClaimMeant'
  BY <1>1, KeptLeaves DEF Kept, ClaimMeant, Logged
<1> QED
  BY <1>1, <1>2, KeptLeaves DEF Kept

\* A claim given back is nobody else's.
LEMMA KeptGivesBack ==
  ASSUME TypeOK, Indexed, Kept, NEW w \in Workers, GivesBack(w)
  PROVE  Kept'
<1>1. /\ ~At(w, "idle") /\ Owns(w) /\ claims' = claims \ {Key(w)} /\ UNCHANGED log
  BY DEF GivesBack, Leaves, Onward, Owns, Owning, InDispatch, At
<1>2. ASSUME \A v \in Workers : v # w => (Owns(v)' <=> Owns(v)) /\ Key(v)' = Key(v)
      PROVE  ClaimMeant'
  BY <1>1, <1>2 DEF Kept, ClaimMeant, Logged
<1>3. CASE Leaves(w)
  BY <1>1, <1>2, <1>3, KeptLeaves DEF Kept
<1>4. CASE Onward(w) /\ (work[w].event \notin Simulated => work'[w].busy)
  <2>1. /\ ~Owns(w)' /\ ~Dealt(w)' /\ Others(w) /\ UNCHANGED messages
        /\ work'[w].event = work[w].event
    BY <1>4 DEF Onward, Dealt, Owns, Owning, InDispatch, At
  <2>2. \A v \in Workers \ {w} :
          (Owns(v)' <=> Owns(v)) /\ Key(v)' = Key(v) /\ (Dealt(v)' <=> Dealt(v)) /\ work'[v] = work[v]
    BY <2>1, Elsewhere
  <2>3. \A v \in Workers : \A e \in Events : Busy(v, e)' => Busy(v, e)
    BY <1>1, <2>1, <2>2 DEF Busy, At
  <2>4. ClaimMeant' /\ DealtLogged'
    BY <1>1, <1>2, <2>1, <2>2 DEF Kept, DealtLogged, Logged
  <2>5. \A e \in Events \ Simulated : Busy(w, e)' => work'[w].busy
    BY <1>4, <2>1 DEF Busy
  <2>6. InTurn'
    BY <1>1, <2>1, <2>2, <2>3, <2>5, ZenonT(60) DEF Kept, InTurn, Logged
  <2> QED
    BY <2>4, <2>6 DEF Kept
<1> QED
  BY <1>3, <1>4 DEF GivesBack

\* A new request has passed nothing yet.
LEMMA KeptBegins ==
  ASSUME TypeOK, Indexed, Kept, NEW w \in Workers, NEW e \in Events, Begins(w, e)
  PROVE  Kept'
<1>1. /\ ~Owns(w) /\ ~Owns(w)' /\ ~Dealt(w)' /\ ~At(w, "idle")' /\ Others(w)
      /\ work'[w].event = e /\ work'[w].i = 1 /\ UNCHANGED <<claims, log>>
      /\ \A f \in Events \ {e} : messages'[f] = messages[f]
      /\ e \notin Simulated =>
           /\ messages'[e].state = "acked" => messages[e].state = "acked"
           /\ ~messages'[e].twice => ~messages[e].twice /\ \A v \in Workers : ~Busy(v, e)
  BY DEF Begins, Dealt, Owns, Owning, InDispatch, At
<1>2. \A v \in Workers \ {w} :
        (Owns(v)' <=> Owns(v)) /\ Key(v)' = Key(v) /\ (Dealt(v)' <=> Dealt(v)) /\ work'[v] = work[v]
  BY <1>1, Elsewhere
<1>3. \A v \in Workers : \A f \in Events : Busy(v, f)' => (v = w /\ f = e) \/ (v # w /\ Busy(v, f))
  BY <1>1, <1>2 DEF Busy, At
<1>4. ClaimMeant' /\ DealtLogged'
  BY <1>1, <1>2 DEF Kept, ClaimMeant, DealtLogged, Logged
<1>5. InTurn'
  <2> SUFFICES ASSUME NEW f \in Events \ Simulated, ~messages'[f].twice
               PROVE  /\ \A u, v \in Workers : Busy(u, f)' /\ Busy(v, f)' => u = v
                      /\ \A v \in Workers : Busy(v, f)' /\ ~work'[v].busy =>
                           \A j \in 1..Len(CpLists[f]) :
                             j < work'[v].i => Logged(<<f, CpLists[f][j]>>)'
                      /\ messages'[f].state = "acked" => \A cp \in Listed[f] : Logged(<<f, cp>>)'
    BY DEF InTurn
  <2>1. CASE f = e
    <3>1. \A v \in Workers : Busy(v, f)' => v = w
      BY <1>1, <1>3, <2>1
    <3>2. \A j \in 1..Len(CpLists[f]) : ~(j < work'[w].i)
      BY <1>1
    <3>3. messages'[f].state = "acked" => messages[f].state = "acked" /\ ~messages[f].twice
      BY <1>1, <2>1
    <3>4. messages'[f].state = "acked" => \A cp \in Listed[f] : Logged(<<f, cp>>)
      BY <3>3 DEF Kept, InTurn
    <3> QED
      BY <1>1, <3>1, <3>2, <3>4 DEF Logged
  <2>2. CASE f # e
    <3>1. messages'[f] = messages[f]
      BY <1>1, <2>2
    <3>2. \A v \in Workers : Busy(v, f)' => v # w /\ Busy(v, f) /\ work'[v] = work[v]
      BY <1>2, <1>3, <2>2
    <3> QED
      BY <1>1, <3>1, <3>2 DEF Kept, InTurn, Logged
  <2> QED
    BY <2>1, <2>2
<1> QED
  BY <1>4, <1>5 DEF Kept

\* No acknowledged trigger is lost while no worker is and no exception leaves a
\* claim, but for one delivered while it was in hand.
THEOREM AcknowledgedIsDone == Spec => []NothingLost
<1>1. Init => Kept
  BY ListsTyped
  DEF Init, Kept, ClaimMeant, DealtLogged, InTurn, Dealt, Busy, At, Idle
<1> DEFINE KeptSo == crashes = 0 /\ "claim" \notin stranded => Kept
<1>2. TypeOK /\ Indexed /\ KeptSo /\ [Next]_vars => KeptSo'
  <2> SUFFICES ASSUME TypeOK, Indexed, KeptSo, [Next]_vars,
                      crashes' = 0, "claim" \notin stranded'
               PROVE  Kept'
    OBVIOUS
  <2>1. Kept
    BY FaultsCounted
  <2>2. CASE Still
    <3>1. UNCHANGED <<work, log, claims, messages>>
      BY <2>2 DEF Still
    <3> QED
      BY <2>1, <3>1
      DEF Kept, ClaimMeant, DealtLogged, InTurn, Logged, Owns, Dealt, Busy, Key, Cp, At
  <2>3. ASSUME NEW w \in Workers, Kinds(w)
        PROVE  Kept'
    <3>1. Ends(w) => At(w, "claim")
      BY DEF Ends
    <3> QED
      BY <2>1, <2>3, <3>1, KeptMoves, KeptPasses, KeptTakes, KeptEnds, KeptGivesBack, KeptBegins
      DEF Kinds
  <2> QED
    BY <2>2, <2>3, StepKinds
<1>3. KeptSo => NothingLost
  BY DEF Kept, InTurn, NothingLost, Logged
<1>4. Init => TypeOK /\ Indexed
  BY BoundsAssumption
  DEF Init, TypeOK, Indexed, Owns, Owning, InDispatch, Idle, Thread, NewThread
<1>5. TypeOK /\ Indexed /\ [Next]_vars => TypeOK' /\ Indexed'
  BY TypedStep
<1> QED
  BY <1>1, <1>2, <1>3, <1>4, <1>5, PTL DEF Spec

-----------------------------------------------------------------------------
(* While no worker is lost, and each lease given back, a row stands for    *)
(* one dispatch.                                                           *)

Holds(w) == work[w].pc \in InDispatch

Leased ==
  /\ \A w \in Workers : ~At(w, "takeover")
  /\ \A w \in Workers : Holds(w) => lease[Cp(w)] = "live"
  /\ \A w, v \in Workers : Holds(w) /\ Holds(v) /\ Cp(w) = Cp(v) => w = v
  /\ \A cp \in Cps : lease[cp] # "free" =>
       lease[cp] = "live" /\ \E w \in Workers : Holds(w) /\ Cp(w) = cp

\* A worker is granted its counterparty's lease.
Grants(w) ==
  /\ At(w, "lease") /\ lease[Cp(w)] = "free" /\ lease' = [lease EXCEPT ![Cp(w)] = "live"]
  /\ At(w, "find")' /\ SamePlace(w) /\ Others(w)
\* It deletes the row.
Frees(w) ==
  /\ Holds(w) /\ ~Holds(w)' /\ ~At(w, "takeover")' /\ Others(w)
  /\ lease' = [lease EXCEPT ![Cp(w)] = "free"]
\* It goes on without touching the rows.
Stays(w) ==
  /\ Others(w) /\ lease' = lease /\ ~At(w, "takeover")'
  /\ \/ ~Holds(w) /\ ~Holds(w)'
     \/ Holds(w) /\ Holds(w)' /\ SamePlace(w)

\* Every step is granted a lease, frees one or leaves the rows alone.
LEMMA LeaseKinds ==
  ASSUME TypeOK, Indexed, Leased, [Next]_vars, \A w \in Workers : ~Crash(w),
         "lease" \notin stranded'
  PROVE  \/ UNCHANGED <<work, lease>>
         \/ \E w \in Workers : Grants(w) \/ Frees(w) \/ Stays(w)
<1>0. CASE UNCHANGED vars
  BY <1>0 DEF vars
<1>1. ASSUME NEW w \in Workers, Claim(w)
      PROVE  Stays(w)
  <2>1. ~At(w, "idle") /\ At(w, "claim") /\ ~Holds(w) /\ lease' = lease
    BY <1>1 DEF Claim, At, Holds, InDispatch
  <2>2. CASE Settle(w, ~work[w].busy)
    <3>1. (~work[w].busy) \in BOOLEAN
      OBVIOUS
    <3>2. work'[w].pc = "idle" /\ \A v \in Workers \ {w} : work'[v] = work[v]
      BY <2>1, <2>2, <3>1, SettleWorks
    <3> QED
      BY <2>1, <3>2 DEF Stays, Others, At, Holds, InDispatch
  <2>3. CASE Goto(w, "lease")
    BY <2>1, <2>3, GotoWorks
    DEF Pcs, Owning, Stays, Works, Others, At, Holds, InDispatch
  <2>4. CASE NextCp(w, FALSE)
    BY <2>1, <2>4, NextCpWorks DEF Stays, Works, Others, At, Holds, InDispatch
  <2> QED
    BY <1>1, <2>2, <2>3, <2>4 DEF Claim
<1>2. ASSUME NEW w \in Workers, TakeLease(w)
      PROVE  Grants(w) \/ Stays(w)
  <2>1. Owns(w) /\ At(w, "lease") /\ ~At(w, "idle") /\ ~Holds(w)
    BY <1>2 DEF TakeLease, Owns, Owning, At, Holds, InDispatch
  <2>2. lease[Cp(w)] = "free" \/ lease[Cp(w)] = "live"
    BY <2>1, InHand DEF Leased
  <2>3. CASE lease[Cp(w)] = "free"
    <3>1. lease' = [lease EXCEPT ![Cp(w)] = "live"] /\ Goto(w, "find")
      BY <1>2, <2>3 DEF TakeLease
    <3>2. Works(w, "find", work[w].result, work[w].i) /\ work'[w].busy = work[w].busy
      BY <2>1, <3>1, GotoWorks DEF Pcs, Owning, InDispatch
    <3> QED
      BY <2>1, <2>3, <3>1, <3>2 DEF Grants, Works, SamePlace, Others, At
  <2>4. CASE lease[Cp(w)] = "live"
    <3>1. lease' = lease /\ Result(w, "busy", "unclaim")
      BY <1>2, <2>4 DEF TakeLease
    <3>2. Works(w, "unclaim", "busy", work[w].i)
      BY <2>1, <3>1, ResultWorks DEF Pcs, Owning, InDispatch, Results
    <3> QED
      BY <2>1, <3>1, <3>2 DEF Stays, Works, Others, At, Holds, InDispatch
  <2> QED
    BY <2>2, <2>3, <2>4
<1>3. ASSUME NEW w \in Workers, TakeOver(w)
      PROVE  FALSE
  BY <1>3 DEF TakeOver, Leased
<1>4. ASSUME NEW w \in Workers,
             \/ Dispatch(w) \/ StartRun(w) \/ UpdateState(w) \/ Evaluate(w) \/ AuditUpdate(w)
             \/ (FailDispatch(w) \/ FailLate(w)) /\ Holds(w) /\ lease' = lease
      PROVE  Stays(w)
  <2>1. Holds(w) /\ Owns(w) /\ ~At(w, "idle") /\ lease' = lease
    BY <1>4
    DEF Dispatch, StartRun, UpdateState, Evaluate, AuditUpdate, FailDispatch, FailLate,
        Holds, Owns, Owning, InDispatch, At
  <2>2. \/ \E pc \in InDispatch : Goto(w, pc)
        \/ \E result \in Results, pc \in InDispatch : Result(w, result, pc)
        \/ \E pc \in InDispatch : \E t \in Events :
             work' = [work EXCEPT ![w].pc = pc, ![w].thread = t]
    <3>1. \A t \in FindOpenCall(Cp(w)) : t \in Events
      BY DEF FindOpenCall, OpenCalls
    <3>2. work[w].event \in Events
      BY <2>1, Handles
    <3>3. CASE Dispatch(w)
      BY <3>1, <3>3 DEF Dispatch, Leave, InDispatch, Results
    <3>4. CASE StartRun(w) \/ UpdateState(w)
      BY <3>2, <3>4 DEF StartRun, UpdateState, InDispatch
    <3>5. CASE Evaluate(w) \/ AuditUpdate(w)
      BY <3>5 DEF Evaluate, AuditUpdate, Results, InDispatch
    <3>6. CASE (FailDispatch(w) \/ FailLate(w)) /\ Holds(w)
      <4>1. ~(work[w].pc \in {"lease", "takeover"})
        BY <3>6 DEF Holds, InDispatch
      <4>2. At(w, "release") => stranded' = stranded \cup {"lease"} \/ ~FailLate(w)
        BY DEF FailLate, At
      <4>3. Result(w, "failed", "release") \/ Result(w, "done", "release")
        BY <3>6, <4>1, <4>2 DEF FailDispatch, FailLate
      <4> QED
        BY <4>3 DEF Results, InDispatch
    <3> QED
      BY <1>4, <3>3, <3>4, <3>5, <3>6
  <2>3. \E pc \in InDispatch : \E result \in Results \cup {work[w].result} :
          Works(w, pc, result, work[w].i) /\ work'[w].busy = work[w].busy
    <3>1. InDispatch \subseteq Pcs
      BY DEF Pcs, Owning
    <3> QED
      BY <2>1, <2>2, <3>1, GotoWorks, ResultWorks, ThreadWorks, ZenonT(60)
  <2> QED
    BY <2>1, <2>3 DEF Stays, Works, SamePlace, Others, At, Holds, InDispatch
<1>5. ASSUME NEW w \in Workers, ReleaseLease(w)
      PROVE  Frees(w)
  <2>1. /\ Holds(w) /\ ~At(w, "idle") /\ lease' = [lease EXCEPT ![Cp(w)] = "free"]
        /\ Goto(w, "unclaim") \/ NextCp(w, FALSE)
    BY <1>5 DEF ReleaseLease, Holds, InDispatch, At
  <2>2. \E pc \in {"unclaim", "claim"} : \E i \in {work[w].i, work[w].i + 1} :
          Works(w, pc, work[w].result, i)
    BY <2>1, GotoWorks, NextCpWorks DEF Pcs, Owning
  <2> QED
    BY <2>1, <2>2 DEF Frees, Works, Others, At, Holds, InDispatch
<1>6. ASSUME NEW w \in Workers, ReleaseRun(w)
      PROVE  Stays(w)
  <2>1. /\ ~At(w, "idle") /\ ~Holds(w) /\ lease' = lease
        /\ Settle(w, FALSE) \/ NextCp(w, work[w].event \notin Simulated)
    BY <1>6 DEF ReleaseRun, Holds, InDispatch, At
  <2>2. /\ work'[w].pc \in {"idle", "claim"}
        /\ \A v \in Workers \ {w} : work'[v] = work[v]
    <3>1. (work[w].event \notin Simulated) \in BOOLEAN
      OBVIOUS
    <3>2. CASE Settle(w, FALSE)
      BY <2>1, <3>2, SettleWorks
    <3>3. CASE NextCp(w, work[w].event \notin Simulated)
      BY <2>1, <3>1, <3>3, NextCpWorks DEF Works
    <3> QED
      BY <2>1, <3>2, <3>3
  <2> QED
    BY <2>1, <2>2 DEF Stays, Others, At, Holds, InDispatch
<1>7. ASSUME NEW w \in Workers, NEW e \in Events, Deliver(w, e) \/ Simulate(w, e)
      PROVE  Stays(w)
  <2>1. /\ At(w, "idle") /\ lease' = lease
        /\ work' = [work EXCEPT ![w] =
             [pc |-> "claim", event |-> e, i |-> 1, busy |-> FALSE, result |-> "none",
              thread |-> e]]
    BY <1>7 DEF Deliver, Simulate, Begin
  <2> QED
    BY <2>1 DEF TypeOK, Stays, Others, At, Holds, InDispatch
<1>8. ASSUME NEW cp \in Cps, Expire(cp)
      PROVE  FALSE
  <2>1. lease[cp] = "live" /\ Holders(cp) = {}
    BY <1>8 DEF Expire
  <2>2. PICK w \in Workers : Holds(w) /\ Cp(w) = cp
    BY <2>1 DEF Leased
  <2>3. w \in Holders(cp)
    BY <2>2 DEF Holders, Holds
  <2> QED
    BY <2>1, <2>3
<1>9. ASSUME NEW t \in Events, NEW cp \in Listed[t], Approve(t, cp) \/ Resolve(t, cp)
      PROVE  UNCHANGED <<work, lease>>
  BY <1>9 DEF Approve, Resolve
<1>11. ASSUME NEW w \in Workers, FailDispatch(w), ~Holds(w), lease' = lease
       PROVE  Stays(w)
  <2>1. ~At(w, "idle") /\ Result(w, "failed", "unclaim")
    BY <1>11 DEF FailDispatch, Holds, InDispatch, At
  <2>2. Works(w, "unclaim", "failed", work[w].i)
    BY <2>1, ResultWorks DEF Pcs, Owning, InDispatch, Results
  <2> QED
    BY <1>11, <2>2 DEF Stays, Works, Others, At, Holds, InDispatch
<1>12. ASSUME NEW w \in Workers, FailRequest(w), lease' = lease
       PROVE  Stays(w)
  <2>1. ~At(w, "idle") /\ ~Holds(w) /\ Settle(w, FALSE)
    BY <1>12 DEF FailRequest, Holds, InDispatch, At
  <2>2. work'[w].pc = "idle" /\ \A v \in Workers \ {w} : work'[v] = work[v]
    BY <2>1, SettleWorks
  <2> QED
    BY <1>12, <2>1, <2>2 DEF Stays, Others, At, Holds, InDispatch
<1>13. ASSUME NEW w \in Workers, Fail(w)
       PROVE  Stays(w)
  <2>1. lease' = lease /\ (FailLate(w) => Holds(w))
    BY <1>13 DEF Fail, FailLate, Holds, InDispatch, At
  <2> QED
    BY <1>4, <1>11, <1>12, <1>13, <2>1 DEF Fail
<1>10. \A w \in Workers : Worker(w) \/ Fail(w) => Grants(w) \/ Frees(w) \/ Stays(w)
  BY <1>1, <1>2, <1>3, <1>4, <1>5, <1>6, <1>13 DEF Worker
<1> QED
  BY <1>0, <1>7, <1>8, <1>9, <1>10 DEF Next

\* Every step keeps Leased.
LEMMA LeasedStep ==
  ASSUME TypeOK, Indexed, Leased, [Next]_vars, \A w \in Workers : ~Crash(w),
         "lease" \notin stranded'
  PROVE  Leased'
<1>1. CASE UNCHANGED <<work, lease>>
  BY <1>1 DEF Leased, Holds, Cp, At
<1>2. ASSUME NEW w \in Workers, Grants(w)
      PROVE  Leased'
  <2>1. Owns(w) /\ ~Holds(w) /\ Holds(w)' /\ ~At(w, "takeover")' /\ Others(w)
    BY <1>2 DEF Grants, Owns, Owning, At, Holds, InDispatch
  <2>2. Cp(w) \in Cps /\ Cp(w)' = Cp(w) /\ lease \in [Cps -> {"free", "live", "expired"}]
    BY <1>2, <2>1, InHand DEF TypeOK, Grants, SamePlace, Cp
  <2>3. /\ lease'[Cp(w)] = "live" /\ lease[Cp(w)] = "free"
        /\ \A cp \in Cps \ {Cp(w)} : lease'[cp] = lease[cp]
    BY <1>2, <2>2 DEF Grants
  <2>4. \A v \in Workers \ {w} : (Holds(v)' <=> Holds(v)) /\ Cp(v)' = Cp(v)
                                 /\ (At(v, "takeover")' <=> At(v, "takeover"))
    BY <2>1 DEF Others, Holds, Cp, At
  <2>5. \A v \in Workers \ {w} : Holds(v) => Cp(v) # Cp(w) /\ Cp(v) \in Cps
    BY <2>3, InHand DEF Leased, Holds, Owns, Owning
  <2> QED
    BY <2>1, <2>2, <2>3, <2>4, <2>5 DEF Leased
<1>3. ASSUME NEW w \in Workers, Frees(w)
      PROVE  Leased'
  <2>1. Owns(w) /\ Holds(w) /\ ~Holds(w)' /\ ~At(w, "takeover")' /\ Others(w)
    BY <1>3 DEF Frees, Owns, Owning, Holds
  <2>2. Cp(w) \in Cps /\ lease \in [Cps -> {"free", "live", "expired"}]
    BY <2>1, InHand DEF TypeOK
  <2>3. lease'[Cp(w)] = "free" /\ \A cp \in Cps \ {Cp(w)} : lease'[cp] = lease[cp]
    BY <1>3, <2>2 DEF Frees
  <2>4. \A v \in Workers \ {w} : (Holds(v)' <=> Holds(v)) /\ Cp(v)' = Cp(v)
                                 /\ (At(v, "takeover")' <=> At(v, "takeover"))
    BY <2>1 DEF Others, Holds, Cp, At
  <2>5. \A v \in Workers \ {w} : Holds(v) => Cp(v) # Cp(w) /\ Cp(v) \in Cps
    BY <2>1, InHand DEF Leased, Holds, Owns, Owning
  <2> QED
    BY <2>1, <2>2, <2>3, <2>4, <2>5 DEF Leased
<1>4. ASSUME NEW w \in Workers, Stays(w)
      PROVE  Leased'
  <2>1. \A v \in Workers : /\ Holds(v)' <=> Holds(v)
                           /\ Holds(v) => Cp(v)' = Cp(v)
                           /\ At(v, "takeover")' => At(v, "takeover")
    BY <1>4 DEF Stays, SamePlace, Others, Holds, Cp, At
  <2>2. lease' = lease
    BY <1>4 DEF Stays
  <2> QED
    BY <2>1, <2>2 DEF Leased
<1> QED
  BY <1>1, <1>2, <1>3, <1>4, LeaseKinds

\* The holders of a counterparty's lease are one or none.
LEMMA LeasedCounts == Leased => LeaseTracksHolder
<1> SUFFICES ASSUME Leased, NEW cp \in Cps
             PROVE  Cardinality(Holders(cp)) = IF lease[cp] = "free" THEN 0 ELSE 1
  BY DEF LeaseTracksHolder
<1>1. CASE lease[cp] = "free"
  <2>1. Holders(cp) = {}
    BY <1>1 DEF Leased, Holders, Holds
  <2> QED
    BY <1>1, <2>1, FS_EmptySet
<1>2. CASE lease[cp] # "free"
  <2>1. PICK w \in Workers : Holds(w) /\ Cp(w) = cp
    BY <1>2 DEF Leased
  <2>2. Holders(cp) = {w}
    BY <2>1 DEF Leased, Holders, Holds
  <2> QED
    BY <1>2, <2>2, FS_Singleton
<1> QED
  BY <1>1, <1>2

\* While no worker is lost, and every DELETE of a lease goes through, two dispatches
\* of a counterparty never overlap and none leaves its lease behind.
THEOREM LeaseHeldByOne == Spec => []LeaseTracksHolder
<1>1. Init => Leased
  BY DEF Init, Leased, Holds, InDispatch, At, Idle
<1> DEFINE LeasedSo == crashes = 0 /\ "lease" \notin stranded => Leased
<1>2. TypeOK /\ Indexed /\ LeasedSo /\ [Next]_vars => LeasedSo'
  <2> SUFFICES ASSUME TypeOK, Indexed, LeasedSo, [Next]_vars,
                      crashes' = 0, "lease" \notin stranded'
               PROVE  Leased'
    OBVIOUS
  <2> QED
    BY FaultsCounted, LeasedStep
<1>3. LeasedSo => LeaseTracksHolder
  BY LeasedCounts DEF LeaseTracksHolder
<1>4. Init => TypeOK /\ Indexed
  BY BoundsAssumption
  DEF Init, TypeOK, Indexed, Owns, Owning, InDispatch, Idle, Thread, NewThread
<1>5. TypeOK /\ Indexed /\ [Next]_vars => TypeOK' /\ Indexed'
  BY TypedStep
<1> QED
  BY <1>1, <1>2, <1>3, <1>4, <1>5, PTL DEF Spec

-----------------------------------------------------------------------------
(* One open call, while no worker is lost and nobody signs during a dispatch. *)

Open(k) == OpenCallStage(threads[k]) # "none"

\* Two calls of a counterparty are not open together.
OneOpen == \A j, k \in Keys : Open(j) /\ Open(k) /\ j[2] = k[2] => j = k

\* An approval that is pending belongs to an open call.
GateOpen == \A k \in Keys : threads[k].gate => Open(k)

\* A call is over only once it was decided.
OverDecided == \A k \in Keys : threads[k].over => threads[k].decision # "none"

\* What a dispatch found is still so while it holds the lease: no open call, or
\* the one it updates.
Call(w) == <<work[w].thread, Cp(w)>>
Found(w) ==
  /\ At(w, "start") => \A k \in Keys : k[2] = Cp(w) => ~Open(k)
  /\ At(w, "update") => Call(w) \in Keys /\ Open(Call(w))
  /\ At(w, "evaluate") =>
       /\ Call(w) \in Keys
       /\ threads[Call(w)].decision # "rejected" /\ ~threads[Call(w)].over
       /\ \A k \in Keys : k[2] = Cp(w) /\ Open(k) => k = Call(w)
FoundHolds == \A w \in Workers : Found(w)

Single == OneOpen /\ GateOpen /\ OverDecided /\ FoundHolds

Deciding == {"start", "update", "evaluate"}

\* A worker's findings are about its counterparty: they hold while another
\* counterparty's thread changes.
LEMMA FoundAway ==
  ASSUME NEW v \in Workers, Found(v), NEW K \in SUBSET Keys,
         \A j \in Keys \ K : threads'[j] = threads[j],
         Holds(v) => \A k \in K : k[2] # Cp(v),
         work'[v] = work[v]
  PROVE  Found(v)'
<1>1. Cp(v)' = Cp(v) /\ Call(v)' = Call(v) /\ Call(v)[2] = Cp(v)
      /\ \A pc \in Deciding : At(v, pc)' <=> At(v, pc)
  BY DEF Cp, Call, At
<1>2. \A pc \in Deciding : At(v, pc) => Holds(v)
  BY DEF Deciding, At, Holds, InDispatch
<1>3. \A pc \in Deciding : At(v, pc) =>
        \A k \in Keys : k[2] = Cp(v) => threads'[k] = threads[k] /\ (Open(k)' <=> Open(k))
  BY <1>2 DEF Open
<1>4. (At(v, "start") => \A k \in Keys : k[2] = Cp(v) => ~Open(k))'
  BY <1>1, <1>3 DEF Found, Deciding
<1>5. (At(v, "update") => Call(v) \in Keys /\ Open(Call(v)))'
  <2> SUFFICES ASSUME At(v, "update")
               PROVE  Call(v) \in Keys /\ OpenCallStage(threads'[Call(v)]) # "none"
    BY <1>1 DEF Deciding, Open
  <2>1. Call(v) \in Keys /\ Open(Call(v))
    BY DEF Found
  <2>2. threads'[Call(v)] = threads[Call(v)]
    BY <1>1, <1>3, <2>1 DEF Deciding
  <2> QED
    BY <2>1, <2>2 DEF Open
<1>6. ASSUME At(v, "evaluate")
      PROVE  /\ Call(v) \in Keys
             /\ threads'[Call(v)].decision # "rejected" /\ ~threads'[Call(v)].over
             /\ \A k \in Keys : k[2] = Cp(v) /\ Open(k)' => k = Call(v)
  <2>1. /\ Call(v) \in Keys
        /\ threads[Call(v)].decision # "rejected" /\ ~threads[Call(v)].over
        /\ \A k \in Keys : k[2] = Cp(v) /\ Open(k) => k = Call(v)
    BY <1>6 DEF Found
  <2>2. threads'[Call(v)] = threads[Call(v)]
    BY <1>1, <1>3, <1>6, <2>1 DEF Deciding
  <2> QED
    BY <1>3, <1>6, <2>1, <2>2 DEF Deciding
<1>7. /\ At(v, "evaluate")' => At(v, "evaluate")
      /\ \A k \in Keys : k[2] = Cp(v)' /\ Open(k)' => k[2] = Cp(v) /\ Open(k)'
  BY <1>1 DEF Deciding
<1> QED
  BY <1>1, <1>4, <1>5, <1>6, <1>7 DEF Found

\* A step of a worker that neither decides nor finds anything.
LEMMA SingleAside ==
  ASSUME Single, NEW w \in Workers, threads' = threads, Others(w),
         \A pc \in Deciding : ~At(w, pc)'
  PROVE  Single'
<1>1. OneOpen' /\ GateOpen' /\ OverDecided'
  BY DEF Single, OneOpen, GateOpen, OverDecided, Open
<1>2. FoundHolds'
  <2>1. ASSUME NEW v \in Workers, v # w
        PROVE  Found(v)'
    <3>1. {} \in SUBSET Keys /\ work'[v] = work[v] /\ Found(v)
      BY <2>1 DEF Others, Single, FoundHolds
    <3> QED
      BY <3>1, FoundAway
  <2>2. Found(w)'
    BY DEF Found, Deciding
  <2> QED
    BY <2>1, <2>2 DEF FoundHolds
<1> QED
  BY <1>1, <1>2 DEF Single

\* The dispatch that finds no open call, or the one it will update.
LEMMA SingleFinds ==
  ASSUME TypeOK, Indexed, Leased, Single, NEW w \in Workers, Dispatch(w)
  PROVE  Single'
<1>1. /\ At(w, "find") /\ ~At(w, "idle") /\ Owns(w) /\ threads' = threads
      /\ \A pc \in Deciding : ~At(w, pc)
  BY DEF Dispatch, At, Owns, Owning, InDispatch, Deciding
<1>2. CASE \E outcome \in Outcomes : Leave(w, outcome)
  <2>1. PICK outcome \in Outcomes : Record(w, outcome) /\ Result(w, "done", "release")
    BY <1>2 DEF Leave
  <2>2. Works(w, "release", "done", work[w].i)
    BY <1>1, <2>1, ResultWorks DEF Pcs, Owning, InDispatch, Results
  <2>3. Others(w) /\ \A pc \in Deciding : ~At(w, pc)'
    BY <2>2 DEF Works, Others, At, Deciding
  <2> QED
    BY <1>1, <2>3, SingleAside
<1>3. ASSUME Others(w), Found(w)'
      PROVE  Single'
  <2>1. OneOpen' /\ GateOpen' /\ OverDecided'
    BY <1>1 DEF Single, OneOpen, GateOpen, OverDecided, Open
  <2>2. ASSUME NEW v \in Workers, v # w
        PROVE  Found(v)'
    <3>1. {} \in SUBSET Keys /\ work'[v] = work[v] /\ Found(v)
      BY <1>3, <2>2 DEF Others, Single, FoundHolds
    <3> QED
      BY <1>1, <3>1, FoundAway
  <2> QED
    BY <1>3, <2>1, <2>2 DEF Single, FoundHolds
<1>4. CASE OpenCalls(Cp(w)) = {} /\ Goto(w, "start") /\ UNCHANGED log
  <2>1. Works(w, "start", work[w].result, work[w].i)
    BY <1>1, <1>4, GotoWorks DEF Pcs, Owning, InDispatch
  <2>2. Cp(w)' = Cp(w) /\ Others(w) /\ At(w, "start")'
    BY <2>1 DEF Works, Others, Cp, At
  <2>3. ASSUME NEW k \in Keys, k[2] = Cp(w), Open(k)
        PROVE  FALSE
    <3>1. k = <<k[1], k[2]>> /\ k[1] \in Events /\ Cp(w) \in Listed[k[1]]
      BY <2>3, ListsTyped
    <3>2. k[1] \in OpenCalls(Cp(w))
      BY <2>3, <3>1 DEF OpenCalls, Stage, Open
    <3> QED
      BY <1>4, <3>2
  <2>4. Found(w)'
    BY <1>1, <2>2, <2>3 DEF Found, At, Open
  <2> QED
    BY <1>3, <1>4, <2>2, <2>4 DEF At
<1>5. ASSUME NEW t \in FindOpenCall(Cp(w)), UNCHANGED log,
             work' = [work EXCEPT ![w].pc = "update", ![w].thread = t]
      PROVE  Single'
  <2>1. t \in Events /\ Cp(w) \in Listed[t] /\ OpenCallStage(threads[<<t, Cp(w)>>]) # "none"
    BY <1>5 DEF FindOpenCall, OpenCalls, Stage
  <2>2. Works(w, "update", work[w].result, work[w].i) /\ work'[w].thread = t
    BY <1>1, <1>5, <2>1, ThreadWorks DEF Pcs, Owning, InDispatch
  <2>3. Cp(w)' = Cp(w) /\ Others(w) /\ At(w, "update")' /\ Call(w)' = <<t, Cp(w)>>
    BY <2>2 DEF Works, Others, Cp, At, Call
  <2>4. <<t, Cp(w)>> \in Keys
    BY <2>1, ListsTyped
  <2>5. Call(w)' \in Keys /\ OpenCallStage(threads'[Call(w)']) # "none"
    BY <1>1, <2>1, <2>3, <2>4
  <2>6. Found(w)'
    BY <2>3, <2>5 DEF Found, At, Open
  <2> QED
    BY <1>3, <1>5, <2>3, <2>6 DEF At
<1> QED
  BY <1>2, <1>4, <1>5 DEF Dispatch, Outcomes

\* What open_call_stage calls open.
LEMMA OpenMeans ==
  ASSUME NEW th \in Thread
  PROVE  OpenCallStage(th) # "none" <=> th.breached /\ ~th.over /\ th.decision # "rejected"
<1>1. th.breached \in BOOLEAN /\ th.over \in BOOLEAN
  BY DEF Thread
<1>2. CASE ~th.breached \/ th.over \/ th.decision = "rejected"
  BY <1>2 DEF OpenCallStage
<1>3. CASE th.decision = "approved" /\ ~(~th.breached \/ th.over \/ th.decision = "rejected")
  BY <1>3 DEF OpenCallStage
<1>4. CASE th.decision # "approved" /\ ~(~th.breached \/ th.over \/ th.decision = "rejected")
  BY <1>4 DEF OpenCallStage
<1> QED
  BY <1>1, <1>2, <1>3, <1>4

\* A worker that holds the lease, and no other, moves on with a call of its
\* counterparty.
LEMMA SingleOthers ==
  ASSUME TypeOK, Indexed, Leased, Single, NEW w \in Workers, Holds(w), Others(w),
         NEW k \in Keys, k[2] = Cp(w), \A j \in Keys \ {k} : threads'[j] = threads[j]
  PROVE  \A v \in Workers : v # w => Found(v)'
<1> SUFFICES ASSUME NEW v \in Workers, v # w
             PROVE  Found(v)'
  OBVIOUS
<1>1. work'[v] = work[v] /\ Found(v) /\ {k} \in SUBSET Keys
  BY DEF Others, Single, FoundHolds
<1>2. Holds(v) => \A j \in {k} : j[2] # Cp(v)
  BY DEF Leased
<1> QED
  BY <1>1, <1>2, FoundAway

\* A run starts while no call is open, on a thread nobody decided.
LEMMA SingleStarts ==
  ASSUME TypeOK, Indexed, Leased, Single, NEW w \in Workers, StartRun(w),
         "decision" \notin stranded'
  PROVE  Single'
<1>1. /\ At(w, "start") /\ ~At(w, "idle") /\ Owns(w) /\ Holds(w)
      /\ work' = [work EXCEPT ![w].pc = "evaluate", ![w].thread = work[w].event]
      /\ threads' = [threads EXCEPT ![Key(w)] =
           [@ EXCEPT !.gate = FALSE, !.applied = {work[w].event}]]
      /\ threads[Key(w)].decision = "none"
  BY DEF StartRun, At, Owns, Owning, Holds, InDispatch
<1>2. Works(w, "evaluate", work[w].result, work[w].i) /\ work'[w].thread = work[w].event
  BY <1>1, Handles, ThreadWorks DEF Pcs, Owning, InDispatch
<1>3. /\ Others(w) /\ At(w, "evaluate")' /\ Cp(w)' = Cp(w) /\ Call(w)' = Key(w)
  BY <1>1, <1>2 DEF Works, Others, At, Cp, Key, Call
<1>4. Key(w) \in Keys /\ Key(w)[2] = Cp(w)
  BY <1>1, InHand
<1>5. threads \in [Keys -> Thread]
  BY DEF TypeOK
<1>6. /\ \A j \in Keys \ {Key(w)} : threads'[j] = threads[j]
      /\ threads'[Key(w)].breached = threads[Key(w)].breached /\ ~threads'[Key(w)].gate
      /\ threads'[Key(w)].decision = "none"
      /\ threads'[Key(w)].over = threads[Key(w)].over
  BY <1>1, <1>4, <1>5 DEF Thread
<1>7. ~threads[Key(w)].over
  BY <1>1, <1>4 DEF Single, OverDecided
<1>8. \A j \in Keys : Open(j)' <=> Open(j)
  <2>1. threads'[Key(w)].decision = threads[Key(w)].decision
    BY <1>1, <1>6
  <2> QED
    BY <1>6, <2>1 DEF Open, OpenCallStage
<1>9. OneOpen' /\ GateOpen' /\ OverDecided'
  BY <1>6, <1>7, <1>8 DEF Single, OneOpen, GateOpen, OverDecided
<1>10. Found(w)'
  <2>1. \A k \in Keys : k[2] = Cp(w) => ~Open(k)'
    BY <1>1, <1>8 DEF Single, FoundHolds, Found
  <2>2. /\ threads'[Call(w)'].decision # "rejected" /\ ~threads'[Call(w)'].over
        /\ Call(w)' \in Keys
    BY <1>3, <1>4, <1>6, <1>7
  <2> QED
    BY <1>3, <2>1, <2>2 DEF Found, At
<1>11. FoundHolds'
  BY <1>1, <1>3, <1>4, <1>6, <1>10, SingleOthers DEF FoundHolds
<1> QED
  BY <1>9, <1>11 DEF Single

\* The call that is updated is the one that was found.
LEMMA SingleUpdates ==
  ASSUME TypeOK, Indexed, Leased, Single, NEW w \in Workers, UpdateState(w)
  PROVE  Single'
<1>0. PICK k \in Keys : k = Call(w) /\ Open(k)
  BY DEF UpdateState, Single, FoundHolds, Found
<1>1. /\ At(w, "update") /\ ~At(w, "idle") /\ Holds(w) /\ Goto(w, "evaluate")
      /\ threads' = [threads EXCEPT ![k].gate = FALSE, ![k].applied = @ \cup {work[w].event}]
  BY <1>0 DEF UpdateState, At, Holds, InDispatch, Call
<1>2. Works(w, "evaluate", work[w].result, work[w].i) /\ work'[w].thread = work[w].thread
  <2>1. Works(w, "evaluate", work[w].result, work[w].i)
    BY <1>1, GotoWorks DEF Pcs, Owning, InDispatch
  <2>2. work' = [work EXCEPT ![w].pc = "evaluate"] /\ w \in DOMAIN work /\ work[w] \in Work
    BY <1>1, Handles DEF Goto, TypeOK
  <2> QED
    BY <2>1, <2>2 DEF Work
<1>3. /\ Others(w) /\ At(w, "evaluate")' /\ Cp(w)' = Cp(w) /\ Call(w)' = k
  BY <1>0, <1>1, <1>2 DEF Works, Others, At, Cp, Call
<1>4. k[2] = Cp(w)
  BY <1>0 DEF Call
<1>5. threads \in [Keys -> Thread]
  BY DEF TypeOK
<1>6. /\ \A j \in Keys \ {k} : threads'[j] = threads[j]
      /\ threads'[k].breached = threads[k].breached /\ ~threads'[k].gate
      /\ threads'[k].decision = threads[k].decision /\ threads'[k].over = threads[k].over
  BY <1>1, <1>5 DEF Thread
<1>7. \A j \in Keys : Open(j)' <=> Open(j)
  BY <1>6 DEF Open, OpenCallStage
<1>8. OneOpen' /\ GateOpen' /\ OverDecided'
  BY <1>6, <1>7 DEF Single, OneOpen, GateOpen, OverDecided
<1>9. Found(w)'
  <2>1. threads[k].decision # "rejected" /\ ~threads[k].over
    BY <1>0, <1>5, OpenMeans DEF Open
  <2>2. \A j \in Keys : j[2] = Cp(w) /\ Open(j)' => j = k
    BY <1>0, <1>4, <1>7 DEF Single, OneOpen
  <2>3. threads'[Call(w)'].decision # "rejected" /\ ~threads'[Call(w)'].over
    BY <1>3, <1>6, <2>1
  <2> QED
    BY <1>3, <1>4, <2>2, <2>3 DEF Found, At
<1>10. FoundHolds'
  BY <1>1, <1>3, <1>4, <1>6, <1>9, SingleOthers DEF FoundHolds
<1> QED
  BY <1>8, <1>10 DEF Single

\* An evaluation opens or closes the one call found; one that raises may leave
\* it open, its gate not asked for.
LEMMA SingleEvaluates ==
  ASSUME TypeOK, Indexed, Leased, Single, NEW w \in Workers, At(w, "evaluate"),
         NEW breach \in BOOLEAN, NEW gate \in BOOLEAN, gate => breach,
         \/ threads' = [threads EXCEPT ![Call(w)] = [@ EXCEPT !.breached = breach, !.gate = gate]]
         \/ breach /\ threads' = [threads EXCEPT ![Call(w)] = [@ EXCEPT !.breached = TRUE]],
         \E result \in Results, pc \in {"release", "audit"} : Result(w, result, pc)
  PROVE  Single'
<1>0. PICK k \in Keys : k = Call(w)
  BY DEF Single, FoundHolds, Found
<1>1. ~At(w, "idle") /\ Holds(w)
  BY DEF At, Holds, InDispatch
<1>2. threads \in [Keys -> Thread]
  BY DEF TypeOK
<1>3. \E result \in Results : Works(w, "release", result, work[w].i) \/ Works(w, "audit", result, work[w].i)
  BY <1>1, ResultWorks DEF Pcs, Owning, InDispatch
<1>4. Others(w) /\ \A pc \in Deciding : ~At(w, pc)'
  BY <1>3 DEF Works, Others, At, Deciding
<1>5. /\ k[2] = Cp(w)
      /\ threads[k].decision # "rejected" /\ ~threads[k].over
      /\ \A j \in Keys : j[2] = Cp(w) /\ Open(j) => j = k
  BY <1>0 DEF Single, FoundHolds, Found, Call
<1>6. /\ \A j \in Keys \ {k} : threads'[j] = threads[j]
      /\ threads'[k].breached = breach /\ (threads'[k].gate => breach)
      /\ threads'[k].decision = threads[k].decision /\ threads'[k].over = threads[k].over
      /\ threads'[k] \in Thread
  <2>1. CASE threads' = [threads EXCEPT ![k] = [@ EXCEPT !.breached = breach, !.gate = gate]]
    BY <1>2, <2>1 DEF Thread
  <2>2. CASE breach /\ threads' = [threads EXCEPT ![k] = [@ EXCEPT !.breached = TRUE]]
    BY <1>2, <2>2 DEF Thread
  <2> QED
    BY <1>0, <2>1, <2>2
<1>7. \A j \in Keys \ {k} : Open(j)' <=> Open(j)
  BY <1>6 DEF Open
<1>8. threads'[k].gate => Open(k)'
  BY <1>5, <1>6, OpenMeans DEF Open
<1>9. OneOpen' /\ GateOpen' /\ OverDecided'
  BY <1>5, <1>6, <1>7, <1>8 DEF Single, OneOpen, GateOpen, OverDecided
<1>10. Found(w)'
  BY <1>4 DEF Found, Deciding
<1>11. FoundHolds'
  BY <1>1, <1>4, <1>5, <1>6, <1>10, SingleOthers DEF FoundHolds
<1> QED
  BY <1>9, <1>11 DEF Single

\* An exception.
LEMMA SingleFails ==
  ASSUME TypeOK, Indexed, Leased, Single, NEW w \in Workers, Fail(w)
  PROVE  Single'
<1>1. CASE FailRequest(w)
  <2>1. ~At(w, "idle") /\ Settle(w, FALSE) /\ threads' = threads
    BY <1>1 DEF FailRequest, At
  <2>2. work'[w].pc = "idle" /\ \A v \in Workers \ {w} : work'[v] = work[v]
    BY <2>1, SettleWorks
  <2>3. Others(w) /\ \A pc \in Deciding : ~At(w, pc)'
    BY <2>2 DEF Others, At, Deciding
  <2> QED
    BY <2>1, <2>3, SingleAside
<1>2. ASSUME ~At(w, "idle"), threads' = threads, NEW result \in Results,
             Result(w, result, "release") \/ Result(w, result, "unclaim")
      PROVE  Single'
  <2>1. Works(w, "release", result, work[w].i) \/ Works(w, "unclaim", result, work[w].i)
    BY <1>2, ResultWorks DEF Pcs, Owning, InDispatch
  <2>2. Others(w) /\ \A pc \in Deciding : ~At(w, pc)'
    BY <2>1 DEF Works, Others, At, Deciding
  <2> QED
    BY <1>2, <2>2, SingleAside
<1>3. CASE FailLate(w)
  <2>1. /\ ~At(w, "idle") /\ threads' = threads
        /\ Result(w, "failed", "release") \/ Result(w, "failed", "unclaim")
    BY <1>3 DEF FailLate, At
  <2> QED
    BY <1>2, <2>1 DEF Results
<1>4. CASE FailDispatch(w)
  <2>1. /\ ~At(w, "idle")
        /\ \/ Result(w, "failed", "unclaim") /\ threads' = threads
           \/ Result(w, "failed", "release") \/ Result(w, "done", "release")
    BY <1>4 DEF FailDispatch, At
  <2>2. CASE threads' = threads
    BY <1>2, <2>1, <2>2 DEF Results
  <2>3. CASE threads' # threads
    <3>1. /\ At(w, "evaluate")
          /\ threads' = [threads EXCEPT ![Call(w)] = [@ EXCEPT !.breached = TRUE]]
          /\ Result(w, "failed", "release") \/ Result(w, "done", "release")
      BY <1>4, <2>1, <2>3 DEF FailDispatch, Call
    <3>2. \E result \in Results, pc \in {"release", "audit"} : Result(w, result, pc)
      BY <3>1 DEF Results
    <3> QED
      BY <3>1, <3>2, SingleEvaluates
  <2> QED
    BY <2>2, <2>3
<1> QED
  BY <1>1, <1>3, <1>4 DEF Fail

\* An approver acts on an open call while no dispatch of its counterparty runs.
LEMMA SingleHumans ==
  ASSUME TypeOK, Indexed, Leased, Single, ~HumansOverlap,
         NEW t \in Events, NEW cp \in Listed[t], Approve(t, cp) \/ Resolve(t, cp)
  PROVE  Single'
<1> DEFINE k == <<t, cp>>
<1>1. k \in Keys /\ k[2] = cp /\ threads[k] \in Thread
  BY ListsTyped DEF TypeOK
<1>2. /\ threads' \in [Keys -> Thread]
      /\ \A j \in Keys \ {k} : threads'[j] = threads[j]
      /\ ~threads'[k].gate
      /\ threads'[k].decision # "none"
      /\ work' = work /\ Holders(cp) = {}
  <2>1. CASE Approve(t, cp)
    <3>1. PICK d \in {"approved", "rejected"} :
            threads' = [threads EXCEPT ![k] = [@ EXCEPT !.gate = FALSE, !.decision = d]]
      BY <2>1 DEF Approve
    <3>2. [threads[k] EXCEPT !.gate = FALSE, !.decision = d] \in Thread
          /\ threads \in [Keys -> Thread]
      BY <1>1, ThreadUpdates DEF TypeOK
    <3>3. /\ threads' \in [Keys -> Thread]
          /\ \A j \in Keys \ {k} : threads'[j] = threads[j]
          /\ threads'[k] = [threads[k] EXCEPT !.gate = FALSE, !.decision = d]
      BY <1>1, <3>1, <3>2
    <3>4. ~threads'[k].gate /\ threads'[k].decision # "none"
      BY <1>1, <3>3 DEF Thread
    <3> QED
      BY <2>1, <3>3, <3>4 DEF Approve, Undisturbed
  <2>2. CASE Resolve(t, cp)
    <3>1. /\ threads' = [threads EXCEPT ![k].over = TRUE] /\ ~threads[k].gate
          /\ threads[k].decision # "none"
      BY <2>2 DEF Resolve, Stage, OpenCallStage
    <3>2. [threads[k] EXCEPT !.over = TRUE] \in Thread /\ threads \in [Keys -> Thread]
      BY <1>1, ThreadUpdates DEF TypeOK
    <3>3. /\ threads' \in [Keys -> Thread]
          /\ \A j \in Keys \ {k} : threads'[j] = threads[j]
          /\ threads'[k] = [threads[k] EXCEPT !.over = TRUE]
      BY <1>1, <3>1, <3>2
    <3>4. ~threads'[k].gate /\ threads'[k].decision # "none"
      BY <1>1, <3>1, <3>3 DEF Thread
    <3> QED
      BY <2>2, <3>3, <3>4 DEF Resolve, Undisturbed
  <2> QED
    BY <2>1, <2>2
<1>3. Open(k)
  <2>1. CASE Approve(t, cp)
    BY <1>1, <2>1 DEF Approve, Single, GateOpen
  <2>2. CASE Resolve(t, cp)
    BY <2>2 DEF Resolve, Stage, Open
  <2> QED
    BY <2>1, <2>2
<1> HIDE DEF k
<1>4. PICK c \in Keys : c = k
  BY <1>1
<1>5. \A j \in Keys : OpenCallStage(threads'[j]) # "none" => Open(j)
  BY <1>2, <1>3 DEF Open
<1>6. \A j \in Keys : threads'[j].gate => j # c /\ threads'[j] = threads[j]
  BY <1>2, <1>4
<1>7. OneOpen' /\ GateOpen' /\ OverDecided'
  <2>1. OneOpen'
    BY <1>5 DEF Single, OneOpen, Open
  <2>2. GateOpen'
    BY <1>6 DEF Single, GateOpen, Open
  <2>3. OverDecided'
    BY <1>2, <1>4 DEF Single, OverDecided
  <2> QED
    BY <2>1, <2>2, <2>3
<1>8. \A v \in Workers : Holds(v) => Cp(v) # cp
  BY <1>2 DEF Holders, Holds
<1>9. FoundHolds'
  <2> SUFFICES ASSUME NEW v \in Workers
               PROVE  Found(v)'
    BY DEF FoundHolds
  <2>1. Found(v) /\ work'[v] = work[v] /\ {c} \in SUBSET Keys
    BY <1>2 DEF Single, FoundHolds
  <2>2. Holds(v) => \A j \in {c} : j[2] # Cp(v)
    BY <1>1, <1>4, <1>8
  <2>3. \A j \in Keys \ {c} : threads'[j] = threads[j]
    BY <1>2, <1>4
  <2> QED
    BY <2>1, <2>2, <2>3, FoundAway
<1> QED
  BY <1>7, <1>9 DEF Single

\* The rest of a request's steps.
LEMMA SingleRest ==
  ASSUME TypeOK, Indexed, Leased, Single, NEW w \in Workers,
         \/ Claim(w) \/ TakeLease(w) \/ AuditUpdate(w) \/ ReleaseLease(w) \/ ReleaseRun(w)
         \/ \E e \in Events : Deliver(w, e) \/ Simulate(w, e)
  PROVE  Single'
<1>1. threads' = threads
  BY DEF Claim, TakeLease, AuditUpdate, ReleaseLease, ReleaseRun, Deliver, Simulate, Begin
<1>2. ASSUME ~At(w, "idle"),
             \/ \E pc \in Pcs \ Deciding : Goto(w, pc)
             \/ \E result \in Results, pc \in Pcs \ Deciding : Result(w, result, pc)
             \/ \E b \in BOOLEAN : NextCp(w, b)
             \/ \E ok \in BOOLEAN : Settle(w, ok)
      PROVE  Others(w) /\ \A pc \in Deciding : ~At(w, pc)'
  <2>1. CASE \E ok \in BOOLEAN : Settle(w, ok)
    <3>1. work'[w].pc = "idle" /\ \A v \in Workers \ {w} : work'[v] = work[v]
      BY <1>2, <2>1, SettleWorks
    <3> QED
      BY <3>1 DEF Others, At, Deciding
  <2>2. CASE \E b \in BOOLEAN : NextCp(w, b)
    <3>1. Works(w, "claim", work[w].result, work[w].i + 1)
      BY <1>2, <2>2, NextCpWorks
    <3> QED
      BY <3>1 DEF Works, Others, At, Deciding
  <2>3. CASE \E pc \in Pcs \ Deciding : Goto(w, pc)
    BY <1>2, <2>3, GotoWorks DEF Works, Others, At
  <2>4. CASE \E result \in Results, pc \in Pcs \ Deciding : Result(w, result, pc)
    BY <1>2, <2>4, ResultWorks DEF Works, Others, At
  <2> QED
    BY <1>2, <2>1, <2>2, <2>3, <2>4
<1>3. Others(w) /\ \A pc \in Deciding : ~At(w, pc)'
  <2>1. CASE Claim(w)
    <3>1. (~work[w].busy) \in BOOLEAN /\ ~At(w, "idle")
      BY <2>1 DEF Claim, At
    <3>2. (\E ok \in BOOLEAN : Settle(w, ok)) \/ Goto(w, "lease") \/ NextCp(w, FALSE)
      BY <2>1, <3>1 DEF Claim
    <3> QED
      BY <1>2, <3>1, <3>2 DEF Pcs, Owning, Deciding
  <2>2. CASE TakeLease(w)
    <3>1. ~At(w, "idle") /\ Owns(w)
      BY <2>2 DEF TakeLease, At, Owns, Owning
    <3>2. lease[Cp(w)] \in {"free", "live", "expired"}
      BY <3>1, InHand DEF TypeOK
    <3>3. Goto(w, "find") \/ Result(w, "busy", "unclaim") \/ Goto(w, "takeover")
      BY <2>2, <3>2 DEF TakeLease
    <3> QED
      BY <1>2, <3>1, <3>3 DEF Pcs, Owning, InDispatch, Results, Deciding
  <2>3. CASE ReleaseLease(w)
    <3>1. ~At(w, "idle") /\ (Goto(w, "unclaim") \/ NextCp(w, FALSE))
      BY <2>3 DEF ReleaseLease, At
    <3> QED
      BY <1>2, <3>1 DEF Pcs, Owning, Deciding
  <2>4. CASE ReleaseRun(w)
    <3>1. (work[w].event \notin Simulated) \in BOOLEAN /\ ~At(w, "idle")
      BY <2>4 DEF ReleaseRun, At
    <3>2. NextCp(w, work[w].event \notin Simulated) \/ Settle(w, FALSE)
      BY <2>4 DEF ReleaseRun
    <3> QED
      BY <1>2, <3>1, <3>2
  <2>5. ASSUME NEW e \in Events, Deliver(w, e) \/ Simulate(w, e)
        PROVE  Others(w) /\ \A pc \in Deciding : ~At(w, pc)'
    <3>1. work' = [work EXCEPT ![w] =
            [pc |-> "claim", event |-> e, i |-> 1, busy |-> FALSE, result |-> "none",
             thread |-> e]]
      BY <2>5 DEF Deliver, Simulate, Begin
    <3> QED
      BY <3>1 DEF TypeOK, Others, At, Deciding
  <2>6. CASE AuditUpdate(w)
    <3>1. ~At(w, "idle") /\ Result(w, "done", "release")
      BY <2>6 DEF AuditUpdate, At
    <3> QED
      BY <1>2, <3>1 DEF Pcs, Owning, InDispatch, Results, Deciding
  <2> QED
    BY <2>1, <2>2, <2>3, <2>4, <2>5, <2>6
<1> QED
  BY <1>1, <1>3, SingleAside

\* The calls a counterparty has open are one or none.
LEMMA SingleCounts ==
  ASSUME OneOpen
  PROVE  OneOpenCall
<1> SUFFICES ASSUME NEW cp \in Cps
             PROVE  Cardinality(OpenCalls(cp)) <= 1
  BY DEF OneOpenCall
<1>1. CASE OpenCalls(cp) = {}
  BY <1>1, FS_EmptySet
<1>2. ASSUME NEW t \in OpenCalls(cp)
      PROVE  Cardinality(OpenCalls(cp)) <= 1
  <2>1. ASSUME NEW u \in OpenCalls(cp)
        PROVE  u = t
    <3>1. /\ t \in Events /\ cp \in Listed[t] /\ OpenCallStage(threads[<<t, cp>>]) # "none"
          /\ u \in Events /\ cp \in Listed[u] /\ OpenCallStage(threads[<<u, cp>>]) # "none"
      BY DEF OpenCalls, Stage
    <3>2. <<t, cp>> \in Keys /\ <<u, cp>> \in Keys
      BY <3>1, ListsTyped
    <3>3. <<t, cp>> = <<u, cp>>
      BY <3>1, <3>2 DEF OneOpen, Open
    <3> QED
      BY <3>3
  <2>2. OpenCalls(cp) = {t}
    BY <1>2, <2>1
  <2>3. Cardinality(OpenCalls(cp)) = 1
    BY <2>2, FS_Singleton
  <2> QED
    BY <2>3
<1> QED
  BY <1>1, <1>2

\* With no lost instance and nobody signing while a trigger is dispatched, however
\* the triggers overlap, raise and are redelivered, a counterparty has one open call
\* at most, until a lease's DELETE fails or a run is started again on a thread that
\* was decided meanwhile (margin_policy, start_run).
THEOREM NeverASecondCall ==
  ASSUME ~HumansOverlap, MaxCrashes = 0
  PROVE  Spec => []OneCallAtATime
<1> DEFINE Sound == stranded \cap {"lease", "decision"} = {}
           Inv == /\ TypeOK /\ Indexed /\ crashes = 0
                  /\ Sound => Leased /\ Single
           Uncounted == UNCHANGED crashes /\ stranded \subseteq stranded'
<1>1. Init => Inv
  <2> SUFFICES ASSUME Init
               PROVE  Inv
    OBVIOUS
  <2>1. TypeOK /\ Indexed
    BY BoundsAssumption
    DEF Init, TypeOK, Indexed, Owns, Owning, InDispatch, Idle, Thread, NewThread
  <2>2. Leased
    BY DEF Init, Leased, Holds, InDispatch, At, Idle
  <2>3. \A k \in Keys : threads[k] = NewThread /\ ~Open(k)
    BY DEF Init, NewThread, Open, OpenCallStage
  <2>4. \A w \in Workers : Found(w)
    BY DEF Init, Found, At, Idle
  <2>5. Single
    BY <2>3, <2>4 DEF Single, OneOpen, GateOpen, OverDecided, FoundHolds, NewThread
  <2> QED
    BY <2>1, <2>2, <2>5 DEF Init
<1>2. Inv /\ [Next]_vars => Inv'
  <2> SUFFICES ASSUME Inv, [Next]_vars
               PROVE  Inv'
    OBVIOUS
  <2>1. \A w \in Workers : ~Crash(w)
    BY DEF Crash
  <2>2. TypeOK' /\ Indexed'
    BY TypedStep
  <2>3. Uncounted
    <3>1. \A w \in Workers : Worker(w) => Uncounted
      BY DEF Worker, Claim, TakeLease, TakeOver, Dispatch, StartRun, UpdateState, Evaluate,
             AuditUpdate, ReleaseLease, ReleaseRun
    <3>2. \A w \in Workers : \A e \in Events :
            Deliver(w, e) \/ Simulate(w, e) => Uncounted
      BY DEF Deliver, Simulate, Begin
    <3>3. \A cp \in Cps : Expire(cp) => Uncounted
      BY DEF Expire
    <3>4. \A t \in Events : \A cp \in Listed[t] :
            Approve(t, cp) \/ Resolve(t, cp) => Uncounted
      BY DEF Approve, Resolve
    <3>5. \A w \in Workers : Fail(w) => Uncounted
      BY DEF Fail, FailRequest, FailDispatch, FailLate
    <3> QED
      BY <2>1, <3>1, <3>2, <3>3, <3>4, <3>5 DEF Next, vars
  <2>4. ASSUME Sound'
        PROVE  Leased' /\ Single'
    <3>1. Leased /\ Single /\ "lease" \notin stranded' /\ "decision" \notin stranded'
      BY <2>3, <2>4
    <3>2. Leased'
      BY <2>1, <3>1, LeasedStep
    <3>3. CASE UNCHANGED vars
      <4>1. threads' = threads /\ work' = work
        BY <3>3 DEF vars
      <4>2. OneOpen' /\ GateOpen' /\ OverDecided'
        BY <3>1, <4>1 DEF Single, OneOpen, GateOpen, OverDecided, Open
      <4>3. FoundHolds'
        BY <3>1, <4>1 DEF Single, FoundHolds, Found, Open, Call, Cp, At
      <4> QED
        BY <3>2, <4>2, <4>3 DEF Single
    <3>4. ASSUME NEW w \in Workers, Evaluate(w)
          PROVE  Single'
      <4>1. PICK breach \in BOOLEAN :
              threads' = [threads EXCEPT ![Call(w)] = [@ EXCEPT !.breached = breach, !.gate = breach]]
        BY <3>4 DEF Evaluate, Call
      <4>2. /\ At(w, "evaluate")
            /\ \E result \in Results, pc \in {"release", "audit"} : Result(w, result, pc)
        BY <3>4 DEF Evaluate, Results
      <4> QED
        BY <3>1, <4>1, <4>2, SingleEvaluates
    <3>5. ASSUME NEW w \in Workers,
                 Worker(w) \/ Fail(w) \/ \E e \in Events : Deliver(w, e) \/ Simulate(w, e)
          PROVE  Single'
      <4>1. ~TakeOver(w)
        BY <3>1 DEF TakeOver, Leased
      <4> QED
        BY <3>1, <3>4, <3>5, <4>1, SingleRest, SingleFinds, SingleStarts, SingleUpdates, SingleFails
        DEF Worker
    <3>6. ASSUME NEW cp \in Cps, Expire(cp)
          PROVE  FALSE
      <4>1. lease[cp] = "live" /\ Holders(cp) = {}
        BY <3>6 DEF Expire
      <4>2. PICK w \in Workers : Holds(w) /\ Cp(w) = cp
        BY <3>1, <4>1 DEF Leased
      <4> QED
        BY <4>1, <4>2 DEF Holders, Holds
    <3> QED
      BY <2>1, <3>1, <3>2, <3>3, <3>5, <3>6, SingleHumans DEF Next
  <2> QED
    BY <2>2, <2>3, <2>4
<1>3. Inv => OneCallAtATime
  BY SingleCounts DEF Single, OneCallAtATime
<1> QED
  BY <1>1, <1>2, <1>3, PTL DEF Spec
=============================================================================
