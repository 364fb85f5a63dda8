-------------------------------- MODULE Desk --------------------------------
(***************************************************************************)
(* "Ask the margin desk": the rate limiter in front of POST /desk/chat     *)
(* (api/rate_limit.py), the job row a turn becomes (api/main.py), its      *)
(* dispatch (adapters/desk_job_dispatcher.py) and the worker that runs it  *)
(* (run_desk_chat_job in api/desk.py).                                     *)
(*                                                                         *)
(* One API instance; the clock counts ticks, PER_SECOND to the second, and *)
(* is read before the limiter's lock is taken.  Cloud Tasks delivers a     *)
(* task again after a failed answer, or once its deadline is past while    *)
(* the first delivery still runs.                                          *)
(***************************************************************************)
EXTENDS Integers, Sequences, FiniteSets

CONSTANTS
  Turns,           \* chat messages, all of one analyst
  Workers,         \* request threads that can run a job
  RATE_LIMIT,      \* rate_limit_per_minute
  WINDOW,          \* WINDOW_SECONDS, in ticks
  PER_SECOND,
  MaxClock,        \* bound
  MaxFaults        \* bound

ASSUME NumbersAssumption ==
  /\ RATE_LIMIT \in Nat \ {0} /\ WINDOW \in Nat \ {0} /\ PER_SECOND \in Nat \ {0}
  /\ MaxClock \in Nat /\ MaxFaults \in Nat

VARIABLES
  dispatch,   \* DESK_JOB_DISPATCH
  clock,
  hits,       \* the limiter's deque of the analyst
  turn,       \* the request of each message
  job,        \* the rows of desk_chat_jobs
  task,       \* the Cloud Task of each
  worker,     \* what each worker runs
  read,       \* the outcome the analyst was shown
  admitted,   \* history: the hits admitted, with their clock and when
  doubled,    \* history: turns two workers ran at once
  faults

limiter == <<clock, hits, admitted>>
queue == <<task, worker, doubled>>
vars == <<dispatch, limiter, turn, job, queue, read, faults>>

NoJob == [status |-> "none"]
Pending == [status |-> "pending"]
NotRead == [status |-> "unread"]
Idle == [stage |-> "idle"]
At(stage) == [stage |-> stage]

Init ==
  /\ dispatch \in {"sync", "cloudtasks"}
  /\ clock = 0
  /\ hits = <<>>
  /\ turn = [t \in Turns |-> At("new")]
  /\ job = [t \in Turns |-> NoJob]
  /\ task = [t \in Turns |-> "none"]
  /\ worker = [w \in Workers |-> Idle]
  /\ read = [t \in Turns |-> NotRead]
  /\ admitted = <<>>
  /\ doubled = {}
  /\ faults = 0

Tick ==
  /\ clock < MaxClock
  /\ clock' = clock + 1
  /\ UNCHANGED <<dispatch, hits, admitted, turn, job, queue, read, faults>>

Fault == faults < MaxFaults /\ faults' = faults + 1

(***************************************************************************)
(* The limiter.                                                            *)
(***************************************************************************)
\* The clock is read outside the lock.  One turned away comes back when
\* it likes; of one that waited, waited keeps how many had been admitted
\* when it was told to.
ReadClock(t) ==
  /\ turn[t].stage \in {"new", "refused"}
  /\ turn' = [turn EXCEPT ![t] =
       [stage |-> "clocked", now |-> clock,
        waited |-> IF turn[t].stage = "refused" /\ clock >= turn[t].retry_at
                   THEN {turn[t].after} ELSE {}]]
  /\ UNCHANGED <<dispatch, limiter, job, queue, read, faults>>

\* Hits a window old no longer count; the deque is looked at from the left.
Recent(now) ==
  LET young == {i \in DOMAIN hits : now - hits[i] < WINDOW}
  IN IF young = {} THEN <<>> ELSE SubSeq(hits, CHOOSE i \in young : \A j \in young : i <= j, Len(hits))

\* Retry-After in whole seconds, rounded down, plus one.
RetryAt(now, oldest) == clock + PER_SECOND * ((WINDOW - (now - oldest)) \div PER_SECOND + 1)

\* One more than the limit.
Full_Above(recent) == Len(recent) > RATE_LIMIT

Full(recent) == Len(recent) >= RATE_LIMIT

\* The deque after a refusal.
Refused(now, recent) == recent

Check(t) ==
  /\ turn[t].stage = "clocked"
  /\ LET now == turn[t].now
         recent == Recent(now)
     IN IF Full(recent)
        THEN /\ hits' = Refused(now, recent)
             /\ turn' = [turn EXCEPT ![t] =
                  [stage |-> "refused", retry_at |-> RetryAt(now, recent[1]), after |-> Len(admitted)]]
             /\ UNCHANGED admitted
        ELSE /\ hits' = Append(recent, now)
             /\ turn' = [turn EXCEPT ![t] = At("admitted")]
             /\ admitted' = Append(admitted, [clock |-> now, at |-> clock])
  /\ UNCHANGED <<dispatch, clock, job, queue, read, faults>>

(***************************************************************************)
(* POST /desk/chat: the row, then the dispatch, then the row again.        *)
(***************************************************************************)
InsertJob(t) ==
  /\ turn[t].stage = "admitted"
  /\ job' = [job EXCEPT ![t] = Pending]
  /\ turn' = [turn EXCEPT ![t] = At("inserted")]
  /\ UNCHANGED <<dispatch, limiter, queue, read, faults>>

DispatchTask(t) ==
  /\ dispatch = "cloudtasks"
  /\ turn[t].stage = "inserted"
  /\ task' = [task EXCEPT ![t] = "queued"]
  /\ turn' = [turn EXCEPT ![t] = At("dispatched")]
  /\ UNCHANGED <<dispatch, limiter, job, worker, doubled, read, faults>>

\* The request's own thread runs the job.
DispatchSync(t, w) ==
  /\ dispatch = "sync"
  /\ turn[t].stage = "inserted" /\ worker[w] = Idle
  /\ worker' = [worker EXCEPT ![w] = [stage |-> "chat", turn |-> t, late |-> FALSE]]
  /\ turn' = [turn EXCEPT ![t] = At("running")]
  /\ UNCHANGED <<dispatch, limiter, job, task, doubled, read, faults>>

\* The insert or the dispatch fails: the request does, without an id.
FailPost(t) ==
  /\ Fault
  /\ turn[t].stage \in {"admitted", "inserted"}
  /\ turn' = [turn EXCEPT ![t] = At("failed")]
  /\ UNCHANGED <<dispatch, limiter, job, queue, read>>

\* The response of the POST, and each poll until the job is not pending.
DeskJobResponse(t) ==
  /\ turn[t].stage = "dispatched"
  /\ read[t] = NotRead
  /\ job[t] # Pending
  /\ read' = [read EXCEPT ![t] = job[t]]
  /\ UNCHANGED <<dispatch, limiter, turn, job, queue, faults>>

(***************************************************************************)
(* run_desk_chat_job.                                                      *)
(***************************************************************************)
\* Run again whatever the row says.
StillPending_Always(t) == TRUE

\* A job that is done is left alone.
StillPending(t) == job[t] = Pending

Running(t) == {w \in Workers : worker[w] # Idle /\ worker[w].turn = t}

\* The row is read and its session closed before the chat.
Deliver(t, w) ==
  /\ task[t] = "queued" /\ worker[w] = Idle
  /\ IF StillPending(t)
     THEN /\ worker' = [worker EXCEPT ![w] = [stage |-> "chat", turn |-> t, late |-> FALSE]]
          /\ task' = [task EXCEPT ![t] = "delivered"]
          /\ doubled' = IF Running(t) = {} THEN doubled ELSE doubled \cup {t}
     ELSE /\ task' = [task EXCEPT ![t] = "gone"]
          /\ UNCHANGED <<worker, doubled>>
  /\ UNCHANGED <<dispatch, limiter, turn, job, read, faults>>

\* Cloud Tasks gives up waiting for the deliveries of a task, or their
\* answer is lost: it delivers again, and what they answer is ignored.
DeliverAgain(t) ==
  /\ Fault
  /\ task[t] \in {"delivered", "gone"}
  /\ task' = [task EXCEPT ![t] = "queued"]
  /\ worker' = [w \in Workers |-> IF w \in Running(t) THEN [worker[w] EXCEPT !.late = TRUE] ELSE worker[w]]
  /\ UNCHANGED <<dispatch, limiter, turn, job, doubled, read>>

\* The chat's outcome: an answer of its own, or any of its failures.
Outcomes(t, w) == {[status |-> "done", by |-> w], [status |-> "error", by |-> w]}

ToWrite(w, result) ==
  [worker EXCEPT ![w] = [stage |-> "write", turn |-> @.turn, late |-> @.late, result |-> result]]

\* Cloud Tasks retries what answers with an error; nobody retries a POST.
AfterFailure(t, w) ==
  /\ worker' = [worker EXCEPT ![w] = Idle]
  /\ task' = [task EXCEPT ![t] = IF @ = "delivered" /\ ~worker[w].late THEN "queued" ELSE @]
  /\ turn' = [turn EXCEPT ![t] = IF @.stage = "running" THEN At("failed") ELSE @]

\* Only HTTPException becomes job state.
Chat_OnlyHttp(w) ==
  /\ worker[w].stage = "chat"
  /\ \/ /\ worker' = ToWrite(w, [status |-> "done", by |-> w])
        /\ UNCHANGED <<task, turn>>
     \/ AfterFailure(worker[w].turn, w)
  /\ UNCHANGED <<dispatch, limiter, job, doubled, read, faults>>

\* The call of Agent Runtime; any failure of it is a result.
Chat(w) ==
  /\ worker[w].stage = "chat"
  /\ \E result \in Outcomes(worker[w].turn, w) : worker' = ToWrite(w, result)
  /\ UNCHANGED <<dispatch, limiter, turn, job, task, doubled, read, faults>>

\* The row is written whatever it says by now.
WriteResult(w) ==
  /\ worker[w].stage = "write"
  /\ LET t == worker[w].turn
     IN /\ job' = [job EXCEPT ![t] = worker[w].result]
        /\ task' = [task EXCEPT ![t] = IF @ = "delivered" /\ ~worker[w].late THEN "gone" ELSE @]
        /\ turn' = [turn EXCEPT ![t] = IF @.stage = "running" THEN At("dispatched") ELSE @]
  /\ worker' = [worker EXCEPT ![w] = Idle]
  /\ UNCHANGED <<dispatch, limiter, doubled, read, faults>>

\* The instance is lost during the chat, or the write fails.
FailRun(w) ==
  /\ Fault
  /\ worker[w] # Idle
  /\ AfterFailure(worker[w].turn, w)
  /\ UNCHANGED <<dispatch, limiter, job, doubled, read>>

Next ==
  \/ Tick
  \/ \E t \in Turns :
       \/ ReadClock(t) \/ Check(t) \/ InsertJob(t) \/ DispatchTask(t) \/ FailPost(t)
       \/ DeskJobResponse(t) \/ DeliverAgain(t)
       \/ \E w \in Workers : DispatchSync(t, w) \/ Deliver(t, w)
  \/ \E w \in Workers : Chat(w) \/ WriteResult(w) \/ FailRun(w)

\* Cloud Tasks delivers what is queued, a running worker goes on, and the
\* frontend keeps polling.
Fairness ==
  /\ \A t \in Turns : WF_vars(\E w \in Workers : Deliver(t, w)) /\ WF_vars(DeskJobResponse(t))
  /\ \A w \in Workers : WF_vars(Chat(w)) /\ WF_vars(WriteResult(w))

Spec == Init /\ [][Next]_vars /\ Fairness

(***************************************************************************)
(* Properties.                                                             *)
(***************************************************************************)
TypeOK ==
  /\ clock \in 0..MaxClock /\ faults \in 0..MaxFaults
  /\ hits \in Seq(0..MaxClock) /\ Len(hits) <= RATE_LIMIT
  /\ \A t \in Turns : job[t].status \in {"none", "pending", "done", "error"}
  /\ \A t \in Turns : task[t] \in {"none", "queued", "delivered", "gone"}
  /\ \A w \in Workers : worker[w].stage \in {"idle", "chat", "write"}

\* No more than the limit in a window, however the requests overlap: the
\* request admitted RATE_LIMIT places after another is admitted at least a
\* window after that one came.
WindowHolds ==
  \A i \in DOMAIN admitted :
    i + RATE_LIMIT \in DOMAIN admitted => admitted[i + RATE_LIMIT].at - admitted[i].clock >= WINDOW

\* Whoever comes back after the Retry-After it was told is not turned away
\* again, unless another was admitted since.
RetryAfterSuffices ==
  [][\A t \in Turns :
       turn[t].stage = "clocked" /\ turn'[t].stage = "refused" =>
         Len(admitted) \notin turn[t].waited]_vars

\* What the analyst has read stays the job's outcome, unless two deliveries
\* of the job ran at once: a delivery that comes later changes nothing.
ReadIsKept == \A t \in Turns \ doubled : read[t] # NotRead => job[t] = read[t]

\* A queued turn is read as done or failed in the end.
EveryTurnIsRead == \A t \in Turns : task[t] = "queued" ~> read[t] # NotRead

\* The limiter keeps both its words: no more than the limit, and a wait that
\* is long enough.
LimiterHolds == [](TypeOK /\ WindowHolds) /\ RetryAfterSuffices
=============================================================================
