------------------------ MODULE PositionTickSchedule ------------------------
(***************************************************************************)
(* The durable schedule of the tick drain: one unique WorkManager job, and *)
(* a reservation in the preferences that says when it is to run.  Passes   *)
(* run on the executor thread and in WorkManager workers, one at a time    *)
(* (PositionTickDrainMutex); broadcast receivers ask for a job without     *)
(* that mutex.  The reservation is written under PositionTickScheduleLock, *)
(* the job is enqueued after the lock has been released, and the outcome   *)
(* of the enqueue arrives later on another thread.                         *)
(*                                                                         *)
(* All times are relative to now, and Tick makes time pass: what is left   *)
(* of every wait shrinks.  The queue is one bit, the drain itself is in    *)
(* PositionTickQueue.  Enqueue tokens come from a finite pool: one that    *)
(* nobody holds any more stands for the next number of the code's counter. *)
(***************************************************************************)
EXTENDS Integers, FiniteSets, Sequences

CONSTANTS
    Executor,      \* the executor thread of PositionTickUploadRunner
    Workers,       \* threads that run PositionTickDrainWorker
    Receivers,     \* broadcast receivers
    Tokens,        \* tokens of enqueue attempts
    NoToken,       \* 0: nobody owns the reservation
    RetryToken,    \* owner of a reservation written for a WorkManager retry
    Nobody,
    Spacing,       \* POSITION_TICK_DRAIN_MIN_SPACING_MS and the after-enqueue batching
    Backoff,       \* transient backoff, executor fallback, worker retry delay
    Diagnostic,    \* POSITION_TICK_DURABLE_FAILURE_RETRY_MS
    LostAfter,     \* POSITION_TICK_SCHEDULE_LOST_AFTER_MS
    MaxArrivals,   \* bounds on the disturbances of a behaviour: ticks captured,
    MaxBroadcasts, \*   broadcasts received,
    MaxRefusals,   \*   WorkManager operations that fail,
    MaxThrows,     \*   passes that end in an unexpected exception,
    MaxDeaths      \*   process deaths

Threads == {Executor} \cup Workers \cup Receivers

ASSUME ScheduleAssumption ==
    /\ Executor \notin Workers \cup Receivers /\ Workers \cap Receivers = {}
    /\ NoToken \notin Tokens /\ RetryToken \notin Tokens /\ NoToken # RetryToken
    /\ Nobody \notin Threads
    /\ {Spacing, Backoff, Diagnostic, LostAfter} \subseteq Nat
    /\ Spacing <= Backoff /\ Backoff <= Diagnostic /\ Diagnostic <= LostAfter
    /\ {MaxArrivals, MaxBroadcasts, MaxRefusals, MaxThrows, MaxDeaths} \subseteq Nat

VARIABLES
    rows,         \* the queue is not empty
    failure,      \* class of the last pass: "none", "transient" or "durable"
    since,        \* time since the last attempt, as far as it matters
    reservation,  \* the slot in the preferences
    job,          \* the unique job in WorkManager's database
    alive,        \* the process runs
    triggered,    \* a pass is queued on the executor
    mutex,        \* holder of PositionTickDrainMutex
    pc,           \* where each thread is
    delay,        \* what each thread asks for, relative to when it asked
    token,        \* the attempt a thread is making
    operations,   \* WorkManager operations not executed yet
    results,      \* outcomes of operations not reported yet
    granted,      \* attempts that WorkManager carried out
    spent         \* disturbances used up so far

stored == <<rows, failure, since, reservation>>
manager == <<job, operations, results, granted>>
threads == <<alive, triggered, mutex, pc, delay, token>>
vars == <<stored, manager, threads, spent>>

-----------------------------------------------------------------------------
Free == [at |-> 0, token |-> NoToken, confirmed |-> FALSE]
NoJob == [state |-> "none", at |-> 0, worker |-> Nobody]
Waiting(at) == [state |-> "waiting", at |-> at, worker |-> Nobody]

Larger(m, n) == IF m > n THEN m ELSE n
Smaller(m, n) == IF m < n THEN m ELSE n

Quiet == [arrivals |-> 0, broadcasts |-> 0, refusals |-> 0, throws |-> 0, deaths |-> 0]

Init ==
    /\ rows = FALSE /\ failure = "none" /\ since = Diagnostic
    /\ reservation = Free
    /\ job = NoJob /\ operations = <<>> /\ results = {} /\ granted = {}
    /\ alive = TRUE /\ triggered = TRUE /\ mutex = Nobody
    /\ pc = [t \in Threads |-> "idle"]
    /\ delay = [t \in Threads |-> 0]
    /\ token = [t \in Threads |-> NoToken]
    /\ spent = Quiet

(***************************************************************************)
(* Time passes.  An overdue job stays due; a slot that is overdue for      *)
(* longer than LostAfter stays lost.                                       *)
(***************************************************************************)
Tick ==
    /\ since' = Smaller(since + 1, Diagnostic)
    /\ reservation' = IF reservation.token = NoToken THEN reservation
                      ELSE [reservation EXCEPT !.at = Larger(@ - 1, -LostAfter - 1)]
    /\ job' = [job EXCEPT !.at = Larger(@ - 1, 0)]
    /\ UNCHANGED <<rows, failure, operations, results, granted, threads, spent>>

(***************************************************************************)
(* A capture cycle queues ticks and triggers a pass; other parts of the    *)
(* program (reconnection, service start) trigger one without new ticks.    *)
(***************************************************************************)
Trigger ==
    /\ alive /\ spent.arrivals < MaxArrivals
    /\ spent' = [spent EXCEPT !.arrivals = @ + 1]
    /\ rows' \in {rows, TRUE}
    /\ triggered' = TRUE
    /\ UNCHANGED <<failure, since, reservation, manager, alive, mutex, pc, delay, token>>

-----------------------------------------------------------------------------
(***************************************************************************)
(* requestDurablePositionTickDrain, first part, under the schedule lock.   *)
(* A confirmed slot that is early enough and not lost is kept; otherwise   *)
(* the slot is taken by a new, still unconfirmed attempt.                  *)
(***************************************************************************)
Reserved == reservation.token # NoToken
Confirmed == Reserved /\ reservation.confirmed
Lost == Reserved /\ reservation.at < -LostAfter

Keeps(t) == Confirmed /\ reservation.at <= delay[t] /\ ~Lost

\* Mutation: the minimum with a pending slot is not clamped to now.
EffectiveUnclamped(t) ==
    IF Reserved /\ ~Confirmed THEN Smaller(reservation.at, delay[t]) ELSE delay[t]

Effective(t) ==
    CASE Lost -> 0
      [] Reserved /\ ~Confirmed /\ ~Lost -> Larger(0, Smaller(reservation.at, delay[t]))
      [] OTHER -> delay[t]

Held ==
    {reservation.token} \cup {token[t] : t \in Threads}
        \cup {operations[i].token : i \in DOMAIN operations} \cup {r.token : r \in results}

Finish(t) ==
    /\ mutex' = IF mutex = t THEN Nobody ELSE mutex
    /\ pc' = [pc EXCEPT ![t] = IF t \in Workers THEN "success" ELSE "idle"]

KeepSlot(t) ==
    /\ pc[t] = "request" /\ Keeps(t)
    /\ Finish(t)
    /\ delay' = [delay EXCEPT ![t] = 0]
    /\ UNCHANGED <<stored, manager, alive, triggered, token, spent>>

Reserve(t) ==
    /\ pc[t] = "request" /\ ~Keeps(t) /\ Tokens \ Held # {}
    /\ LET fresh == CHOOSE k \in Tokens \ Held : TRUE
       IN  /\ reservation' = [at |-> Effective(t), token |-> fresh, confirmed |-> FALSE]
           /\ token' = [token EXCEPT ![t] = fresh]
           /\ granted' = granted \ {fresh}
    /\ delay' = [delay EXCEPT ![t] = Effective(t)]
    /\ pc' = [pc EXCEPT ![t] = "enqueue"]
    /\ UNCHANGED <<rows, failure, since, job, operations, results, alive, triggered, mutex,
                   spent>>

\* Mutation: the outcome settles whatever slot is stored.
SettleAnyone(attempt, ok) ==
    reservation' = IF ~Reserved THEN reservation
                   ELSE IF ok THEN [reservation EXCEPT !.confirmed = TRUE] ELSE Free

(***************************************************************************)
(* settlePositionTickReservation: only the attempt that owns the slot may  *)
(* confirm or clear it.                                                    *)
(***************************************************************************)
Settle(attempt, ok) ==
    reservation' = IF reservation.token # attempt THEN reservation
                   ELSE IF ok THEN [reservation EXCEPT !.confirmed = TRUE] ELSE Free

(***************************************************************************)
(* Second part, without the lock: WorkManager is asked to replace the job. *)
(* A receiver keeps its broadcast open until the outcome is known.         *)
(***************************************************************************)
EnqueueJob(t) ==
    /\ pc[t] = "enqueue"
    /\ operations' = Append(operations, [kind |-> "enqueue", token |-> token[t],
                                         delay |-> delay[t], worker |-> Nobody])
    /\ IF t \in Receivers
       THEN pc' = [pc EXCEPT ![t] = "report"] /\ UNCHANGED <<mutex, token>>
       ELSE Finish(t) /\ token' = [token EXCEPT ![t] = NoToken]
    /\ delay' = [delay EXCEPT ![t] = 0]
    /\ UNCHANGED <<stored, job, results, granted, alive, triggered, spent>>

EnqueueThrows(t) ==
    /\ pc[t] = "enqueue" /\ spent.refusals < MaxRefusals
    /\ spent' = [spent EXCEPT !.refusals = @ + 1]
    /\ Settle(token[t], FALSE)
    /\ Finish(t)
    /\ delay' = [delay EXCEPT ![t] = 0] /\ token' = [token EXCEPT ![t] = NoToken]
    /\ UNCHANGED <<rows, failure, since, manager, alive, triggered>>

(***************************************************************************)
(* The callback of an enqueue operation.                                   *)
(***************************************************************************)
Report(result) ==
    /\ results' = results \ {result}
    /\ Settle(result.token, result.ok)
    /\ LET waiting == {r \in Receivers : pc[r] = "report" /\ token[r] = result.token}
       IN  /\ pc' = [t \in Threads |-> IF t \in waiting THEN "idle" ELSE pc[t]]
           /\ token' = [t \in Threads |-> IF t \in waiting THEN NoToken ELSE token[t]]
    /\ UNCHANGED <<rows, failure, since, job, operations, granted, alive, triggered, mutex,
                   delay, spent>>

\* Mutation: the job is cancelled and the slot stays.
CancelJobOnly(t) ==
    /\ pc[t] = "cancel"
    /\ operations' = Append(operations, [kind |-> "cancel", token |-> NoToken,
                                         delay |-> 0, worker |-> Nobody])
    /\ Finish(t)
    /\ UNCHANGED <<stored, job, results, granted, alive, triggered, delay, token, spent>>

(***************************************************************************)
(* cancelDurablePositionTickDrain: slot and job, under the schedule lock.  *)
(***************************************************************************)
CancelJob(t) ==
    /\ pc[t] = "cancel"
    /\ reservation' = Free
    /\ \/ /\ operations' = Append(operations, [kind |-> "cancel", token |-> NoToken,
                                               delay |-> 0, worker |-> Nobody])
          /\ UNCHANGED spent
       \/ /\ spent.refusals < MaxRefusals
          /\ spent' = [spent EXCEPT !.refusals = @ + 1]
          /\ UNCHANGED operations
    /\ Finish(t)
    /\ UNCHANGED <<rows, failure, since, job, results, granted, alive, triggered, delay, token>>

-----------------------------------------------------------------------------
(***************************************************************************)
(* The passes.  A worker first releases the slot it is running for.        *)
(***************************************************************************)
StartExecutorPass ==
    /\ alive /\ triggered /\ pc[Executor] = "idle"
    /\ triggered' = FALSE
    /\ pc' = [pc EXCEPT ![Executor] = "begin"]
    /\ UNCHANGED <<stored, manager, alive, mutex, delay, token, spent>>

\* Mutation: a worker does not release the slot it is running for.
SlotHeld(t) == reservation

DueSlotReleased(t) ==
    IF t \in Workers /\ Reserved /\ reservation.at <= 0 THEN Free ELSE reservation

BeginPass(t) ==
    /\ pc[t] = "begin" /\ mutex = Nobody
    /\ mutex' = t
    /\ reservation' = DueSlotReleased(t)
    /\ pc' = [pc EXCEPT ![t] = IF rows THEN "decide" ELSE "cancel"]
    /\ UNCHANGED <<rows, failure, since, manager, alive, triggered, delay, token, spent>>

(***************************************************************************)
(* How long after the last attempt a trigger has to wait.                  *)
(***************************************************************************)
Waits(t) ==
    CASE failure = "none" -> IF t \in Workers THEN {0} ELSE {0, Spacing}
      [] failure = "transient" -> IF t \in Workers THEN {Backoff} ELSE {Spacing, Backoff}
      [] failure = "durable" -> IF t \in Workers THEN {Diagnostic} ELSE {Backoff, Diagnostic}

Request(t, wait) ==
    /\ delay' = [delay EXCEPT ![t] = wait]
    /\ pc' = [pc EXCEPT ![t] = "request"]

NoNetwork(t) ==
    /\ pc[t] = "decide"
    /\ Request(t, 0)
    /\ UNCHANGED <<stored, manager, alive, triggered, mutex, token, spent>>

Defer(t) ==
    /\ pc[t] = "decide"
    /\ \E wait \in Waits(t) : since < wait /\ Request(t, wait - since)
    /\ UNCHANGED <<stored, manager, alive, triggered, mutex, token, spent>>

Attempt(t) ==
    /\ pc[t] = "decide"
    /\ \E wait \in Waits(t) : since >= wait
    /\ since' = 0
    /\ pc' = [pc EXCEPT ![t] = "drain"]
    /\ UNCHANGED <<rows, failure, reservation, manager, alive, triggered, mutex, delay, token,
                   spent>>

(***************************************************************************)
(* What a drain leads to: an empty queue, a budget or late rows to go on   *)
(* with, a transient failure, a failure that needs a diagnosis.            *)
(***************************************************************************)
DrainedAll(t) ==
    /\ pc[t] = "drain"
    /\ rows' = FALSE /\ failure' = "none"
    /\ pc' = [pc EXCEPT ![t] = "cancel"]
    /\ UNCHANGED <<since, reservation, manager, alive, triggered, mutex, delay, token, spent>>

DrainedSome(t) ==
    /\ pc[t] = "drain"
    /\ failure' = "none"
    /\ Request(t, 0)
    /\ UNCHANGED <<rows, since, reservation, manager, alive, triggered, mutex, token, spent>>

DrainFailed(t) ==
    /\ pc[t] = "drain"
    /\ \/ failure' = "transient" /\ Request(t, Backoff)
       \/ failure' = "durable" /\ Request(t, Diagnostic)
    /\ UNCHANGED <<rows, since, reservation, manager, alive, triggered, mutex, token, spent>>

(***************************************************************************)
(* An unexpected exception leaves the pass and the mutex.  The executor    *)
(* asks for a fallback job; a worker records the retry it will return.     *)
(***************************************************************************)
PassThrows(t) ==
    /\ pc[t] \in {"decide", "drain"} /\ spent.throws < MaxThrows
    /\ spent' = [spent EXCEPT !.throws = @ + 1]
    /\ mutex' = Nobody
    /\ IF t \in Workers
       THEN pc' = [pc EXCEPT ![t] = "thrown"] /\ UNCHANGED delay
       ELSE Request(t, Backoff)
    /\ UNCHANGED <<stored, manager, alive, triggered, token>>

RecordRetry(t) ==
    /\ pc[t] = "thrown"
    /\ reservation' = IF Confirmed /\ reservation.at <= Backoff THEN reservation
                      ELSE [at |-> Backoff, token |-> RetryToken, confirmed |-> TRUE]
    /\ pc' = [pc EXCEPT ![t] = "retry"]
    /\ UNCHANGED <<rows, failure, since, manager, alive, triggered, mutex, delay, token, spent>>

WorkerReturns(t) ==
    /\ t \in Workers /\ pc[t] \in {"success", "retry"}
    /\ operations' = Append(operations, [kind |-> pc[t], token |-> NoToken,
                                         delay |-> Backoff, worker |-> t])
    /\ pc' = [pc EXCEPT ![t] = "returned"]
    /\ UNCHANGED <<stored, job, results, granted, alive, triggered, mutex, delay, token, spent>>

-----------------------------------------------------------------------------
(***************************************************************************)
(* Receivers: boot, package replaced, time changed.                        *)
(***************************************************************************)
Broadcast(r) ==
    /\ alive /\ pc[r] = "idle" /\ spent.broadcasts < MaxBroadcasts
    /\ spent' = [spent EXCEPT !.broadcasts = @ + 1]
    /\ Request(r, 0)
    /\ UNCHANGED <<stored, manager, alive, triggered, mutex, token>>

-----------------------------------------------------------------------------
(***************************************************************************)
(* WorkManager (external).  It executes its operations in the order of the *)
(* calls.  Replacing or cancelling a running job leaves the thread running *)
(* and ignores what the thread returns.                                    *)
(***************************************************************************)
JobAfter(operation) ==
    LET answers == job.worker = operation.worker   \* the worker still runs this job
    IN CASE operation.kind = "enqueue" -> Waiting(operation.delay)
         [] operation.kind = "cancel" -> NoJob
         [] operation.kind = "success" -> IF answers THEN NoJob ELSE job
         [] operation.kind = "retry" -> IF answers THEN Waiting(operation.delay) ELSE job

ExecuteOperation ==
    /\ operations # <<>>
    /\ LET operation == Head(operations)
           enqueues == operation.kind = "enqueue"
       IN  /\ job' = JobAfter(operation)
           /\ results' = IF enqueues THEN results \cup {[token |-> operation.token, ok |-> TRUE]}
                         ELSE results
           /\ granted' = IF enqueues THEN granted \cup {operation.token} ELSE granted
           /\ pc' = [t \in Threads |-> IF t = operation.worker THEN "idle" ELSE pc[t]]
    /\ operations' = Tail(operations)
    /\ UNCHANGED <<stored, alive, triggered, mutex, delay, token, spent>>

EnqueueFails ==
    /\ operations # <<>> /\ spent.refusals < MaxRefusals
    /\ Head(operations).kind = "enqueue"
    /\ spent' = [spent EXCEPT !.refusals = @ + 1]
    /\ results' = results \cup {[token |-> Head(operations).token, ok |-> FALSE]}
    /\ operations' = Tail(operations)
    /\ UNCHANGED <<stored, job, granted, threads>>

StartWorker(w) ==
    /\ alive /\ job.state = "waiting" /\ job.at = 0 /\ pc[w] = "idle"
    /\ job' = [state |-> "running", at |-> 0, worker |-> w]
    /\ pc' = [pc EXCEPT ![w] = "begin"]
    /\ UNCHANGED <<stored, operations, results, granted, alive, triggered, mutex, delay, token,
                   spent>>

(***************************************************************************)
(* The process dies with its threads, and with the operations and outcomes *)
(* under way; the job and the slot survive.  MarketRadarApp.onCreate       *)
(* triggers a pass in the next process.                                    *)
(***************************************************************************)
ProcessDeath ==
    /\ alive /\ spent.deaths < MaxDeaths
    /\ spent' = [spent EXCEPT !.deaths = @ + 1]
    /\ alive' = FALSE /\ triggered' = FALSE /\ mutex' = Nobody
    /\ pc' = [t \in Threads |-> "idle"]
    /\ delay' = [t \in Threads |-> 0]
    /\ token' = [t \in Threads |-> NoToken]
    /\ job' = IF job.state = "running" THEN Waiting(0) ELSE job
    /\ operations' = <<>> /\ results' = {}
    /\ UNCHANGED <<stored, granted>>

ProcessStart ==
    /\ ~alive
    /\ alive' = TRUE /\ triggered' = TRUE
    /\ UNCHANGED <<stored, manager, mutex, pc, delay, token, spent>>

-----------------------------------------------------------------------------
RequestStep(t) == KeepSlot(t) \/ Reserve(t) \/ EnqueueJob(t) \/ EnqueueThrows(t)

PassStep(t) ==
    \/ BeginPass(t) \/ NoNetwork(t) \/ Defer(t) \/ Attempt(t)
    \/ DrainedAll(t) \/ DrainedSome(t) \/ DrainFailed(t) \/ CancelJob(t)
    \/ PassThrows(t) \/ RecordRetry(t) \/ WorkerReturns(t)

ThreadStep(t) == RequestStep(t) \/ PassStep(t)

Next ==
    \/ Tick \/ Trigger
    \/ StartExecutorPass
    \/ \E t \in Threads : ThreadStep(t)
    \/ \E r \in Receivers : Broadcast(r)
    \/ \E result \in results : Report(result)
    \/ ExecuteOperation \/ EnqueueFails
    \/ \E w \in Workers : StartWorker(w)
    \/ ProcessDeath \/ ProcessStart

Spec == Init /\ [][Next]_vars

(***************************************************************************)
(* Threads run, time passes, WorkManager works through its operations and  *)
(* starts a due job, callbacks are called, and the app is opened again.    *)
(* The network is not away at every single decision of a thread.           *)
(***************************************************************************)
Fairness ==
    /\ WF_vars(Tick) /\ WF_vars(StartExecutorPass) /\ WF_vars(ExecuteOperation)
    /\ WF_vars(ProcessStart)
    /\ \A k \in Tokens : WF_vars(\E result \in results : result.token = k /\ Report(result))
    /\ WF_vars(\E w \in Workers : StartWorker(w))
    /\ \A t \in Threads : WF_vars(ThreadStep(t)) /\ SF_vars(Attempt(t) \/ Defer(t))

FairSpec == Spec /\ Fairness

-----------------------------------------------------------------------------
Operation == [kind : {"enqueue", "cancel", "success", "retry"}, token : Tokens \cup {NoToken},
              delay : Nat, worker : Workers \cup {Nobody}]

TypeOK ==
    /\ rows \in BOOLEAN /\ failure \in {"none", "transient", "durable"} /\ since \in Nat
    /\ reservation \in [at : Int, token : Tokens \cup {NoToken, RetryToken}, confirmed : BOOLEAN]
    /\ job \in [state : {"none", "waiting", "running"}, at : Nat,
                worker : Workers \cup {Nobody}]
    /\ operations \in Seq(Operation)
    /\ results \subseteq [token : Tokens, ok : BOOLEAN]
    /\ granted \subseteq Tokens
    /\ alive \in BOOLEAN /\ triggered \in BOOLEAN /\ mutex \in Threads \cup {Nobody}
    /\ pc \in [Threads -> {"idle", "begin", "decide", "drain", "request", "enqueue", "report",
                           "cancel", "success", "thrown", "retry", "returned"}]
    /\ delay \in [Threads -> Nat]
    /\ token \in [Threads -> Tokens \cup {NoToken}]
    /\ spent \in [arrivals : Nat, broadcasts : Nat, refusals : Nat, throws : Nat, deaths : Nat]

(***************************************************************************)
(* A slot is trusted only if WorkManager carried out the attempt that owns *)
(* it: a late outcome of a superseded attempt confirms nothing.  A pending *)
(* slot has an attempt under way; only a death leaves an orphan behind.    *)
(***************************************************************************)
UnderWay(slot) ==
    \/ \E t \in Threads : pc[t] = "enqueue" /\ token[t] = slot
    \/ \E i \in DOMAIN operations : operations[i].token = slot
    \/ \E r \in results : r.token = slot

SlotHasOwner ==
    /\ Confirmed => reservation.token \in granted \cup {RetryToken}
    /\ Reserved /\ ~Confirmed /\ spent.deaths = 0 => UnderWay(reservation.token)

(***************************************************************************)
(* A trusted slot has a job behind it once WorkManager has caught up, and  *)
(* rows are never left behind: when nothing is running and no pass is      *)
(* queued, a job waits for them, unless WorkManager has refused to work.   *)
(***************************************************************************)
Quiescent ==
    /\ alive /\ ~triggered /\ operations = <<>> /\ results = {}
    /\ \A t \in Threads : pc[t] = "idle"

RowsHaveJob ==
    /\ Confirmed /\ operations = <<>> => job.state # "none"
    /\ Quiescent /\ rows /\ spent.refusals = 0 => job.state = "waiting"

(***************************************************************************)
(* Pending rows are attempted again and again until they are gone.         *)
(***************************************************************************)
RowsAttempted == rows ~> (~rows \/ \E t \in Threads : pc[t] = "drain")
=============================================================================
