--------------------- MODULE PositionTickScheduleProofs ---------------------
(***************************************************************************)
(* Theorems about the drain schedule, for any threads, tokens and delays,  *)
(* and any number of refusals, exceptions and process deaths.              *)
(***************************************************************************)
EXTENDS PositionTickSchedule, TLAPS

\* More time for a leaf than by default, for slow or busy machines.
USE SMTT(30), ZenonT(30)

LEMMA ConstantsAre ==
    /\ Executor \in Threads /\ Workers \subseteq Threads /\ Receivers \subseteq Threads
    /\ \A t \in Threads : t \notin Workers => t = Executor \/ t \in Receivers
    /\ Workers \cap Receivers = {} /\ Executor \notin Workers
    /\ Nobody \notin Threads /\ Nobody \notin Workers
    /\ NoToken \notin Tokens /\ RetryToken \notin Tokens /\ NoToken # RetryToken
    /\ Spacing \in Nat /\ Backoff \in Nat /\ Diagnostic \in Nat /\ LostAfter \in Nat
    /\ MaxArrivals \in Nat /\ MaxBroadcasts \in Nat /\ MaxRefusals \in Nat
    /\ MaxThrows \in Nat /\ MaxDeaths \in Nat
  BY ScheduleAssumption DEF ScheduleAssumption, Threads

LEMMA AppendIs ==
    ASSUME NEW S, NEW s \in Seq(S), NEW x \in S
    PROVE  /\ Append(s, x) \in Seq(S)
           /\ DOMAIN s = 1 .. Len(s) /\ DOMAIN Append(s, x) = 1 .. Len(s) + 1
           /\ \A i \in 1 .. Len(s) : Append(s, x)[i] = s[i]
           /\ Append(s, x)[Len(s) + 1] = x
           /\ Len(s) \in Nat
  OBVIOUS

LEMMA TailIs ==
    ASSUME NEW S, NEW s \in Seq(S), s # <<>>
    PROVE  /\ Tail(s) \in Seq(S) /\ Head(s) = s[1] /\ Head(s) \in S
           /\ DOMAIN s = 1 .. Len(s) /\ DOMAIN Tail(s) = 1 .. Len(s) - 1
           /\ \A i \in 1 .. Len(s) - 1 : Tail(s)[i] = s[i + 1]
           /\ Len(s) \in Nat \ {0} /\ 1 \in DOMAIN s
  OBVIOUS

-----------------------------------------------------------------------------
(***************************************************************************)
(* Type correctness.  TypeOK is not inductive: an outcome names an attempt *)
(* because an operation that enqueues was made by a thread with a token,   *)
(* while cancelling and the returns of workers carry none (Attempting).    *)
(***************************************************************************)
Attempting ==
    /\ \A t \in Threads : pc[t] = "enqueue" => token[t] \in Tokens
    /\ \A i \in DOMAIN operations :
         IF operations[i].kind = "enqueue" THEN operations[i].token \in Tokens
         ELSE operations[i].token = NoToken

\* TypeOK by parts.
StoredType ==
    /\ rows \in BOOLEAN /\ failure \in {"none", "transient", "durable"} /\ since \in Nat
    /\ reservation \in [at : Int, token : Tokens \cup {NoToken, RetryToken}, confirmed : BOOLEAN]

ManagerType ==
    /\ job \in [state : {"none", "waiting", "running"}, at : Nat,
                worker : Workers \cup {Nobody}]
    /\ operations \in Seq(Operation)
    /\ results \subseteq [token : Tokens, ok : BOOLEAN]
    /\ granted \subseteq Tokens

ThreadsType ==
    /\ alive \in BOOLEAN /\ triggered \in BOOLEAN /\ mutex \in Threads \cup {Nobody}
    /\ pc \in [Threads -> {"idle", "begin", "decide", "drain", "request", "enqueue", "report",
                           "cancel", "success", "thrown", "retry", "returned"}]
    /\ delay \in [Threads -> Nat]
    /\ token \in [Threads -> Tokens \cup {NoToken}]

SpentType ==
    spent \in [arrivals : Nat, broadcasts : Nat, refusals : Nat, throws : Nat, deaths : Nat]

Typed == StoredType /\ ManagerType /\ ThreadsType /\ SpentType /\ Attempting

LEMMA TypedIs == Typed <=> TypeOK /\ Attempting
  BY DEF Typed, TypeOK, StoredType, ManagerType, ThreadsType, SpentType

LEMMA FreeType ==
    Free \in [at : Int, token : Tokens \cup {NoToken, RetryToken}, confirmed : BOOLEAN]
<1>1. FALSE \in BOOLEAN
  OBVIOUS
<1>2. \A b \in BOOLEAN : [at |-> 0, token |-> NoToken, confirmed |-> b]
         \in [at : Int, token : Tokens \cup {NoToken, RetryToken}, confirmed : BOOLEAN]
  OBVIOUS
<1>3. QED
  BY <1>1, <1>2, Zenon DEF Free

LEMMA ResultType ==
    ASSUME NEW k \in Tokens
    PROVE  /\ [token |-> k, ok |-> TRUE] \in [token : Tokens, ok : BOOLEAN]
           /\ [token |-> k, ok |-> FALSE] \in [token : Tokens, ok : BOOLEAN]
<1>1. \A b \in BOOLEAN : [token |-> k, ok |-> b] \in [token : Tokens, ok : BOOLEAN]
  OBVIOUS
<1>2. TRUE \in BOOLEAN /\ FALSE \in BOOLEAN
  OBVIOUS
<1>3. QED
  BY <1>1, <1>2, Zenon

LEMMA TypedInit ==
    ASSUME Init
    PROVE  Typed
<1>1. StoredType
  BY ConstantsAre, FreeType DEF Init, StoredType
<1>2. ManagerType
  BY DEF Init, NoJob, ManagerType
<1>3. ThreadsType
  BY DEF Init, ThreadsType
<1>4. SpentType
  BY DEF Init, Quiet, SpentType
<1>5. Attempting
  BY DEF Init, Attempting
<1>6. QED
  BY <1>1, <1>2, <1>3, <1>4, <1>5 DEF Typed

(***************************************************************************)
(* Time left and time past stay natural numbers: a delay is at least now   *)
(* even when the slot it is combined with lies in the past, and a wait is  *)
(* asked for only while it is longer than the time since the last attempt. *)
(***************************************************************************)
LEMMA EffectiveType ==
    ASSUME Typed, NEW t \in Threads
    PROVE  Effective(t) \in Nat
  BY DEF Typed, StoredType, ThreadsType, Effective, Larger, Smaller

LEMMA WaitsType ==
    ASSUME NEW t \in Threads, Typed, NEW wait \in Waits(t)
    PROVE  wait \in Nat /\ since \in Nat /\ (since < wait => wait - since \in Nat)
  BY ConstantsAre DEF Typed, StoredType, Waits

LEMMA FreshToken ==
    ASSUME Tokens \ Held # {}
    PROVE  /\ (CHOOSE k \in Tokens \ Held : TRUE) \in Tokens
           /\ (CHOOSE k \in Tokens \ Held : TRUE) \notin Held
  OBVIOUS

\* The operations a thread hands to WorkManager, and the one it executes.
LEMMA OperationType ==
    ASSUME NEW kind \in {"enqueue", "cancel", "success", "retry"},
           NEW k \in Tokens \cup {NoToken}, NEW d \in Nat, NEW w \in Workers \cup {Nobody}
    PROVE  [kind |-> kind, token |-> k, delay |-> d, worker |-> w] \in Operation
  BY DEF Operation

LEMMA NextOperation ==
    ASSUME Typed, operations # <<>>
    PROVE  /\ Head(operations) \in Operation
           /\ Head(operations).kind = "enqueue" => Head(operations).token \in Tokens
           /\ Tail(operations) \in Seq(Operation)
<1>1. operations \in Seq(Operation)
  BY DEF Typed, ManagerType
<1>2. Head(operations) = operations[1] /\ 1 \in DOMAIN operations
  BY <1>1, TailIs
<1>3. QED
  BY <1>1, <1>2, TailIs DEF Typed, Attempting

LEMMA StoredStep ==
    ASSUME Typed, [Next]_vars
    PROVE  StoredType'
<1> USE ConstantsAre DEF Typed, StoredType, ThreadsType, stored
<1>1. CASE Tick
  BY <1>1 DEF Tick, Smaller, Larger, threads
<1>2. CASE Trigger
  BY <1>2 DEF Trigger, manager
<1>3. ASSUME NEW t \in Threads, Reserve(t)
      PROVE  StoredType'
  BY <1>3, EffectiveType, FreshToken DEF Reserve
<1>4. ASSUME NEW t \in Threads, EnqueueThrows(t)
      PROVE  StoredType'
  BY <1>4 DEF EnqueueThrows, Settle, Finish, manager, Free
<1>5. ASSUME NEW t \in Threads, BeginPass(t)
      PROVE  StoredType'
  BY <1>5 DEF BeginPass, DueSlotReleased, manager, Reserved, Free
<1>6. ASSUME NEW t \in Threads, Attempt(t)
      PROVE  StoredType'
  BY <1>6 DEF Attempt, Waits, manager
<1>7. ASSUME NEW t \in Threads, DrainedAll(t)
      PROVE  StoredType'
  BY <1>7 DEF DrainedAll, manager
<1>8. ASSUME NEW t \in Threads, DrainedSome(t)
      PROVE  StoredType'
  BY <1>8 DEF DrainedSome, Request, manager
<1>9. ASSUME NEW t \in Threads, DrainFailed(t)
      PROVE  StoredType'
  BY <1>9 DEF DrainFailed, Request, manager
<1>10. ASSUME NEW t \in Threads, CancelJob(t)
      PROVE  StoredType'
  BY <1>10 DEF CancelJob, Free, Finish
<1>11. ASSUME NEW t \in Threads, RecordRetry(t)
      PROVE  StoredType'
  BY <1>11 DEF RecordRetry, Confirmed, manager, Reserved
<1>12. ASSUME NEW r \in results, Report(r)
      PROVE  StoredType'
  <2>1. CASE reservation' = reservation
    BY <1>12, <2>1 DEF Report
  <2>2. CASE reservation' = [reservation EXCEPT !.confirmed = TRUE]
    BY <1>12, <2>2 DEF Report
  <2>3. CASE reservation' = Free
    BY <1>12, <2>3 DEF Report, Free
  <2>4. QED
    BY <1>12, <2>1, <2>2, <2>3 DEF Report, Settle
<1>13. CASE UNCHANGED stored
  BY <1>13 DEF StoredType
<1>14. QED
  BY <1>1, <1>2, <1>3, <1>4, <1>5, <1>6, <1>7, <1>8, <1>9, <1>10, <1>11, <1>12, <1>13
      DEF Next, ThreadStep, RequestStep, PassStep, vars, StartExecutorPass, KeepSlot,
      EnqueueJob, NoNetwork, Defer, PassThrows, WorkerReturns, Broadcast,
      ExecuteOperation, EnqueueFails, StartWorker, ProcessDeath, ProcessStart, Finish,
      Request, manager, stored, threads

LEMMA ManagerStep ==
    ASSUME Typed, [Next]_vars
    PROVE  ManagerType'
<1> USE ConstantsAre DEF Typed, ManagerType, ThreadsType, manager
<1>1. CASE Tick
  <2>1. Larger(job.at - 1, 0) \in Nat
    BY DEF Larger
  <2>2. QED
    BY <1>1, <2>1 DEF Tick
<1>2. ASSUME NEW t \in Threads, Reserve(t)
      PROVE  ManagerType'
  BY <1>2 DEF Reserve
<1>3. ASSUME NEW t \in Threads, EnqueueJob(t)
      PROVE  ManagerType'
  <2>1. [kind |-> "enqueue", token |-> token[t], delay |-> delay[t], worker |-> Nobody]
          \in Operation
    BY OperationType
  <2>2. QED
    BY <1>3, <2>1, AppendIs DEF EnqueueJob
<1>4. ASSUME NEW t \in Threads, CancelJob(t)
      PROVE  ManagerType'
  <2>1. [kind |-> "cancel", token |-> NoToken, delay |-> 0, worker |-> Nobody]
          \in Operation
    BY OperationType
  <2>2. /\ \/ operations' = operations
           \/ operations' = Append(operations, [kind |-> "cancel", token |-> NoToken,
                                                delay |-> 0, worker |-> Nobody])
        /\ job' = job /\ results' = results /\ granted' = granted
    BY <1>4 DEF CancelJob
  <2>3. operations' \in Seq(Operation)
    BY <2>1, <2>2, AppendIs
  <2>4. QED
    BY <2>2, <2>3
<1>5. ASSUME NEW t \in Threads, WorkerReturns(t)
      PROVE  ManagerType'
  <2>1. [kind |-> pc[t], token |-> NoToken, delay |-> Backoff, worker |-> t]
          \in Operation
    BY <1>5, OperationType DEF WorkerReturns
  <2>2. QED
    BY <1>5, <2>1, AppendIs DEF WorkerReturns
<1>6. ASSUME NEW r \in results, Report(r)
      PROVE  ManagerType'
  BY <1>6 DEF Report, Settle, Free
<1>7. CASE ExecuteOperation
  <2> DEFINE operation == Head(operations)
  <2>1. /\ operation \in Operation
        /\ operation.kind = "enqueue" => operation.token \in Tokens
        /\ Tail(operations) \in Seq(Operation)
    BY <1>7, NextOperation DEF ExecuteOperation
  <2> HIDE DEF operation
  <2>2. JobAfter(operation) \in [state : {"none", "waiting", "running"}, at : Nat,
                                 worker : Workers \cup {Nobody}]
    BY <2>1 DEF JobAfter, Waiting, NoJob, Operation
  <2>3. /\ job' = JobAfter(operation) /\ operations' = Tail(operations)
        /\ operation.kind # "enqueue" => results' = results /\ granted' = granted
        /\ operation.kind = "enqueue" =>
             /\ results' = results \cup {[token |-> operation.token, ok |-> TRUE]}
             /\ granted' = granted \cup {operation.token}
    BY <1>7 DEF ExecuteOperation, operation
  <2>4. CASE operation.kind # "enqueue"
    BY <2>1, <2>2, <2>3, <2>4
  <2>5. CASE operation.kind = "enqueue"
    BY <2>1, <2>2, <2>3, <2>5, ResultType
  <2>6. QED
    BY <2>4, <2>5
<1>8. CASE EnqueueFails
  <2>1. Head(operations).token \in Tokens /\ Tail(operations) \in Seq(Operation)
    BY <1>8, NextOperation DEF EnqueueFails
  <2>2. QED
    BY <1>8, <2>1, ResultType DEF EnqueueFails, threads
<1>9. ASSUME NEW t \in Workers, StartWorker(t)
      PROVE  ManagerType'
  BY <1>9 DEF StartWorker, stored
<1>10. CASE ProcessDeath
  BY <1>10 DEF ProcessDeath, Waiting, stored
<1>11. CASE UNCHANGED manager
  BY <1>11 DEF ManagerType
<1>12. QED
  BY <1>1, <1>2, <1>3, <1>4, <1>5, <1>6, <1>7, <1>8, <1>9, <1>10, <1>11 DEF Next,
      ThreadStep, RequestStep, PassStep, vars, Trigger, StartExecutorPass, KeepSlot,
      EnqueueThrows, BeginPass, NoNetwork, Defer, Attempt, DrainedAll, DrainedSome,
      DrainFailed, PassThrows, RecordRetry, Broadcast, ProcessStart, Finish, Request,
      Settle, manager, stored, threads

LEMMA ThreadsStep ==
    ASSUME Typed, [Next]_vars
    PROVE  ThreadsType'
<1> USE ConstantsAre DEF Typed, ThreadsType, threads
<1>1. CASE Trigger
  BY <1>1 DEF Trigger, manager
<1>2. CASE StartExecutorPass
  BY <1>2 DEF StartExecutorPass, stored, manager
<1>3. ASSUME NEW t \in Threads, KeepSlot(t)
      PROVE  ThreadsType'
  BY <1>3 DEF KeepSlot, Keeps, Finish, stored, manager, Confirmed, Lost, Reserved
<1>4. ASSUME NEW t \in Threads, Reserve(t)
      PROVE  ThreadsType'
  BY <1>4, EffectiveType, FreshToken DEF Reserve
<1>5. ASSUME NEW t \in Threads, EnqueueJob(t)
      PROVE  ThreadsType'
  BY <1>5 DEF EnqueueJob, Finish, stored
<1>6. ASSUME NEW t \in Threads, EnqueueThrows(t)
      PROVE  ThreadsType'
  BY <1>6 DEF EnqueueThrows, Settle, Finish, manager, Free
<1>7. ASSUME NEW t \in Threads, BeginPass(t)
      PROVE  ThreadsType'
  BY <1>7 DEF BeginPass, DueSlotReleased, manager, Reserved, Free
<1>8. ASSUME NEW t \in Threads, NoNetwork(t)
      PROVE  ThreadsType'
  BY <1>8 DEF NoNetwork, Request, stored, manager
<1>9. ASSUME NEW t \in Threads, Defer(t)
      PROVE  ThreadsType'
  BY <1>9, WaitsType DEF Defer, Request
<1>10. ASSUME NEW t \in Threads, Attempt(t)
      PROVE  ThreadsType'
  BY <1>10 DEF Attempt, Waits, manager
<1>11. ASSUME NEW t \in Threads, DrainedAll(t)
      PROVE  ThreadsType'
  BY <1>11 DEF DrainedAll, manager
<1>12. ASSUME NEW t \in Threads, DrainedSome(t)
      PROVE  ThreadsType'
  BY <1>12 DEF DrainedSome, Request, manager
<1>13. ASSUME NEW t \in Threads, DrainFailed(t)
      PROVE  ThreadsType'
  BY <1>13 DEF DrainFailed, Request, manager
<1>14. ASSUME NEW t \in Threads, CancelJob(t)
      PROVE  ThreadsType'
  BY <1>14 DEF CancelJob, Free, Finish
<1>15. ASSUME NEW t \in Threads, PassThrows(t)
      PROVE  ThreadsType'
  BY <1>15 DEF PassThrows, Request, stored, manager
<1>16. ASSUME NEW t \in Threads, RecordRetry(t)
      PROVE  ThreadsType'
  BY <1>16 DEF RecordRetry, Confirmed, manager, Reserved
<1>17. ASSUME NEW t \in Threads, WorkerReturns(t)
      PROVE  ThreadsType'
  BY <1>17 DEF WorkerReturns, stored
<1>18. ASSUME NEW t \in Receivers, Broadcast(t)
      PROVE  ThreadsType'
  BY <1>18 DEF Broadcast, Request, stored, manager
<1>19. ASSUME NEW r \in results, Report(r)
      PROVE  ThreadsType'
  BY <1>19 DEF Report, Settle, Free
<1>20. CASE ExecuteOperation
  BY <1>20 DEF ExecuteOperation, JobAfter, stored, Waiting, NoJob
<1>21. ASSUME NEW t \in Workers, StartWorker(t)
      PROVE  ThreadsType'
  BY <1>21 DEF StartWorker, stored
<1>22. CASE ProcessDeath
  BY <1>22 DEF ProcessDeath, Waiting, stored
<1>23. CASE ProcessStart
  BY <1>23 DEF ProcessStart, stored, manager
<1>24. CASE UNCHANGED threads
  BY <1>24 DEF ThreadsType
<1>25. QED
  BY <1>1, <1>2, <1>3, <1>4, <1>5, <1>6, <1>7, <1>8, <1>9, <1>10, <1>11, <1>12, <1>13,
      <1>14, <1>15, <1>16, <1>17, <1>18, <1>19, <1>20, <1>21, <1>22, <1>23, <1>24 DEF
      Next, ThreadStep, RequestStep, PassStep, vars, Tick, EnqueueFails, manager,
      stored, threads

LEMMA SpentStep ==
    ASSUME Typed, [Next]_vars
    PROVE  SpentType'
<1> USE ConstantsAre DEF Typed, SpentType
<1>1. CASE Trigger
  BY <1>1 DEF Trigger, manager
<1>2. ASSUME NEW t \in Threads, EnqueueThrows(t)
      PROVE  SpentType'
  BY <1>2 DEF EnqueueThrows, Settle, Finish, manager, Free
<1>3. ASSUME NEW t \in Threads, CancelJob(t)
      PROVE  SpentType'
  BY <1>3 DEF CancelJob, Free, Finish
<1>4. ASSUME NEW t \in Threads, PassThrows(t)
      PROVE  SpentType'
  BY <1>4 DEF PassThrows, Request, stored, manager
<1>5. ASSUME NEW t \in Receivers, Broadcast(t)
      PROVE  SpentType'
  BY <1>5 DEF Broadcast, Request, stored, manager
<1>6. CASE EnqueueFails
  <2>1. spent' = [spent EXCEPT !.refusals = @ + 1]
    BY <1>6 DEF EnqueueFails
  <2>2. QED
    BY <2>1
<1>7. CASE ProcessDeath
  BY <1>7 DEF ProcessDeath, Waiting, stored
<1>8. CASE UNCHANGED spent
  BY <1>8 DEF SpentType
<1>9. QED
  BY <1>1, <1>2, <1>3, <1>4, <1>5, <1>6, <1>7, <1>8 DEF Next, ThreadStep, RequestStep,
      PassStep, vars, Tick, StartExecutorPass, KeepSlot, Reserve, EnqueueJob,
      BeginPass, NoNetwork, Defer, Attempt, DrainedAll, DrainedSome, DrainFailed,
      RecordRetry, WorkerReturns, Report, ExecuteOperation, StartWorker, ProcessStart,
      Finish, Request, Settle, manager, stored, threads

(***************************************************************************)
(* How a step may change the operations WorkManager has to execute.        *)
(***************************************************************************)
LEMMA AppendKeeps ==
    ASSUME Typed, NEW operation \in Operation, operations' = Append(operations, operation)
    PROVE  \A i \in DOMAIN operations' :
              \/ i \in DOMAIN operations /\ operations'[i] = operations[i]
              \/ i \notin DOMAIN operations /\ operations'[i] = operation
<1>1. operations \in Seq(Operation)
  BY DEF Typed, ManagerType
<1>2. QED
  BY <1>1, AppendIs

LEMMA TailKeeps ==
    ASSUME Typed, operations # <<>>, operations' = Tail(operations)
    PROVE  /\ 1 \in DOMAIN operations /\ Head(operations) = operations[1]
           /\ DOMAIN operations \subseteq Nat
           /\ \A i \in DOMAIN operations' :
                 i + 1 \in DOMAIN operations /\ operations'[i] = operations[i + 1]
           /\ \A i \in DOMAIN operations : i # 1 =>
                 i - 1 \in DOMAIN operations' /\ operations'[i - 1] = operations[i]
<1>1. operations \in Seq(Operation)
  BY DEF Typed, ManagerType
<1>2. QED
  BY <1>1, TailIs

LEMMA AttemptingStep ==
    ASSUME Typed, [Next]_vars
    PROVE  Attempting'
<1> USE ConstantsAre DEF Typed, Attempting, ThreadsType
<1>1. CASE StartExecutorPass
  BY <1>1 DEF StartExecutorPass, stored, manager
<1>2. ASSUME NEW t \in Threads, KeepSlot(t)
      PROVE  Attempting'
  BY <1>2 DEF KeepSlot, Keeps, Finish, stored, manager, Confirmed, Lost, Reserved
<1>3. ASSUME NEW t \in Threads, Reserve(t)
      PROVE  Attempting'
  BY <1>3, FreshToken DEF Reserve
<1>4. ASSUME NEW t \in Threads, EnqueueJob(t)
      PROVE  Attempting'
  <2>1. [kind |-> "enqueue", token |-> token[t], delay |-> delay[t], worker |-> Nobody]
          \in Operation
    BY OperationType
  <2>2. token[t] \in Tokens /\ \A u \in Threads : pc'[u] = "enqueue" =>
          pc[u] = "enqueue" /\ token'[u] = token[u]
    BY <1>4 DEF EnqueueJob, Finish
  <2>3. QED
    BY <1>4, <2>1, <2>2, AppendKeeps DEF EnqueueJob
<1>5. ASSUME NEW t \in Threads, EnqueueThrows(t)
      PROVE  Attempting'
  BY <1>5 DEF EnqueueThrows, Settle, Finish, manager, Free
<1>6. ASSUME NEW t \in Threads, BeginPass(t)
      PROVE  Attempting'
  BY <1>6 DEF BeginPass, DueSlotReleased, manager, Reserved, Free
<1>7. ASSUME NEW t \in Threads, NoNetwork(t)
      PROVE  Attempting'
  BY <1>7 DEF NoNetwork, Request, stored, manager
<1>8. ASSUME NEW t \in Threads, Defer(t)
      PROVE  Attempting'
  BY <1>8 DEF Defer, Waits, Request, stored, manager
<1>9. ASSUME NEW t \in Threads, Attempt(t)
      PROVE  Attempting'
  BY <1>9 DEF Attempt, Waits, manager
<1>10. ASSUME NEW t \in Threads, DrainedAll(t)
      PROVE  Attempting'
  BY <1>10 DEF DrainedAll, manager
<1>11. ASSUME NEW t \in Threads, DrainedSome(t)
      PROVE  Attempting'
  BY <1>11 DEF DrainedSome, Request, manager
<1>12. ASSUME NEW t \in Threads, DrainFailed(t)
      PROVE  Attempting'
  BY <1>12 DEF DrainFailed, Request, manager
<1>13. ASSUME NEW t \in Threads, CancelJob(t)
      PROVE  Attempting'
  <2>1. [kind |-> "cancel", token |-> NoToken, delay |-> 0, worker |-> Nobody]
          \in Operation
    BY OperationType
  <2>2. \A u \in Threads : pc'[u] = "enqueue" => pc[u] = "enqueue" /\ token'[u] = token[u]
    BY <1>13 DEF CancelJob, Finish
  <2>3. CASE operations' = operations
    BY <2>2, <2>3
  <2>4. CASE operations' = Append(operations, [kind |-> "cancel", token |-> NoToken,
                                               delay |-> 0, worker |-> Nobody])
    BY <2>1, <2>2, <2>4, AppendKeeps
  <2>5. QED
    BY <1>13, <2>3, <2>4 DEF CancelJob
<1>14. ASSUME NEW t \in Threads, PassThrows(t)
      PROVE  Attempting'
  BY <1>14 DEF PassThrows, Request, stored, manager
<1>15. ASSUME NEW t \in Threads, RecordRetry(t)
      PROVE  Attempting'
  BY <1>15 DEF RecordRetry, Confirmed, manager, Reserved
<1>16. ASSUME NEW t \in Threads, WorkerReturns(t)
      PROVE  Attempting'
  <2>1. [kind |-> pc[t], token |-> NoToken, delay |-> Backoff, worker |-> t] \in Operation
        /\ pc[t] # "enqueue"
    BY <1>16, OperationType DEF WorkerReturns
  <2>2. \A u \in Threads : pc'[u] = "enqueue" => pc[u] = "enqueue" /\ token'[u] = token[u]
    BY <1>16 DEF WorkerReturns
  <2>3. QED
    BY <1>16, <2>1, <2>2, AppendKeeps DEF WorkerReturns
<1>17. ASSUME NEW t \in Receivers, Broadcast(t)
      PROVE  Attempting'
  BY <1>17 DEF Broadcast, Request, stored, manager
<1>18. ASSUME NEW r \in results, Report(r)
      PROVE  Attempting'
  BY <1>18 DEF Report, Settle, Free
<1>19. CASE ExecuteOperation
  <2>1. \A u \in Threads : pc'[u] = "enqueue" => pc[u] = "enqueue" /\ token'[u] = token[u]
    BY <1>19 DEF ExecuteOperation
  <2>2. QED
    BY <1>19, <2>1, TailKeeps DEF ExecuteOperation
<1>20. CASE EnqueueFails
  BY <1>20, TailKeeps DEF EnqueueFails, threads
<1>21. ASSUME NEW t \in Workers, StartWorker(t)
      PROVE  Attempting'
  BY <1>21 DEF StartWorker, stored
<1>22. CASE ProcessDeath
  BY <1>22 DEF ProcessDeath, Waiting, stored
<1>23. CASE UNCHANGED <<pc, token, operations>>
  BY <1>23 DEF Attempting
<1>24. QED
  BY <1>1, <1>2, <1>3, <1>4, <1>5, <1>6, <1>7, <1>8, <1>9, <1>10, <1>11, <1>12, <1>13,
      <1>14, <1>15, <1>16, <1>17, <1>18, <1>19, <1>20, <1>21, <1>22, <1>23 DEF Next,
      ThreadStep, RequestStep, PassStep, vars, Tick, Trigger, ProcessStart, manager,
      stored, threads

LEMMA TypedStep ==
    ASSUME Typed, [Next]_vars
    PROVE  Typed'
  BY StoredStep, ManagerStep, ThreadsStep, SpentStep, AttemptingStep DEF Typed

LEMMA TypedAlways == Spec => []Typed
<1>1. Init => Typed
  BY TypedInit
<1>2. Typed /\ [Next]_vars => Typed'
  BY TypedStep
<1>3. QED
  BY <1>1, <1>2, PTL DEF Spec

(***************************************************************************)
(* The type invariant; in particular no delay and no due time is negative. *)
(***************************************************************************)
THEOREM TypeCorrect == Spec => []TypeOK
<1>1. Typed => TypeOK
  BY TypedIs
<1>2. QED
  BY <1>1, TypedAlways, PTL

-----------------------------------------------------------------------------
(***************************************************************************)
(* Who owns the slot.  WorkManager's answer reaches a worker only after it *)
(* returned, once, and an outcome reported as good is of an attempt that   *)
(* was carried out and whose token has not been given away since.          *)
(***************************************************************************)
Returning ==
    /\ \A i \in DOMAIN operations :
         operations[i].worker # Nobody => pc[operations[i].worker] = "returned"
    /\ \A i, j \in DOMAIN operations :
         operations[i].worker = operations[j].worker => i = j \/ operations[i].worker = Nobody

GoodResults == \A r \in results : r.ok => r.token \in granted

LEMMA WorkerOf ==
    ASSUME Typed, NEW i \in DOMAIN operations
    PROVE  operations[i].worker \in Workers \cup {Nobody} /\ i \in Nat
<1>1. operations \in Seq(Operation)
  BY DEF Typed, ManagerType
<1>2. operations[i] \in Operation /\ i \in Nat
  BY <1>1
<1>3. QED
  BY <1>2 DEF Operation

LEMMA ReturningStep ==
    ASSUME Typed, Returning, [Next]_vars
    PROVE  Returning'
<1> USE ConstantsAre DEF Typed, Returning, ThreadsType
<1>1. CASE StartExecutorPass
  BY <1>1, WorkerOf DEF StartExecutorPass, stored, manager
<1>2. ASSUME NEW t \in Threads, KeepSlot(t)
      PROVE  Returning'
  BY <1>2, WorkerOf DEF KeepSlot, Keeps, Finish, stored, manager, Confirmed, Lost,
      Reserved
<1>3. ASSUME NEW t \in Threads, Reserve(t)
      PROVE  Returning'
  BY <1>3, WorkerOf DEF Reserve, Keeps, Held, Effective, Confirmed, Lost, Reserved,
      Larger, Smaller
<1>4. ASSUME NEW t \in Threads, EnqueueJob(t)
      PROVE  Returning'
  <2>1. [kind |-> "enqueue", token |-> token[t], delay |-> delay[t], worker |-> Nobody]
          \in Operation
    BY OperationType
  <2>2. pc[t] # "returned" /\ \A u \in Threads \ {t} : pc'[u] = pc[u]
    BY <1>4 DEF EnqueueJob, Finish
  <2>3. QED
    BY <1>4, <2>1, <2>2, AppendKeeps, WorkerOf DEF EnqueueJob
<1>5. ASSUME NEW t \in Threads, EnqueueThrows(t)
      PROVE  Returning'
  BY <1>5, WorkerOf DEF EnqueueThrows, Settle, Finish, manager, Free
<1>6. ASSUME NEW t \in Threads, BeginPass(t)
      PROVE  Returning'
  BY <1>6, WorkerOf DEF BeginPass, DueSlotReleased, manager, Reserved, Free
<1>7. ASSUME NEW t \in Threads, NoNetwork(t)
      PROVE  Returning'
  BY <1>7, WorkerOf DEF NoNetwork, Request, stored, manager
<1>8. ASSUME NEW t \in Threads, Defer(t)
      PROVE  Returning'
  BY <1>8, WorkerOf DEF Defer, Waits, Request, stored, manager
<1>9. ASSUME NEW t \in Threads, Attempt(t)
      PROVE  Returning'
  BY <1>9, WorkerOf DEF Attempt, Waits, manager
<1>10. ASSUME NEW t \in Threads, DrainedAll(t)
      PROVE  Returning'
  BY <1>10, WorkerOf DEF DrainedAll, manager
<1>11. ASSUME NEW t \in Threads, DrainedSome(t)
      PROVE  Returning'
  BY <1>11, WorkerOf DEF DrainedSome, Request, manager
<1>12. ASSUME NEW t \in Threads, DrainFailed(t)
      PROVE  Returning'
  BY <1>12, WorkerOf DEF DrainFailed, Request, manager
<1>13. ASSUME NEW t \in Threads, CancelJob(t)
      PROVE  Returning'
  <2>1. [kind |-> "cancel", token |-> NoToken, delay |-> 0, worker |-> Nobody]
          \in Operation
    BY OperationType
  <2>2. pc[t] # "returned" /\ \A u \in Threads \ {t} : pc'[u] = pc[u]
    BY <1>13 DEF CancelJob, Finish
  <2>3. CASE operations' = operations
    BY <2>2, <2>3, WorkerOf
  <2>4. CASE operations' = Append(operations, [kind |-> "cancel", token |-> NoToken,
                                               delay |-> 0, worker |-> Nobody])
    BY <2>1, <2>2, <2>4, AppendKeeps, WorkerOf
  <2>5. QED
    BY <1>13, <2>3, <2>4 DEF CancelJob
<1>14. ASSUME NEW t \in Threads, PassThrows(t)
      PROVE  Returning'
  BY <1>14, WorkerOf DEF PassThrows, Request, stored, manager
<1>15. ASSUME NEW t \in Threads, RecordRetry(t)
      PROVE  Returning'
  BY <1>15, WorkerOf DEF RecordRetry, Confirmed, manager, Reserved
<1>16. ASSUME NEW t \in Threads, WorkerReturns(t)
      PROVE  Returning'
  <2>1. [kind |-> pc[t], token |-> NoToken, delay |-> Backoff, worker |-> t] \in Operation
        /\ pc[t] # "returned" /\ pc' = [pc EXCEPT ![t] = "returned"]
    BY <1>16, OperationType DEF WorkerReturns
  <2>2. \A i \in DOMAIN operations : operations[i].worker # t
    BY <1>16, <2>1 DEF WorkerReturns
  <2>3. QED
    BY <1>16, <2>1, <2>2, AppendKeeps, WorkerOf DEF WorkerReturns
<1>17. ASSUME NEW t \in Receivers, Broadcast(t)
      PROVE  Returning'
  BY <1>17, WorkerOf DEF Broadcast, Request, stored, manager
<1>18. ASSUME NEW r \in results, Report(r)
      PROVE  Returning'
  BY <1>18, WorkerOf DEF Report, Settle, Free
<1>19. CASE ExecuteOperation
  <2>1. \A u \in Threads : u # operations[1].worker => pc'[u] = pc[u]
    BY <1>19, TailKeeps DEF ExecuteOperation
  <2>2. \A i \in DOMAIN operations' :
          /\ i + 1 \in DOMAIN operations /\ operations'[i] = operations[i + 1]
          /\ i \in Nat /\ i + 1 # 1
    <3>1. operations' = Tail(operations) /\ operations # <<>> /\ operations \in Seq(Operation)
      BY <1>19 DEF ExecuteOperation, ManagerType
    <3>2. QED
      BY <3>1, TailIs
  <2>3. 1 \in DOMAIN operations
    BY <1>19, TailKeeps DEF ExecuteOperation
  <2>4. QED
    BY <2>1, <2>2, <2>3, WorkerOf
<1>20. CASE EnqueueFails
  <2>1. \A i \in DOMAIN operations' :
          i + 1 \in DOMAIN operations /\ operations'[i] = operations[i + 1] /\ i \in Nat
    <3>1. operations' = Tail(operations) /\ operations # <<>> /\ operations \in Seq(Operation)
      BY <1>20 DEF EnqueueFails, ManagerType
    <3>2. QED
      BY <3>1, TailIs
  <2>2. pc' = pc
    BY <1>20 DEF EnqueueFails, threads
  <2>3. \A i \in DOMAIN operations' :
          operations'[i].worker # Nobody => pc'[operations'[i].worker] = "returned"
    <3>1. TAKE i \in DOMAIN operations'
    <3>2. i + 1 \in DOMAIN operations /\ operations'[i] = operations[i + 1]
      BY <2>1
    <3>3. QED
      BY <2>2, <3>2
  <2>4. \A i, j \in DOMAIN operations' :
          operations'[i].worker = operations'[j].worker
          => i = j \/ operations'[i].worker = Nobody
    <3>1. TAKE i, j \in DOMAIN operations'
    <3>2. /\ i + 1 \in DOMAIN operations /\ operations'[i] = operations[i + 1] /\ i \in Nat
          /\ j + 1 \in DOMAIN operations /\ operations'[j] = operations[j + 1] /\ j \in Nat
      BY <2>1
    <3>3. HAVE operations'[i].worker = operations'[j].worker
    <3>4. i + 1 = j + 1 \/ operations[i + 1].worker = Nobody
      BY <3>2, <3>3
    <3>5. QED
      BY <3>2, <3>4
  <2>5. QED
    BY <2>3, <2>4
<1>21. ASSUME NEW t \in Workers, StartWorker(t)
      PROVE  Returning'
  BY <1>21, WorkerOf DEF StartWorker, stored
<1>22. CASE ProcessDeath
  BY <1>22, WorkerOf DEF ProcessDeath, Waiting, stored
<1>23. CASE UNCHANGED <<pc, operations>>
  BY <1>23 DEF Returning
<1>24. QED
  BY <1>1, <1>2, <1>3, <1>4, <1>5, <1>6, <1>7, <1>8, <1>9, <1>10, <1>11, <1>12, <1>13,
      <1>14, <1>15, <1>16, <1>17, <1>18, <1>19, <1>20, <1>21, <1>22, <1>23 DEF Next,
      ThreadStep, RequestStep, PassStep, vars, Tick, Trigger, ProcessStart, manager,
      stored, threads

LEMMA GoodResultsStep ==
    ASSUME Typed, GoodResults, [Next]_vars
    PROVE  GoodResults'
<1> USE ConstantsAre DEF Typed, GoodResults
<1>1. ASSUME NEW t \in Threads, Reserve(t)
      PROVE  GoodResults'
  <2>1. results' = results /\ \E fresh \in Tokens \ Held : granted' = granted \ {fresh}
    BY <1>1, FreshToken DEF Reserve
  <2>2. QED
    BY <2>1 DEF Held
<1>2. ASSUME NEW r \in results, Report(r)
      PROVE  GoodResults'
  BY <1>2 DEF Report, Settle, Free
<1>3. CASE ExecuteOperation
  BY <1>3 DEF ExecuteOperation, JobAfter, stored, Waiting, NoJob
<1>4. CASE EnqueueFails
  BY <1>4 DEF EnqueueFails, stored, threads
<1>5. CASE ProcessDeath
  BY <1>5 DEF ProcessDeath, Waiting, stored
<1>6. CASE UNCHANGED <<results, granted>>
  BY <1>6 DEF GoodResults
<1>7. QED
  BY <1>1, <1>2, <1>3, <1>4, <1>5, <1>6 DEF Next, ThreadStep, RequestStep, PassStep,
      vars, Tick, Trigger, StartExecutorPass, KeepSlot, EnqueueJob, EnqueueThrows,
      BeginPass, NoNetwork, Defer, Attempt, DrainedAll, DrainedSome, DrainFailed,
      CancelJob, PassThrows, RecordRetry, WorkerReturns, Broadcast, StartWorker,
      ProcessStart, Finish, Request, Settle, manager, stored, threads

(***************************************************************************)
(* A trusted slot is of an attempt that was carried out, or of a retry.    *)
(***************************************************************************)
SlotTrusted == Confirmed => reservation.token \in granted \cup {RetryToken}

LEMMA SlotTrustedStep ==
    ASSUME Typed, GoodResults, SlotTrusted, [Next]_vars
    PROVE  SlotTrusted'
<1> USE ConstantsAre DEF Typed, SlotTrusted, GoodResults, StoredType, Confirmed, Reserved
<1>1. CASE Tick
  BY <1>1 DEF Tick, Smaller, Larger, threads
<1>2. ASSUME NEW t \in Threads, Reserve(t)
      PROVE  SlotTrusted'
  BY <1>2 DEF Reserve, Keeps, Held, Effective, Confirmed, Lost, Reserved, Larger,
      Smaller
<1>3. ASSUME NEW t \in Threads, EnqueueThrows(t)
      PROVE  SlotTrusted'
  BY <1>3 DEF EnqueueThrows, Settle, Finish, manager, Free
<1>4. ASSUME NEW t \in Threads, BeginPass(t)
      PROVE  SlotTrusted'
  BY <1>4 DEF BeginPass, DueSlotReleased, manager, Reserved, Free
<1>5. ASSUME NEW t \in Threads, CancelJob(t)
      PROVE  SlotTrusted'
  BY <1>5 DEF CancelJob, Free, Finish
<1>6. ASSUME NEW t \in Threads, RecordRetry(t)
      PROVE  SlotTrusted'
  BY <1>6 DEF RecordRetry, Confirmed, manager, Reserved
<1>7. ASSUME NEW r \in results, Report(r)
      PROVE  SlotTrusted'
  BY <1>7 DEF Report, Settle, Free
<1>8. CASE ExecuteOperation
  BY <1>8 DEF ExecuteOperation, JobAfter, stored, Waiting, NoJob
<1>9. CASE UNCHANGED <<reservation, granted>>
  BY <1>9 DEF SlotTrusted
<1>10. QED
  BY <1>1, <1>2, <1>3, <1>4, <1>5, <1>6, <1>7, <1>8, <1>9 DEF Next, ThreadStep,
      RequestStep, PassStep, vars, Trigger, StartExecutorPass, KeepSlot, EnqueueJob,
      NoNetwork, Defer, Attempt, DrainedAll, DrainedSome, DrainFailed, PassThrows,
      WorkerReturns, Broadcast, EnqueueFails, StartWorker, ProcessDeath, ProcessStart,
      Finish, Request, manager, stored, threads

(***************************************************************************)
(* A slot that nobody has confirmed has an attempt under way, unless the   *)
(* process has died with it: the enqueue is taken by WorkManager, reported *)
(* and settled, and each hands it to the next.                             *)
(***************************************************************************)
SlotPending == Reserved /\ ~Confirmed /\ spent.deaths = 0 => UnderWay(reservation.token)

LEMMA StaysUnderWay ==
    ASSUME Typed, NEW k, UnderWay(k),
           \A t \in Threads : pc[t] = "enqueue" => pc'[t] = "enqueue" /\ token'[t] = token[t],
           operations' = operations, results \subseteq results'
    PROVE  UnderWay(k)'
  BY DEF UnderWay

LEMMA SlotPendingStep ==
    ASSUME Typed, Returning, SlotPending, [Next]_vars
    PROVE  SlotPending'
<1> USE ConstantsAre DEF Typed, SlotPending, StoredType, ManagerType, ThreadsType, SpentType, Confirmed, Reserved
<1>1. CASE Tick
  <2>1. /\ reservation'.token = reservation.token
        /\ reservation'.confirmed = reservation.confirmed
    BY <1>1 DEF Tick
  <2>2. UNCHANGED <<pc, token, operations, results, spent>>
    BY <1>1 DEF Tick, threads
  <2>3. QED
    BY <2>1, <2>2 DEF UnderWay
<1>2. CASE Trigger
  <2>1. spent'.deaths = spent.deaths /\ UNCHANGED <<reservation, pc, token, operations, results>>
    BY <1>2 DEF Trigger, manager
  <2>2. QED
    BY <2>1 DEF UnderWay
<1>3. CASE StartExecutorPass
  <2>1. \A u \in Threads : pc[u] = "enqueue" => pc'[u] = "enqueue" /\ token'[u] = token[u]
    BY <1>3 DEF StartExecutorPass, stored, manager
  <2>2. QED
    BY <1>3, <2>1, StaysUnderWay DEF StartExecutorPass, stored, manager
<1>4. ASSUME NEW t \in Threads, KeepSlot(t)
      PROVE  SlotPending'
  <2>1. \A u \in Threads : pc[u] = "enqueue" => pc'[u] = "enqueue" /\ token'[u] = token[u]
    BY <1>4 DEF KeepSlot, Finish, stored, manager
  <2>2. QED
    BY <1>4, <2>1, StaysUnderWay DEF KeepSlot, Keeps, Finish, stored, manager,
        Confirmed, Lost, Reserved
<1>5. ASSUME NEW t \in Threads, Reserve(t)
      PROVE  SlotPending'
  <2>1. token'[t] = reservation'.token /\ pc'[t] = "enqueue"
    BY <1>5 DEF Reserve
  <2>2. QED
    BY <2>1 DEF UnderWay
<1>6. ASSUME NEW t \in Threads, EnqueueJob(t)
      PROVE  SlotPending'
  <2> DEFINE operation == [kind |-> "enqueue", token |-> token[t], delay |-> delay[t],
                           worker |-> Nobody]
  <2>1. operation \in Operation /\ operation.token = token[t]
    BY OperationType
  <2>2. \A u \in Threads \ {t} : pc'[u] = pc[u] /\ token'[u] = token[u]
    BY <1>6 DEF EnqueueJob, Finish
  <2>3. operations \in Seq(Operation) /\ operations' = Append(operations, operation)
    BY <1>6 DEF EnqueueJob, ManagerType
  <2> HIDE DEF operation
  <2>4. /\ \A i \in DOMAIN operations : i \in DOMAIN operations' /\ operations'[i] = operations[i]
        /\ \E i \in DOMAIN operations' : operations'[i].token = token[t]
    BY <2>1, <2>3, AppendIs
  <2>5. UnderWay(reservation.token) => UnderWay(reservation.token)'
    BY <1>6, <2>2, <2>4 DEF UnderWay, EnqueueJob, stored
  <2>6. QED
    BY <1>6, <2>5 DEF EnqueueJob, stored
<1>7. ASSUME NEW t \in Threads, EnqueueThrows(t)
      PROVE  SlotPending'
  <2>1. \A u \in Threads \ {t} : pc'[u] = pc[u] /\ token'[u] = token[u]
    BY <1>7 DEF EnqueueThrows, Finish
  <2>2. reservation' = IF reservation.token = token[t] THEN Free ELSE reservation
    BY <1>7 DEF EnqueueThrows, Settle
  <2>3. operations' = operations /\ results' = results /\ spent'.deaths = spent.deaths
    BY <1>7 DEF EnqueueThrows, manager
  <2>4. CASE reservation.token = token[t]
    BY <2>2, <2>4 DEF Free
  <2>5. CASE reservation.token # token[t]
    BY <2>1, <2>2, <2>3, <2>5 DEF UnderWay
  <2>6. QED
    BY <2>4, <2>5
<1>8. ASSUME NEW t \in Threads, BeginPass(t)
      PROVE  SlotPending'
  <2>1. \A u \in Threads : pc[u] = "enqueue" => pc'[u] = "enqueue" /\ token'[u] = token[u]
    BY <1>8 DEF BeginPass, manager
  <2>2. QED
    BY <1>8, <2>1, StaysUnderWay DEF BeginPass, DueSlotReleased, manager, Reserved,
        Free
<1>9. ASSUME NEW t \in Threads, NoNetwork(t)
      PROVE  SlotPending'
  <2>1. \A u \in Threads : pc[u] = "enqueue" => pc'[u] = "enqueue" /\ token'[u] = token[u]
    BY <1>9 DEF NoNetwork, Request, stored, manager
  <2>2. QED
    BY <1>9, <2>1, StaysUnderWay DEF NoNetwork, Request, stored, manager
<1>10. ASSUME NEW t \in Threads, Defer(t)
      PROVE  SlotPending'
  <2>1. \A u \in Threads : pc[u] = "enqueue" => pc'[u] = "enqueue" /\ token'[u] = token[u]
    BY <1>10 DEF Defer, Request, stored, manager
  <2>2. QED
    BY <1>10, <2>1, StaysUnderWay DEF Defer, Waits, Request, stored, manager
<1>11. ASSUME NEW t \in Threads, Attempt(t)
      PROVE  SlotPending'
  <2>1. \A u \in Threads : pc[u] = "enqueue" => pc'[u] = "enqueue" /\ token'[u] = token[u]
    BY <1>11 DEF Attempt, manager
  <2>2. QED
    BY <1>11, <2>1, StaysUnderWay DEF Attempt, Waits, manager
<1>12. ASSUME NEW t \in Threads, DrainedAll(t)
      PROVE  SlotPending'
  <2>1. \A u \in Threads : pc[u] = "enqueue" => pc'[u] = "enqueue" /\ token'[u] = token[u]
    BY <1>12 DEF DrainedAll, manager
  <2>2. QED
    BY <1>12, <2>1, StaysUnderWay DEF DrainedAll, manager
<1>13. ASSUME NEW t \in Threads, DrainedSome(t)
      PROVE  SlotPending'
  <2>1. \A u \in Threads : pc[u] = "enqueue" => pc'[u] = "enqueue" /\ token'[u] = token[u]
    BY <1>13 DEF DrainedSome, Request, manager
  <2>2. QED
    BY <1>13, <2>1, StaysUnderWay DEF DrainedSome, Request, manager
<1>14. ASSUME NEW t \in Threads, DrainFailed(t)
      PROVE  SlotPending'
  <2>1. \A u \in Threads : pc[u] = "enqueue" => pc'[u] = "enqueue" /\ token'[u] = token[u]
    BY <1>14 DEF DrainFailed, Request, manager
  <2>2. QED
    BY <1>14, <2>1, StaysUnderWay DEF DrainFailed, Request, manager
<1>15. ASSUME NEW t \in Threads, CancelJob(t)
      PROVE  SlotPending'
  BY <1>15 DEF CancelJob, Free
<1>16. ASSUME NEW t \in Threads, PassThrows(t)
      PROVE  SlotPending'
  <2>1. \A u \in Threads : pc[u] = "enqueue" => pc'[u] = "enqueue" /\ token'[u] = token[u]
    BY <1>16 DEF PassThrows, Request, stored, manager
  <2>2. QED
    BY <1>16, <2>1, StaysUnderWay DEF PassThrows, Request, stored, manager
<1>17. ASSUME NEW t \in Threads, RecordRetry(t)
      PROVE  SlotPending'
  <2>1. \A u \in Threads : pc[u] = "enqueue" => pc'[u] = "enqueue" /\ token'[u] = token[u]
    BY <1>17 DEF RecordRetry, manager
  <2>2. QED
    BY <1>17, <2>1, StaysUnderWay DEF RecordRetry, Confirmed, manager, Reserved
<1>18. ASSUME NEW t \in Threads, WorkerReturns(t)
      PROVE  SlotPending'
  <2>1. [kind |-> pc[t], token |-> NoToken, delay |-> Backoff, worker |-> t] \in Operation
    BY <1>18, OperationType DEF WorkerReturns
  <2>2. \A u \in Threads : pc[u] = "enqueue" => pc'[u] = "enqueue" /\ token'[u] = token[u]
    BY <1>18 DEF WorkerReturns
  <2>3. \A i \in DOMAIN operations : i \in DOMAIN operations' /\ operations'[i] = operations[i]
    <3>1. /\ operations \in Seq(Operation)
          /\ operations' = Append(operations, [kind |-> pc[t], token |-> NoToken,
                                               delay |-> Backoff, worker |-> t])
      BY <1>18 DEF WorkerReturns, ManagerType
    <3>2. QED
      BY <2>1, <3>1, AppendIs
  <2>4. QED
    BY <1>18, <2>2, <2>3 DEF WorkerReturns, stored, UnderWay
<1>19. ASSUME NEW t \in Receivers, Broadcast(t)
      PROVE  SlotPending'
  <2>1. \A u \in Threads : pc[u] = "enqueue" => pc'[u] = "enqueue" /\ token'[u] = token[u]
    BY <1>19 DEF Broadcast, Request, stored, manager
  <2>2. QED
    BY <1>19, <2>1, StaysUnderWay DEF Broadcast, Request, stored, manager
<1>20. ASSUME NEW r \in results, Report(r)
      PROVE  SlotPending'
  <2>1. \A u \in Threads : pc[u] = "enqueue" => pc'[u] = "enqueue" /\ token'[u] = token[u]
    BY <1>20 DEF Report
  <2>2. results' = results \ {r} /\ operations' = operations /\ spent' = spent
    BY <1>20 DEF Report
  <2>3. CASE reservation.token = r.token
    BY <1>20, <2>3 DEF Report, Settle, Free
  <2>4. CASE reservation.token # r.token
    <3>1. reservation' = reservation
      BY <1>20, <2>4 DEF Report, Settle
    <3>2. UnderWay(reservation.token) => UnderWay(reservation.token)'
      BY <2>1, <2>2, <2>4, <3>1 DEF UnderWay
    <3>3. QED
      BY <2>2, <3>1, <3>2
  <2>5. QED
    BY <2>3, <2>4
<1>21. CASE ExecuteOperation
  <2>1. operations # <<>> /\ operations' = Tail(operations)
    BY <1>21 DEF ExecuteOperation
  <2>2. /\ 1 \in DOMAIN operations /\ Head(operations) = operations[1]
        /\ \A i \in DOMAIN operations : i # 1 =>
             i - 1 \in DOMAIN operations' /\ operations'[i - 1] = operations[i]
    BY <2>1, TailKeeps
  <2>3. operations[1].worker \notin Threads \/ pc[operations[1].worker] # "enqueue"
    BY <2>2, WorkerOf DEF Returning
  <2>4. \A u \in Threads : pc[u] = "enqueue" => pc'[u] = "enqueue" /\ token'[u] = token[u]
    BY <1>21, <2>2, <2>3 DEF ExecuteOperation
  <2>5. \/ operations[1].token = NoToken
        \/ \E r \in results' : r.token = operations[1].token
    <3>1. CASE operations[1].kind = "enqueue"
      <4>1. [token |-> operations[1].token, ok |-> TRUE] \in results'
        BY <1>21, <2>2, <3>1 DEF ExecuteOperation
      <4>2. QED
        BY <4>1
    <3>2. CASE operations[1].kind # "enqueue"
      BY <2>2, <3>2 DEF Attempting
    <3>3. QED
      BY <3>1, <3>2
  <2>6. results \subseteq results' /\ reservation' = reservation /\ spent' = spent
    BY <1>21 DEF ExecuteOperation, stored
  <2>7. ASSUME Reserved, UnderWay(reservation.token)
        PROVE  UnderWay(reservation.token)'
    <3>1. CASE \E u \in Threads : pc[u] = "enqueue" /\ token[u] = reservation.token
      BY <2>4, <2>6, <3>1 DEF UnderWay
    <3>2. CASE \E i \in DOMAIN operations : operations[i].token = reservation.token
      BY <2>2, <2>5, <2>6, <2>7, <3>2 DEF UnderWay, Reserved
    <3>3. CASE \E r \in results : r.token = reservation.token
      BY <2>6, <3>3 DEF UnderWay
    <3>4. QED
      BY <2>7, <3>1, <3>2, <3>3 DEF UnderWay
  <2>8. QED
    BY <2>6, <2>7
<1>22. CASE EnqueueFails
  <2>1. operations # <<>> /\ operations' = Tail(operations)
    BY <1>22 DEF EnqueueFails
  <2>2. /\ 1 \in DOMAIN operations /\ Head(operations) = operations[1]
        /\ \A i \in DOMAIN operations : i # 1 =>
             i - 1 \in DOMAIN operations' /\ operations'[i - 1] = operations[i]
    BY <2>1, TailKeeps
  <2>3. \E r \in results' : r.token = operations[1].token
    <3>1. [token |-> operations[1].token, ok |-> FALSE] \in results'
      BY <1>22, <2>2 DEF EnqueueFails
    <3>2. QED
      BY <3>1
  <2>4. results \subseteq results' /\ reservation' = reservation /\ spent'.deaths = spent.deaths
        /\ pc' = pc /\ token' = token
    BY <1>22 DEF EnqueueFails, stored, threads
  <2>5. UnderWay(reservation.token) => UnderWay(reservation.token)'
    BY <2>2, <2>3, <2>4 DEF UnderWay
  <2>6. QED
    BY <2>4, <2>5
<1>23. ASSUME NEW t \in Workers, StartWorker(t)
      PROVE  SlotPending'
  <2>1. \A u \in Threads : pc[u] = "enqueue" => pc'[u] = "enqueue" /\ token'[u] = token[u]
    BY <1>23 DEF StartWorker, stored
  <2>2. QED
    BY <1>23, <2>1, StaysUnderWay DEF StartWorker, stored
<1>24. CASE ProcessDeath
  <2>1. spent'.deaths # 0
    BY <1>24 DEF ProcessDeath
  <2>2. QED
    BY <2>1
<1>25. CASE UNCHANGED <<reservation, pc, token, operations, results, spent>>
  BY <1>25 DEF UnderWay
<1>26. QED
  BY <1>1, <1>2, <1>3, <1>4, <1>5, <1>6, <1>7, <1>8, <1>9, <1>10, <1>11, <1>12, <1>13,
      <1>14, <1>15, <1>16, <1>17, <1>18, <1>19, <1>20, <1>21, <1>22, <1>23, <1>24,
      <1>25 DEF Next, ThreadStep, RequestStep, PassStep, vars, ProcessStart, manager,
      stored, threads

(***************************************************************************)
(* A late outcome of a superseded enqueue confirms nothing, and a pending  *)
(* slot has somebody who will settle it, in every interleaving of passes,  *)
(* receivers, callbacks and WorkManager.                                   *)
(***************************************************************************)
THEOREM SlotIsOwned == Spec => []SlotHasOwner
<1> DEFINE Owned == Returning /\ GoodResults /\ SlotTrusted /\ SlotPending
<1>1. Init => Owned
  BY DEF Init, Free, Returning, GoodResults, SlotTrusted, SlotPending, Confirmed, Reserved
<1>2. Typed /\ Owned /\ [Next]_vars => Owned'
  BY ReturningStep, GoodResultsStep, SlotTrustedStep, SlotPendingStep
<1>3. Owned => SlotHasOwner
  BY DEF SlotTrusted, SlotPending, SlotHasOwner
<1>4. QED
  BY <1>1, <1>2, <1>3, TypedAlways, PTL DEF Spec

-----------------------------------------------------------------------------
(***************************************************************************)
(* Passes exclude each other.                                              *)
(***************************************************************************)
MutexHeld == \A t \in Threads : pc[t] \in {"decide", "drain", "cancel"} => mutex = t

OnePass == \A t, u \in Threads : pc[t] = "drain" /\ pc[u] = "drain" => t = u

LEMMA MutexStep ==
    ASSUME Typed, MutexHeld, [Next]_vars
    PROVE  MutexHeld'
<1> USE ConstantsAre DEF Typed, MutexHeld, ThreadsType
<1>1. CASE StartExecutorPass
  BY <1>1 DEF StartExecutorPass, stored, manager
<1>2. ASSUME NEW t \in Threads, KeepSlot(t)
      PROVE  MutexHeld'
  BY <1>2 DEF KeepSlot, Keeps, Finish, stored, manager, Confirmed, Lost, Reserved
<1>3. ASSUME NEW t \in Threads, Reserve(t)
      PROVE  MutexHeld'
  BY <1>3 DEF Reserve, Keeps, Held, Effective, Confirmed, Lost, Reserved, Larger,
      Smaller
<1>4. ASSUME NEW t \in Threads, EnqueueJob(t)
      PROVE  MutexHeld'
  BY <1>4 DEF EnqueueJob, Finish, stored
<1>5. ASSUME NEW t \in Threads, EnqueueThrows(t)
      PROVE  MutexHeld'
  BY <1>5 DEF EnqueueThrows, Settle, Finish, manager, Free
<1>6. ASSUME NEW t \in Threads, BeginPass(t)
      PROVE  MutexHeld'
  BY <1>6 DEF BeginPass, DueSlotReleased, manager, Reserved, Free
<1>7. ASSUME NEW t \in Threads, NoNetwork(t)
      PROVE  MutexHeld'
  BY <1>7 DEF NoNetwork, Request, stored, manager
<1>8. ASSUME NEW t \in Threads, Defer(t)
      PROVE  MutexHeld'
  BY <1>8 DEF Defer, Waits, Request, stored, manager
<1>9. ASSUME NEW t \in Threads, Attempt(t)
      PROVE  MutexHeld'
  BY <1>9 DEF Attempt, Waits, manager
<1>10. ASSUME NEW t \in Threads, DrainedAll(t)
      PROVE  MutexHeld'
  BY <1>10 DEF DrainedAll, manager
<1>11. ASSUME NEW t \in Threads, DrainedSome(t)
      PROVE  MutexHeld'
  BY <1>11 DEF DrainedSome, Request, manager
<1>12. ASSUME NEW t \in Threads, DrainFailed(t)
      PROVE  MutexHeld'
  BY <1>12 DEF DrainFailed, Request, manager
<1>13. ASSUME NEW t \in Threads, CancelJob(t)
      PROVE  MutexHeld'
  BY <1>13 DEF CancelJob, Free, Finish
<1>14. ASSUME NEW t \in Threads, PassThrows(t)
      PROVE  MutexHeld'
  BY <1>14 DEF PassThrows, Request, stored, manager
<1>15. ASSUME NEW t \in Threads, RecordRetry(t)
      PROVE  MutexHeld'
  BY <1>15 DEF RecordRetry, Confirmed, manager, Reserved
<1>16. ASSUME NEW t \in Threads, WorkerReturns(t)
      PROVE  MutexHeld'
  BY <1>16 DEF WorkerReturns, stored
<1>17. ASSUME NEW t \in Receivers, Broadcast(t)
      PROVE  MutexHeld'
  BY <1>17 DEF Broadcast, Request, stored, manager
<1>18. ASSUME NEW r \in results, Report(r)
      PROVE  MutexHeld'
  BY <1>18 DEF Report, Settle, Free
<1>19. CASE ExecuteOperation
  BY <1>19 DEF ExecuteOperation, JobAfter, stored, Waiting, NoJob
<1>20. ASSUME NEW t \in Workers, StartWorker(t)
      PROVE  MutexHeld'
  BY <1>20 DEF StartWorker, stored
<1>21. CASE ProcessDeath
  BY <1>21 DEF ProcessDeath, Waiting, stored
<1>22. CASE UNCHANGED <<pc, mutex>>
  BY <1>22 DEF MutexHeld
<1>23. QED
  BY <1>1, <1>2, <1>3, <1>4, <1>5, <1>6, <1>7, <1>8, <1>9, <1>10, <1>11, <1>12, <1>13,
      <1>14, <1>15, <1>16, <1>17, <1>18, <1>19, <1>20, <1>21, <1>22 DEF Next,
      ThreadStep, RequestStep, PassStep, vars, Tick, Trigger, EnqueueFails,
      ProcessStart, manager, stored, threads

(***************************************************************************)
(* The executor and the workers never drain the queue at the same time,    *)
(* which is what PositionTickQueue, with one pass, relies on.              *)
(***************************************************************************)
THEOREM PassesExclude == Spec => []OnePass
<1>1. Init => MutexHeld
  BY DEF Init, MutexHeld
<1>2. Typed /\ MutexHeld /\ [Next]_vars => MutexHeld'
  BY MutexStep
<1>3. MutexHeld => OnePass
  BY DEF MutexHeld, OnePass
<1>4. QED
  BY <1>1, <1>2, <1>3, TypedAlways, PTL DEF Spec
-----------------------------------------------------------------------------
(***************************************************************************)
(* Executor and workers alone, when no pass throws: every change of the    *)
(* slot is then made by the holder of the mutex or by the outcome of the   *)
(* attempt that owns it.  WorkManager may still refuse operations, and the *)
(* process may die.                                                        *)
(***************************************************************************)
PassesAlone == Receivers = {} /\ MaxThrows = 0

Busy == {"decide", "drain", "cancel", "request", "enqueue"}

\* Whoever is busy holds the mutex, and no retry is ever asked for.
OneBusy ==
    /\ \A t \in Threads : pc[t] \in Busy => mutex = t
    /\ \A t \in Threads : pc[t] \notin {"report", "thrown", "retry"}

\* What WorkManager is told by a worker, and who works on its job.
JobHasWorker ==
    /\ \A i \in DOMAIN operations :
         /\ operations[i].kind # "retry"
         /\ operations[i].kind = "success" => operations[i].worker # Nobody
    /\ job.state = "waiting" => job.worker = Nobody
    /\ job.state = "running" => job.worker \in Workers

\* A thread that is about to enqueue owns the slot, with a delay that covers it.
SlotAttempted ==
    \A t \in Threads : pc[t] = "enqueue" =>
        /\ reservation.token = token[t] /\ ~reservation.confirmed
        /\ reservation.at <= delay[t]
        /\ \A i \in DOMAIN operations : operations[i].token # token[t]
        /\ \A r \in results : r.token # token[t]

\* The operation that enqueues for the slot is the last that touches the job.
SlotAsked ==
    \A i \in DOMAIN operations :
        operations[i].kind = "enqueue" /\ operations[i].token = reservation.token =>
            /\ ~reservation.confirmed /\ reservation.at <= operations[i].delay
            /\ \A r \in results : r.token # reservation.token
            /\ \A j \in DOMAIN operations : j > i => operations[j].kind = "success"

\* The attempt that owns the slot has been carried out, reported or not.
Carried ==
    Reserved /\ (reservation.confirmed \/ \E r \in results : r.ok /\ r.token = reservation.token)

\* Its job then waits no shorter than the slot, or its worker is about to
\* release the slot, and no operation under way will take the job away.
SlotBacked ==
    Carried =>
        /\ job.state # "none"
        /\ job.state = "waiting" => reservation.at <= job.at
        /\ job.state = "running" => pc[job.worker] = "begin" /\ reservation.at <= 0
        /\ \A i \in DOMAIN operations : operations[i].kind = "success"

SlotServed == SlotAttempted /\ SlotAsked /\ SlotBacked

(***************************************************************************)
(* Rows that arrive while a pass cancels the job are left to the pass that *)
(* has been triggered with them.                                           *)
(***************************************************************************)
CancelIsSeen ==
    \A t \in Threads : pc[t] = "cancel" /\ rows => triggered \/ pc[Executor] = "begin"

LastWord(i) ==
    operations[i].kind = "enqueue" /\ \A j \in DOMAIN operations : j > i => operations[j].kind # "cancel"

Passing == {"begin", "decide", "drain", "request", "enqueue"}

RowsCovered ==
    alive /\ rows /\ spent.refusals = 0 =>
        \/ triggered
        \/ \E t \in Threads : pc[t] \in Passing
        \/ \E i \in DOMAIN operations : LastWord(i)
        \/ job.state = "waiting" /\ \A i \in DOMAIN operations : operations[i].kind # "cancel"

Serial ==
    Typed /\ Returning /\ OneBusy /\ JobHasWorker /\ SlotServed /\ CancelIsSeen /\ RowsCovered

(***************************************************************************)
(* The steps there are when the passes are alone.                          *)
(***************************************************************************)
LEMMA PassesAloneSteps ==
    ASSUME PassesAlone, Typed, OneBusy, [Next]_vars
    PROVE  \/ UNCHANGED vars \/ Tick \/ Trigger \/ StartExecutorPass
           \/ \E t \in Threads : KeepSlot(t)
           \/ \E t \in Threads : Reserve(t)
           \/ \E t \in Threads : EnqueueJob(t)
           \/ \E t \in Threads : EnqueueThrows(t)
           \/ \E t \in Threads : BeginPass(t)
           \/ \E t \in Threads : NoNetwork(t)
           \/ \E t \in Threads : Defer(t)
           \/ \E t \in Threads : Attempt(t)
           \/ \E t \in Threads : DrainedAll(t)
           \/ \E t \in Threads : DrainedSome(t)
           \/ \E t \in Threads : DrainFailed(t)
           \/ \E t \in Threads : CancelJob(t)
           \/ \E t \in Threads : WorkerReturns(t)
           \/ \E r \in results : Report(r)
           \/ ExecuteOperation \/ EnqueueFails
           \/ \E w \in Workers : StartWorker(w)
           \/ ProcessDeath \/ ProcessStart
<1>1. ASSUME NEW t \in Threads
      PROVE  ~PassThrows(t) /\ ~RecordRetry(t)
  <2>1. ~(spent.throws < MaxThrows)
    BY DEF Typed, SpentType, PassesAlone
  <2>2. pc[t] # "thrown"
    BY DEF OneBusy
  <2>3. QED
    BY <2>1, <2>2 DEF PassThrows, RecordRetry
<1>2. ~(\E r \in Receivers : Broadcast(r))
  BY DEF PassesAlone
<1>3. QED
  BY <1>1, <1>2, ZenonT(60) DEF Next, ThreadStep, RequestStep, PassStep

LEMMA OneBusyStep ==
    ASSUME PassesAlone, Typed, OneBusy, [Next]_vars
    PROVE  OneBusy'
<1> USE ConstantsAre DEF Typed, ThreadsType, OneBusy, Busy
<1>1. CASE StartExecutorPass
  BY <1>1 DEF StartExecutorPass
<1>2. ASSUME NEW t \in Threads, KeepSlot(t)
      PROVE  OneBusy'
  BY <1>2 DEF KeepSlot, Finish
<1>3. ASSUME NEW t \in Threads, Reserve(t)
      PROVE  OneBusy'
  BY <1>3 DEF Reserve
<1>4. ASSUME NEW t \in Threads, EnqueueJob(t)
      PROVE  OneBusy'
  BY <1>4 DEF EnqueueJob, Finish, PassesAlone
<1>5. ASSUME NEW t \in Threads, EnqueueThrows(t)
      PROVE  OneBusy'
  BY <1>5 DEF EnqueueThrows, Finish
<1>6. ASSUME NEW t \in Threads, BeginPass(t)
      PROVE  OneBusy'
  BY <1>6 DEF BeginPass
<1>7. ASSUME NEW t \in Threads, NoNetwork(t) \/ Defer(t) \/ Attempt(t)
      PROVE  OneBusy'
  BY <1>7 DEF NoNetwork, Defer, Attempt, Request
<1>8. ASSUME NEW t \in Threads, DrainedAll(t) \/ DrainedSome(t) \/ DrainFailed(t)
      PROVE  OneBusy'
  BY <1>8 DEF DrainedAll, DrainedSome, DrainFailed, Request
<1>9. ASSUME NEW t \in Threads, CancelJob(t)
      PROVE  OneBusy'
  BY <1>9 DEF CancelJob, Finish
<1>10. ASSUME NEW t \in Threads, WorkerReturns(t)
       PROVE  OneBusy'
  BY <1>10 DEF WorkerReturns
<1>11. ASSUME NEW r \in results, Report(r)
       PROVE  OneBusy'
  BY <1>11 DEF Report
<1>12. CASE ExecuteOperation
  BY <1>12 DEF ExecuteOperation
<1>13. ASSUME NEW w \in Workers, StartWorker(w)
       PROVE  OneBusy'
  BY <1>13 DEF StartWorker
<1>14. CASE ProcessDeath
  BY <1>14 DEF ProcessDeath
<1>15. CASE UNCHANGED <<pc, mutex>>
  BY <1>15
<1>16. QED
  BY <1>1, <1>2, <1>3, <1>4, <1>5, <1>6, <1>7, <1>8, <1>9, <1>10, <1>11, <1>12, <1>13,
      <1>14, <1>15, PassesAloneSteps, ZenonT(60) DEF Tick, Trigger, EnqueueFails, ProcessStart,
      threads, vars

LEMMA JobHasWorkerStep ==
    ASSUME PassesAlone, Typed, OneBusy, JobHasWorker, [Next]_vars
    PROVE  JobHasWorker'
<1> USE ConstantsAre DEF Typed, ManagerType, JobHasWorker
<1>1. CASE UNCHANGED <<job, operations>>
  BY <1>1
<1>2. CASE Tick
  BY <1>2 DEF Tick
<1>3. ASSUME NEW t \in Threads, EnqueueJob(t)
      PROVE  JobHasWorker'
  <2>1. [kind |-> "enqueue", token |-> token[t], delay |-> delay[t], worker |-> Nobody]
          \in Operation
    BY OperationType DEF ThreadsType
  <2>2. QED
    BY <1>3, <2>1, AppendKeeps DEF EnqueueJob
<1>4. ASSUME NEW t \in Threads, CancelJob(t)
      PROVE  JobHasWorker'
  <2>1. [kind |-> "cancel", token |-> NoToken, delay |-> 0, worker |-> Nobody] \in Operation
    BY OperationType
  <2>2. CASE operations' = Append(operations, [kind |-> "cancel", token |-> NoToken,
                                               delay |-> 0, worker |-> Nobody])
    BY <1>4, <2>1, <2>2, AppendKeeps DEF CancelJob
  <2>3. QED
    BY <1>4, <2>2, <1>1 DEF CancelJob
<1>5. ASSUME NEW t \in Threads, WorkerReturns(t)
      PROVE  JobHasWorker'
  <2>1. pc[t] = "success" /\ t # Nobody
    BY <1>5 DEF WorkerReturns, OneBusy
  <2>2. [kind |-> "success", token |-> NoToken, delay |-> Backoff, worker |-> t] \in Operation
    BY <1>5, OperationType DEF WorkerReturns
  <2>3. QED
    BY <1>5, <2>1, <2>2, AppendKeeps DEF WorkerReturns
<1>6. CASE ExecuteOperation
  <2>1. \A i \in DOMAIN operations' :
          i + 1 \in DOMAIN operations /\ operations'[i] = operations[i + 1]
    BY <1>6, TailKeeps DEF ExecuteOperation
  <2>2. job' = job \/ job' = NoJob \/ \E d : job' = Waiting(d)
    <3>1. Head(operations) \in Operation /\ Head(operations).kind # "retry"
      BY <1>6, NextOperation, TailKeeps DEF ExecuteOperation
    <3>2. Head(operations).kind \in {"enqueue", "cancel", "success"}
      BY <3>1 DEF Operation
    <3>3. QED
      BY <1>6, <3>2 DEF ExecuteOperation, JobAfter
  <2>3. QED
    BY <2>1, <2>2 DEF NoJob, Waiting
<1>7. CASE EnqueueFails
  <2>1. \A i \in DOMAIN operations' :
          i + 1 \in DOMAIN operations /\ operations'[i] = operations[i + 1]
    BY <1>7, TailKeeps DEF EnqueueFails
  <2>2. QED
    BY <1>7, <2>1 DEF EnqueueFails
<1>8. ASSUME NEW w \in Workers, StartWorker(w)
      PROVE  JobHasWorker'
  BY <1>8 DEF StartWorker
<1>9. CASE ProcessDeath
  BY <1>9 DEF ProcessDeath, Waiting
<1>10. QED
  BY <1>1, <1>2, <1>3, <1>4, <1>5, <1>6, <1>7, <1>8, <1>9, PassesAloneSteps, ZenonT(60)
      DEF Trigger, StartExecutorPass, KeepSlot, Reserve, EnqueueThrows, BeginPass, NoNetwork,
      Defer, Attempt, DrainedAll, DrainedSome, DrainFailed, Report, ProcessStart, manager, vars

(***************************************************************************)
(* Most steps leave slot, job and operations alone, and no thread comes to *)
(* the point where it enqueues or leaves the one where its pass begins.    *)
(***************************************************************************)
Undisturbed ==
    /\ UNCHANGED <<reservation, job, operations, results>>
    /\ \A u \in Threads : pc'[u] = "enqueue" =>
         pc[u] = "enqueue" /\ token'[u] = token[u] /\ delay'[u] = delay[u]
    /\ \A u \in Threads : pc[u] = "begin" => pc'[u] = "begin"

LEMMA UndisturbedKeeps ==
    ASSUME JobHasWorker, SlotServed, Undisturbed
    PROVE  SlotServed'
<1> USE ConstantsAre DEF Undisturbed, SlotServed
<1>1. SlotAttempted'
  BY DEF SlotAttempted
<1>2. SlotAsked'
  BY DEF SlotAsked
<1>3. SlotBacked'
  <2>1. Carried' => Carried
    BY DEF Carried, Reserved
  <2>2. job.state = "running" => job.worker \in Threads
    BY DEF JobHasWorker
  <2>3. QED
    BY <2>1, <2>2 DEF SlotBacked
<1>4. QED
  BY <1>1, <1>2, <1>3

LEMMA UndisturbedSteps ==
    ASSUME Typed
    PROVE  /\ StartExecutorPass => Undisturbed
           /\ \A t \in Threads :
                /\ KeepSlot(t) => Undisturbed
                /\ NoNetwork(t) \/ Defer(t) \/ Attempt(t) => Undisturbed
                /\ DrainedAll(t) \/ DrainedSome(t) \/ DrainFailed(t) => Undisturbed
           /\ Trigger \/ ProcessStart \/ UNCHANGED vars => Undisturbed
<1> USE ConstantsAre DEF Typed, ThreadsType, Undisturbed, manager, stored, threads
<1>1. StartExecutorPass => Undisturbed
  BY DEF StartExecutorPass
<1>2. ASSUME NEW t \in Threads
      PROVE  /\ KeepSlot(t) => Undisturbed
             /\ NoNetwork(t) \/ Defer(t) \/ Attempt(t) => Undisturbed
             /\ DrainedAll(t) \/ DrainedSome(t) \/ DrainFailed(t) => Undisturbed
  <2>1. KeepSlot(t) => Undisturbed
    BY DEF KeepSlot, Finish
  <2>2. NoNetwork(t) \/ Defer(t) => Undisturbed
    BY DEF NoNetwork, Defer, Request
  <2>3. Attempt(t) \/ DrainedAll(t) => Undisturbed
    BY DEF Attempt, DrainedAll
  <2>4. DrainedSome(t) \/ DrainFailed(t) => Undisturbed
    BY DEF DrainedSome, DrainFailed, Request
  <2>5. QED
    BY <2>1, <2>2, <2>3, <2>4
<1>3. Trigger \/ ProcessStart \/ UNCHANGED vars => Undisturbed
  BY DEF Trigger, ProcessStart, vars
<1>4. QED
  BY <1>1, <1>2, <1>3

(***************************************************************************)
(* A slot that has been given up asks for nothing any more.                *)
(***************************************************************************)
LEMMA FreeIsServed ==
    ASSUME Typed', reservation' = Free, \A u \in Threads : pc'[u] # "enqueue"
    PROVE  SlotServed'
<1>1. ~Reserved' /\ reservation'.token = NoToken
  BY DEF Free, Reserved
<1>2. SlotAsked'
  BY <1>1, ConstantsAre DEF SlotAsked, Typed, Attempting
<1>3. QED
  BY <1>1, <1>2 DEF SlotServed, SlotAttempted, SlotBacked, Carried

LEMMA TickServed ==
    ASSUME Typed, SlotServed, Tick
    PROVE  SlotServed'
<1> USE ConstantsAre DEF Typed, StoredType, ManagerType, ThreadsType, SlotServed, threads
<1>1. UNCHANGED <<pc, token, delay, operations, results>>
  BY DEF Tick
<1>2. /\ reservation'.token = reservation.token /\ reservation'.confirmed = reservation.confirmed
      /\ Reserved' = Reserved
  BY DEF Tick, Reserved
<1>3. Reserved => \A n \in Nat : reservation.at <= n =>
         reservation'.at <= n /\ reservation'.at <= Larger(n - 1, 0)
  <2>1. Reserved => reservation'.at = Larger(reservation.at - 1, -LostAfter - 1)
    BY DEF Tick, Reserved
  <2>2. reservation.at \in Int
    OBVIOUS
  <2>3. QED
    BY <2>1, <2>2 DEF Larger
<1>4. job' = [job EXCEPT !.at = Larger(job.at - 1, 0)] /\ job.at \in Nat
  BY DEF Tick
<1>5. SlotAttempted'
  <2>1. \A t \in Threads : pc[t] = "enqueue" => Reserved /\ delay[t] \in Nat
    BY DEF SlotAttempted, Attempting, Reserved
  <2>2. QED
    BY <1>1, <1>2, <1>3, <2>1 DEF SlotAttempted
<1>6. SlotAsked'
  <2>1. \A i \in DOMAIN operations : operations[i].delay \in Nat
    <3>1. \A i \in DOMAIN operations : operations[i] \in Operation
      OBVIOUS
    <3>2. QED
      BY <3>1 DEF Operation
  <2>2. \A i \in DOMAIN operations :
          operations[i].kind = "enqueue" /\ operations[i].token = reservation.token => Reserved
    BY DEF Attempting, Reserved
  <2>3. QED
    BY <1>1, <1>2, <1>3, <2>1, <2>2 DEF SlotAsked
<1>7. SlotBacked'
  <2>1. Carried' => Carried /\ Reserved
    BY <1>1, <1>2 DEF Carried
  <2>2. Reserved /\ reservation.at <= 0 => reservation'.at <= 0
    BY <1>3
  <2>3. Reserved /\ reservation.at <= job.at => reservation'.at <= job'.at
    BY <1>3, <1>4
  <2>4. job'.state = job.state /\ job'.worker = job.worker
    BY <1>4
  <2>5. QED
    BY <1>1, <2>1, <2>2, <2>3, <2>4 DEF SlotBacked
<1>8. QED
  BY <1>5, <1>6, <1>7

LEMMA ReserveServed ==
    ASSUME Typed, OneBusy, NEW t \in Threads, Reserve(t)
    PROVE  SlotServed'
<1> USE ConstantsAre
<1>1. PICK fresh \in Tokens \ Held :
         /\ reservation' = [at |-> Effective(t), token |-> fresh, confirmed |-> FALSE]
         /\ token' = [token EXCEPT ![t] = fresh]
  BY FreshToken DEF Reserve
<1>2. /\ reservation'.at = Effective(t) /\ reservation'.token = fresh
      /\ ~reservation'.confirmed
  BY <1>1
<1>3. delay' = [delay EXCEPT ![t] = Effective(t)] /\ pc' = [pc EXCEPT ![t] = "enqueue"]
      /\ UNCHANGED <<operations, results>>
  BY DEF Reserve
<1>4. \A u \in Threads : pc'[u] = "enqueue" => u = t
  BY <1>3 DEF Typed, ThreadsType, OneBusy, Busy, Reserve
<1>5. Effective(t) \in Nat
  BY EffectiveType
<1>6. /\ \A i \in DOMAIN operations : operations[i].token # fresh
      /\ \A r \in results : r.token # fresh
  BY <1>1 DEF Held
<1>7. SlotAttempted'
  BY <1>1, <1>2, <1>3, <1>4, <1>5, <1>6 DEF SlotAttempted, Typed, ThreadsType
<1>8. SlotAsked'
  BY <1>2, <1>3, <1>6 DEF SlotAsked
<1>9. ~Carried'
  BY <1>2, <1>3, <1>6 DEF Carried
<1>10. QED
  BY <1>7, <1>8, <1>9 DEF SlotServed, SlotBacked

LEMMA EnqueueServed ==
    ASSUME Typed, OneBusy, SlotServed, NEW t \in Threads, EnqueueJob(t)
    PROVE  SlotServed'
<1> USE ConstantsAre
<1>1. [kind |-> "enqueue", token |-> token[t], delay |-> delay[t], worker |-> Nobody]
        \in Operation
  BY OperationType DEF Typed, ThreadsType
<1>2. \A i \in DOMAIN operations' :
         \/ i \in DOMAIN operations /\ operations'[i] = operations[i]
         \/ /\ i \notin DOMAIN operations /\ operations'[i].kind = "enqueue"
            /\ operations'[i].token = token[t] /\ operations'[i].delay = delay[t]
  BY <1>1, AppendKeeps DEF EnqueueJob
<1>3. /\ pc[t] = "enqueue" /\ reservation.token = token[t] /\ ~reservation.confirmed
      /\ reservation.at <= delay[t]
      /\ \A i \in DOMAIN operations : operations[i].token # token[t]
      /\ \A r \in results : r.token # token[t]
  BY DEF SlotServed, SlotAttempted, EnqueueJob
<1>4. UNCHANGED <<reservation, results>>
  BY DEF EnqueueJob, stored
<1>5. \A u \in Threads : pc'[u] # "enqueue"
  BY DEF EnqueueJob, Finish, Typed, ThreadsType, OneBusy, Busy
<1>6. SlotAsked'
  <2>1. SUFFICES ASSUME NEW i \in DOMAIN operations', operations'[i].token = token[t]
                 PROVE  /\ reservation.at <= operations'[i].delay
                        /\ \A j \in DOMAIN operations' : ~(j > i)
    BY <1>3, <1>4 DEF SlotAsked
  <2>2. i \notin DOMAIN operations /\ operations'[i].delay = delay[t]
    BY <1>2, <1>3, <2>1
  <2>3. operations \in Seq(Operation) /\ operations' = Append(operations,
          [kind |-> "enqueue", token |-> token[t], delay |-> delay[t], worker |-> Nobody])
    BY DEF EnqueueJob, Typed, ManagerType
  <2>4. DOMAIN operations = 1 .. Len(operations) /\ Len(operations) \in Nat
        /\ DOMAIN operations' = 1 .. Len(operations) + 1
    BY <1>1, <2>3, AppendIs
  <2>5. QED
    BY <1>3, <2>2, <2>4
<1>7. ~Carried'
  BY <1>3, <1>4 DEF Carried
<1>8. QED
  BY <1>5, <1>6, <1>7 DEF SlotServed, SlotAttempted, SlotBacked

LEMMA EnqueueThrowsServed ==
    ASSUME Typed, Typed', OneBusy, SlotServed, NEW t \in Threads, EnqueueThrows(t)
    PROVE  SlotServed'
<1>1. reservation' = Free
  BY DEF EnqueueThrows, Settle, SlotServed, SlotAttempted
<1>2. \A u \in Threads : pc'[u] # "enqueue"
  BY DEF EnqueueThrows, Finish, Typed, ThreadsType, OneBusy, Busy
<1>3. QED
  BY <1>1, <1>2, FreeIsServed

LEMMA CancelServed ==
    ASSUME Typed, Typed', OneBusy, NEW t \in Threads, CancelJob(t)
    PROVE  SlotServed'
<1>1. reservation' = Free
  BY DEF CancelJob
<1>2. \A u \in Threads : pc'[u] # "enqueue"
  BY DEF CancelJob, Finish, Typed, ThreadsType, OneBusy, Busy
<1>3. QED
  BY <1>1, <1>2, FreeIsServed

LEMMA BeginServed ==
    ASSUME Typed, Typed', OneBusy, JobHasWorker, SlotServed, NEW t \in Threads, BeginPass(t)
    PROVE  SlotServed'
<1> USE ConstantsAre
<1>1. \A u \in Threads : pc[u] # "enqueue" /\ pc'[u] # "enqueue"
  BY DEF BeginPass, Typed, ThreadsType, OneBusy, Busy
<1>2. CASE reservation' = Free
  BY <1>1, <1>2, FreeIsServed
<1>3. CASE reservation' = reservation /\ reservation # Free
  <2>1. UNCHANGED <<reservation, job, operations, results>>
    BY <1>3 DEF BeginPass, manager
  <2>2. Carried' => Carried
    BY <2>1 DEF Carried, Reserved
  <2>3. Carried /\ job.state = "running" => pc'[job.worker] = "begin"
    <3>1. SUFFICES ASSUME Carried, job.state = "running"
                   PROVE  pc'[job.worker] = "begin"
      OBVIOUS
    <3>2. job.worker \in Workers /\ pc[job.worker] = "begin" /\ reservation.at <= 0
      BY <3>1 DEF SlotServed, SlotBacked, JobHasWorker
    <3>3. t # job.worker
      BY <1>3, <3>1, <3>2 DEF BeginPass, DueSlotReleased, Carried
    <3>4. QED
      BY <3>2, <3>3 DEF BeginPass, Typed, ThreadsType
  <2>4. SlotAsked' /\ SlotAttempted'
    BY <1>1, <2>1 DEF SlotServed, SlotAsked, SlotAttempted
  <2>5. QED
    BY <2>1, <2>2, <2>3, <2>4 DEF SlotServed, SlotBacked
<1>4. QED
  BY <1>2, <1>3 DEF BeginPass, DueSlotReleased

LEMMA ReturnsServed ==
    ASSUME Typed, OneBusy, JobHasWorker, SlotServed, NEW t \in Threads, WorkerReturns(t)
    PROVE  SlotServed'
<1> USE ConstantsAre
<1>1. pc[t] = "success" /\ pc' = [pc EXCEPT ![t] = "returned"] /\ t \in Workers
  BY DEF WorkerReturns, OneBusy
<1>2. [kind |-> "success", token |-> NoToken, delay |-> Backoff, worker |-> t] \in Operation
  BY <1>1, OperationType
<1>3. \A i \in DOMAIN operations' :
         \/ i \in DOMAIN operations /\ operations'[i] = operations[i]
         \/ operations'[i].kind = "success" /\ operations'[i].token = NoToken
  BY <1>1, <1>2, AppendKeeps DEF WorkerReturns
<1>4. UNCHANGED <<reservation, results, job, token, delay>>
  BY DEF WorkerReturns, stored
<1>5. SlotAttempted'
  BY <1>1, <1>3, <1>4 DEF SlotServed, SlotAttempted, Typed, ThreadsType, Attempting
<1>6. SlotAsked'
  BY <1>3, <1>4 DEF SlotServed, SlotAsked
<1>7. SlotBacked'
  <2>1. Carried' => Carried
    BY <1>4 DEF Carried, Reserved
  <2>2. job.state = "running" => job.worker \in Threads
    BY DEF JobHasWorker
  <2>3. QED
    BY <1>1, <1>3, <1>4, <2>1, <2>2 DEF SlotServed, SlotBacked, Typed, ThreadsType
<1>8. QED
  BY <1>5, <1>6, <1>7 DEF SlotServed

(***************************************************************************)
(* An outcome that is reported to a slot is of the attempt that owns it;   *)
(* nobody is then about to enqueue for it and nothing is left to execute.  *)
(***************************************************************************)
LEMMA ReportServed ==
    ASSUME PassesAlone, Typed, Typed', OneBusy, JobHasWorker, SlotServed,
           NEW r \in results, Report(r)
    PROVE  SlotServed'
<1> USE ConstantsAre
<1>1. pc' = pc /\ token' = token /\ UNCHANGED <<job, operations, delay>>
  BY DEF Report, PassesAlone, Typed, ThreadsType
<1>2. results' \subseteq results
  BY DEF Report
<1>3. CASE reservation.token # r.token
  <2>1. reservation' = reservation
    BY <1>3 DEF Report, Settle
  <2>2. Carried' => Carried
    BY <1>2, <2>1 DEF Carried, Reserved
  <2>3. QED
    BY <1>1, <1>2, <2>1, <2>2 DEF SlotServed, SlotAttempted, SlotAsked, SlotBacked
<1>4. CASE reservation.token = r.token
  <2>1. \A u \in Threads : pc'[u] # "enqueue"
    BY <1>1, <1>4 DEF SlotServed, SlotAttempted
  <2>2. CASE ~r.ok
    <3>1. reservation' = Free
      BY <1>4, <2>2 DEF Report, Settle
    <3>2. QED
      BY <2>1, <3>1, FreeIsServed
  <2>3. CASE r.ok
    <3>1. reservation' = [reservation EXCEPT !.confirmed = TRUE]
      BY <1>4, <2>3 DEF Report, Settle
    <3>2. reservation'.at = reservation.at /\ reservation'.token = reservation.token
      BY <3>1 DEF Typed, StoredType
    <3>3. Reserved
      BY <1>4 DEF Reserved, Typed, ManagerType
    <3>4. Carried
      BY <1>4, <2>3, <3>3 DEF Carried
    <3>5. SlotAsked'
      BY <1>1, <1>4, <3>2 DEF SlotServed, SlotAsked
    <3>6. SlotBacked'
      BY <1>1, <3>2, <3>4 DEF SlotServed, SlotBacked
    <3>7. QED
      BY <2>1, <3>5, <3>6 DEF SlotServed, SlotAttempted
  <2>4. QED
    BY <2>2, <2>3
<1>5. QED
  BY <1>3, <1>4

LEMMA ExecuteServed ==
    ASSUME Typed, Returning, OneBusy, JobHasWorker, SlotServed, ExecuteOperation
    PROVE  SlotServed'
<1> USE ConstantsAre
<1> DEFINE head == operations[1]
<1>1. /\ operations' = Tail(operations) /\ operations # <<>> /\ Head(operations) = head
      /\ 1 \in DOMAIN operations /\ DOMAIN operations \subseteq Nat
      /\ \A i \in DOMAIN operations' :
           i + 1 \in DOMAIN operations /\ operations'[i] = operations[i + 1]
  BY TailKeeps DEF ExecuteOperation
<1>2. UNCHANGED <<reservation, token, delay>>
  BY DEF ExecuteOperation, stored
<1>3. head.kind \in {"enqueue", "cancel", "success"}
  <2>1. head \in Operation /\ head.kind # "retry"
    BY <1>1, NextOperation DEF JobHasWorker
  <2>2. QED
    BY <2>1 DEF Operation
<1>4. \A u \in Threads : pc'[u] = pc[u] \/ (u = head.worker /\ pc[u] = "returned" /\ pc'[u] = "idle")
  BY <1>1 DEF ExecuteOperation, Returning, Typed, ThreadsType
<1>5. DOMAIN operations' \subseteq Nat
  BY <1>1, TailIs DEF Typed, ManagerType
<1>6. ASSUME NEW i \in DOMAIN operations',
             operations'[i].kind = "enqueue", operations'[i].token = reservation.token
      PROVE  /\ ~reservation.confirmed /\ reservation.at <= operations'[i].delay
             /\ \A r \in results : r.token # reservation.token
             /\ \A j \in DOMAIN operations' : j > i => operations'[j].kind = "success"
             /\ ~(head.kind = "enqueue" /\ head.token = reservation.token)
  <2>1. i + 1 \in DOMAIN operations /\ operations'[i] = operations[i + 1] /\ i + 1 > 1
    BY <1>1, <1>5
  <2>2. \A j \in DOMAIN operations' : j > i =>
          j + 1 \in DOMAIN operations /\ operations'[j] = operations[j + 1] /\ j + 1 > i + 1
    BY <1>1, <1>5
  <2>3. QED
    BY <1>1, <1>6, <2>1, <2>2 DEF SlotServed, SlotAsked
<1>7. CASE head.kind = "enqueue"
  <2>1. /\ job' = Waiting(head.delay)
        /\ results' = results \cup {[token |-> head.token, ok |-> TRUE]}
    <3>1. /\ job' = JobAfter(head)
          /\ results' = results \cup {[token |-> head.token, ok |-> TRUE]}
      BY <1>1, <1>7 DEF ExecuteOperation
    <3>2. QED
      BY <1>7, <3>1 DEF JobAfter
  <2>2. \A r \in results' : r \in results \/ r.token = head.token
    BY <2>1
  <2>3. SlotAttempted'
    BY <1>1, <1>2, <1>4, <2>2 DEF SlotServed, SlotAttempted
  <2>4. SlotAsked'
    BY <1>2, <1>6, <1>7, <2>2 DEF SlotAsked
  <2>5. Carried' => head.token = reservation.token
    <3>1. ~Carried
      BY <1>1, <1>7 DEF SlotServed, SlotBacked
    <3>2. QED
      BY <1>2, <2>2, <3>1 DEF Carried, Reserved
  <2>6. SlotBacked'
    <3>1. SUFFICES ASSUME head.token = reservation.token
                   PROVE  /\ reservation.at <= head.delay
                          /\ \A i \in DOMAIN operations' : operations'[i].kind = "success"
      BY <1>2, <2>1, <2>5 DEF SlotBacked, Waiting
    <3>2. /\ reservation.at <= head.delay
          /\ \A j \in DOMAIN operations : j > 1 => operations[j].kind = "success"
      BY <1>1, <1>7, <3>1 DEF SlotServed, SlotAsked
    <3>3. \A i \in DOMAIN operations' : i + 1 > 1
      BY <1>1, TailIs DEF Typed, ManagerType
    <3>4. QED
      BY <1>1, <3>2, <3>3
  <2>7. QED
    BY <2>3, <2>4, <2>6 DEF SlotServed
<1>8. CASE head.kind # "enqueue"
  <2>1. results' = results
    BY <1>1, <1>8 DEF ExecuteOperation
  <2>2. SlotAttempted'
    BY <1>1, <1>2, <1>4, <2>1 DEF SlotServed, SlotAttempted
  <2>3. SlotAsked'
    BY <1>2, <1>6, <2>1 DEF SlotAsked
  <2>4. SlotBacked'
    <3>1. SUFFICES ASSUME Carried
                   PROVE  SlotBacked'
      BY <1>2, <2>1 DEF SlotBacked, Carried, Reserved
    <3>2. head.kind = "success" /\ head.worker # Nobody
      BY <1>1, <3>1 DEF SlotServed, SlotBacked, JobHasWorker
    <3>3. pc[head.worker] = "returned"
      BY <1>1, <3>2 DEF Returning
    <3>4. job.state \in {"none", "waiting", "running"}
      BY DEF Typed, ManagerType
    <3>5. job.worker # head.worker
      BY <3>1, <3>2, <3>3, <3>4 DEF SlotServed, SlotBacked, JobHasWorker
    <3>6. job' = job
      <4>1. job' = JobAfter(head)
        BY <1>1 DEF ExecuteOperation
      <4>2. QED
        BY <3>2, <3>5, <4>1 DEF JobAfter
    <3>7. \A i \in DOMAIN operations' : operations'[i].kind = "success"
      BY <1>1, <3>1 DEF SlotServed, SlotBacked
    <3>8. job.state = "running" => job.worker \in Threads /\ pc'[job.worker] = "begin"
      BY <1>4, <3>1 DEF SlotServed, SlotBacked, JobHasWorker
    <3>9. QED
      BY <1>2, <3>1, <3>6, <3>7, <3>8 DEF SlotServed, SlotBacked
  <2>5. QED
    BY <2>2, <2>3, <2>4 DEF SlotServed
<1>9. QED
  BY <1>7, <1>8

LEMMA FailsServed ==
    ASSUME Typed, SlotServed, EnqueueFails
    PROVE  SlotServed'
<1> USE ConstantsAre
<1> DEFINE head == operations[1]
<1>1. /\ Head(operations) = head /\ head.kind = "enqueue"
      /\ 1 \in DOMAIN operations /\ DOMAIN operations \subseteq Nat
      /\ \A i \in DOMAIN operations' :
           i + 1 \in DOMAIN operations /\ operations'[i] = operations[i + 1]
  BY TailKeeps DEF EnqueueFails
<1>2. UNCHANGED <<reservation, job, pc, token, delay>>
  BY DEF EnqueueFails, stored, threads
<1>3. \A r \in results' : r \in results \/ (r.token = head.token /\ ~r.ok)
  BY <1>1 DEF EnqueueFails
<1>4. DOMAIN operations' \subseteq Nat /\ \A i \in DOMAIN operations' : i + 1 > 1
  BY TailIs DEF EnqueueFails, Typed, ManagerType
<1>5. SlotAttempted'
  BY <1>1, <1>2, <1>3 DEF SlotServed, SlotAttempted
<1>6. SlotAsked'
  <2>1. SUFFICES ASSUME NEW i \in DOMAIN operations',
                        operations'[i].kind = "enqueue", operations'[i].token = reservation.token
                 PROVE  /\ ~reservation.confirmed /\ reservation.at <= operations'[i].delay
                        /\ \A r \in results' : r.token # reservation.token
                        /\ \A j \in DOMAIN operations' : j > i => operations'[j].kind = "success"
    BY <1>2 DEF SlotAsked
  <2>2. i + 1 \in DOMAIN operations /\ operations'[i] = operations[i + 1] /\ i + 1 > 1
    BY <1>1, <1>4
  <2>3. \A j \in DOMAIN operations' : j > i =>
          j + 1 \in DOMAIN operations /\ operations'[j] = operations[j + 1] /\ j + 1 > i + 1
    BY <1>1, <1>4
  <2>4. head.token # reservation.token
    BY <1>1, <2>1, <2>2 DEF SlotServed, SlotAsked
  <2>5. QED
    BY <1>3, <2>1, <2>2, <2>3, <2>4 DEF SlotServed, SlotAsked
<1>7. ~Carried'
  <2>1. ~Carried
    BY <1>1 DEF SlotServed, SlotBacked
  <2>2. QED
    BY <1>2, <1>3, <2>1 DEF Carried, Reserved
<1>8. QED
  BY <1>5, <1>6, <1>7 DEF SlotServed, SlotBacked

LEMMA StartServed ==
    ASSUME Typed, SlotServed, NEW w \in Workers, StartWorker(w)
    PROVE  SlotServed'
<1> USE ConstantsAre
<1>1. UNCHANGED <<reservation, operations, results, token, delay>>
  BY DEF StartWorker, stored
<1>2. pc' = [pc EXCEPT ![w] = "begin"] /\ job.state = "waiting" /\ job.at = 0
      /\ job' = [state |-> "running", at |-> 0, worker |-> w]
  BY DEF StartWorker
<1>3. Carried' => Carried
  BY <1>1 DEF Carried, Reserved
<1>4. SlotAttempted' /\ SlotAsked'
  BY <1>1, <1>2 DEF SlotServed, SlotAttempted, SlotAsked, Typed, ThreadsType
<1>5. SlotBacked'
  BY <1>1, <1>2, <1>3 DEF SlotServed, SlotBacked, Typed, ThreadsType
<1>6. QED
  BY <1>4, <1>5 DEF SlotServed

LEMMA DeathServed ==
    ASSUME Typed, SlotServed, ProcessDeath
    PROVE  SlotServed'
<1>1. operations' = <<>> /\ results' = {} /\ reservation' = reservation
      /\ \A t \in Threads : pc'[t] = "idle"
  BY DEF ProcessDeath, stored
<1>2. SlotAttempted' /\ SlotAsked'
  BY <1>1 DEF SlotAttempted, SlotAsked
<1>3. Carried' => Carried
  BY <1>1 DEF Carried, Reserved
<1>4. job' = IF job.state = "running" THEN Waiting(0) ELSE job
  BY DEF ProcessDeath
<1>5. Waiting(0).state = "waiting" /\ Waiting(0).at = 0
  BY DEF Waiting
<1>6. SlotBacked'
  BY <1>1, <1>3, <1>4, <1>5 DEF SlotServed, SlotBacked
<1>7. QED
  BY <1>2, <1>6 DEF SlotServed

LEMMA SlotServedStep ==
    ASSUME PassesAlone, Typed, Typed', Returning, OneBusy, JobHasWorker, SlotServed, [Next]_vars
    PROVE  SlotServed'
<1>1. CASE Undisturbed
  BY <1>1, UndisturbedKeeps
<1>2. CASE Tick
  BY <1>2, TickServed
<1>3. CASE \E t \in Threads : Reserve(t)
  BY <1>3, ReserveServed
<1>4. CASE \E t \in Threads : EnqueueJob(t)
  BY <1>4, EnqueueServed
<1>5. CASE \E t \in Threads : EnqueueThrows(t)
  BY <1>5, EnqueueThrowsServed
<1>6. CASE \E t \in Threads : BeginPass(t)
  BY <1>6, BeginServed
<1>7. CASE \E t \in Threads : CancelJob(t)
  BY <1>7, CancelServed
<1>8. CASE \E t \in Threads : WorkerReturns(t)
  BY <1>8, ReturnsServed
<1>9. CASE \E r \in results : Report(r)
  BY <1>9, ReportServed
<1>10. CASE ExecuteOperation
  BY <1>10, ExecuteServed
<1>11. CASE EnqueueFails
  BY <1>11, FailsServed
<1>12. CASE \E w \in Workers : StartWorker(w)
  BY <1>12, StartServed
<1>13. CASE ProcessDeath
  BY <1>13, DeathServed
<1>14. QED
  BY <1>1, <1>2, <1>3, <1>4, <1>5, <1>6, <1>7, <1>8, <1>9, <1>10, <1>11, <1>12, <1>13,
      PassesAloneSteps, UndisturbedSteps, ZenonT(60)

-----------------------------------------------------------------------------
LEMMA CancelIsSeenStep ==
    ASSUME PassesAlone, Typed, Returning, OneBusy, CancelIsSeen, [Next]_vars
    PROVE  CancelIsSeen'
<1> USE ConstantsAre DEF Typed, ThreadsType, CancelIsSeen
<1>1. CASE UNCHANGED <<rows, pc, triggered>>
  BY <1>1
<1>2. CASE Trigger \/ ProcessStart \/ ProcessDeath
  BY <1>2 DEF Trigger, ProcessStart, ProcessDeath
<1>3. CASE StartExecutorPass
  BY <1>3 DEF StartExecutorPass, stored
<1>4. ASSUME NEW t \in Threads, KeepSlot(t) \/ Reserve(t) \/ EnqueueJob(t) \/ EnqueueThrows(t)
      PROVE  CancelIsSeen'
  BY <1>4 DEF KeepSlot, Reserve, EnqueueJob, EnqueueThrows, Finish, stored, PassesAlone
<1>5. ASSUME NEW t \in Threads, BeginPass(t)
      PROVE  CancelIsSeen'
  BY <1>5 DEF BeginPass, OneBusy, Busy
<1>6. ASSUME NEW t \in Threads, NoNetwork(t) \/ Defer(t) \/ Attempt(t)
      PROVE  CancelIsSeen'
  BY <1>6 DEF NoNetwork, Defer, Attempt, Request, stored
<1>7. ASSUME NEW t \in Threads, DrainedAll(t)
      PROVE  CancelIsSeen'
  BY <1>7 DEF DrainedAll
<1>8. ASSUME NEW t \in Threads, DrainedSome(t) \/ DrainFailed(t)
      PROVE  CancelIsSeen'
  BY <1>8 DEF DrainedSome, DrainFailed, Request
<1>9. ASSUME NEW t \in Threads, CancelJob(t)
      PROVE  CancelIsSeen'
  BY <1>9 DEF CancelJob, Finish
<1>10. ASSUME NEW t \in Threads, WorkerReturns(t)
       PROVE  CancelIsSeen'
  BY <1>10 DEF WorkerReturns, stored
<1>11. ASSUME NEW r \in results, Report(r)
       PROVE  CancelIsSeen'
  BY <1>11 DEF Report, PassesAlone
<1>12. CASE ExecuteOperation
  <2>1. \A u \in Threads : pc'[u] = pc[u] \/ (pc[u] = "returned" /\ pc'[u] = "idle")
    BY <1>12, TailKeeps DEF ExecuteOperation, Returning
  <2>2. QED
    BY <1>12, <2>1 DEF ExecuteOperation, stored
<1>13. ASSUME NEW w \in Workers, StartWorker(w)
       PROVE  CancelIsSeen'
  BY <1>13 DEF StartWorker, stored
<1>14. QED
  BY <1>1, <1>2, <1>3, <1>4, <1>5, <1>6, <1>7, <1>8, <1>9, <1>10, <1>11, <1>12, <1>13,
      PassesAloneSteps, ZenonT(60) DEF Tick, EnqueueFails, threads, stored, vars

(***************************************************************************)
(* What covers pending rows is replaced only by something else that does:  *)
(* a trigger by a pass, a pass by its request, a request by an operation   *)
(* that enqueues or by the job behind the slot it keeps, an operation by   *)
(* the job, and the job by its worker's pass.                              *)
(***************************************************************************)
LEMMA KeepCovers ==
    ASSUME Typed, JobHasWorker, SlotServed, NEW t \in Threads, KeepSlot(t)
    PROVE  RowsCovered'
<1> USE ConstantsAre
<1>1. Carried /\ pc[t] = "request" /\ UNCHANGED <<job, operations>>
  BY DEF KeepSlot, Keeps, Confirmed, Carried, Reserved, manager
<1>2. job.state \in {"waiting", "running"}
  BY <1>1 DEF SlotServed, SlotBacked, Typed, ManagerType
<1>3. \A i \in DOMAIN operations : operations[i].kind # "cancel"
  BY <1>1 DEF SlotServed, SlotBacked
<1>4. CASE job.state = "waiting"
  BY <1>1, <1>3, <1>4 DEF RowsCovered
<1>5. CASE job.state = "running"
  <2>1. job.worker \in Threads /\ pc[job.worker] = "begin"
    BY <1>1, <1>5 DEF SlotServed, SlotBacked, JobHasWorker
  <2>2. pc'[job.worker] = "begin"
    BY <1>1, <2>1 DEF KeepSlot, Finish, Typed, ThreadsType
  <2>3. QED
    BY <2>1, <2>2 DEF RowsCovered, Passing
<1>6. QED
  BY <1>2, <1>4, <1>5

LEMMA EnqueueCovers ==
    ASSUME Typed, NEW t \in Threads, EnqueueJob(t)
    PROVE  RowsCovered'
<1> DEFINE operation == [kind |-> "enqueue", token |-> token[t], delay |-> delay[t],
                         worker |-> Nobody]
<1>1. operation \in Operation
  BY OperationType, ConstantsAre DEF Typed, ThreadsType
<1>2. operations \in Seq(Operation) /\ operations' = Append(operations, operation)
  BY DEF EnqueueJob, Typed, ManagerType
<1>3. PICK n \in Nat : n = Len(operations) + 1
  BY <1>2
<1>4. DOMAIN operations' = 1 .. n /\ operations'[n] = operation /\ n > 0
  BY <1>1, <1>2, <1>3, AppendIs
<1>5. operations'[n].kind = "enqueue" /\ ~(\E j \in DOMAIN operations' : j > n)
  BY <1>4
<1>6. n \in DOMAIN operations' /\ LastWord(n)'
  BY <1>4, <1>5 DEF LastWord
<1>7. QED
  BY <1>6 DEF RowsCovered

LEMMA ExecuteCovers ==
    ASSUME Typed, Returning, OneBusy, JobHasWorker, RowsCovered, ExecuteOperation
    PROVE  RowsCovered'
<1> USE ConstantsAre
<1> DEFINE head == operations[1]
<1>1. /\ operations # <<>> /\ Head(operations) = head
      /\ 1 \in DOMAIN operations /\ DOMAIN operations \subseteq Nat
      /\ \A i \in DOMAIN operations' :
           i + 1 \in DOMAIN operations /\ operations'[i] = operations[i + 1]
      /\ \A i \in DOMAIN operations : i # 1 =>
           i - 1 \in DOMAIN operations' /\ operations'[i - 1] = operations[i]
  BY TailKeeps DEF ExecuteOperation
<1>2. UNCHANGED <<alive, rows, spent, triggered>>
  BY DEF ExecuteOperation, stored
<1>3. \A u \in Threads : pc'[u] = pc[u] \/ pc[u] = "returned"
  BY <1>1 DEF ExecuteOperation, Returning, Typed, ThreadsType
<1>4. DOMAIN operations' \subseteq Nat \ {0}
  BY <1>1, TailIs DEF ExecuteOperation, Typed, ManagerType
<1>5. job' = JobAfter(head)
  BY <1>1 DEF ExecuteOperation
<1>6. CASE triggered \/ \E t \in Threads : pc[t] \in Passing
  BY <1>2, <1>3, <1>6 DEF RowsCovered, Passing
<1>7. ASSUME NEW i \in DOMAIN operations, LastWord(i), i # 1
      PROVE  RowsCovered'
  <2>1. i - 1 \in DOMAIN operations' /\ operations'[i - 1].kind = "enqueue"
    BY <1>1, <1>7 DEF LastWord
  <2>2. ASSUME NEW j \in DOMAIN operations', j > i - 1
        PROVE  operations'[j].kind # "cancel"
    <3>1. j + 1 \in DOMAIN operations /\ operations'[j] = operations[j + 1] /\ j + 1 > i
      BY <1>1, <1>4, <2>2
    <3>2. QED
      BY <1>7, <3>1 DEF LastWord
  <2>3. QED
    BY <2>1, <2>2 DEF RowsCovered, LastWord
<1>8. CASE LastWord(1)
  <2>1. job'.state = "waiting"
    BY <1>5, <1>8 DEF LastWord, JobAfter, Waiting
  <2>2. \A j \in DOMAIN operations' : j + 1 > 1
    BY <1>4
  <2>3. \A j \in DOMAIN operations' : operations'[j].kind # "cancel"
    BY <1>1, <1>8, <2>2 DEF LastWord
  <2>4. QED
    BY <2>1, <2>3 DEF RowsCovered
<1>9. CASE job.state = "waiting" /\ \A i \in DOMAIN operations : operations[i].kind # "cancel"
  <2>1. head \in Operation /\ head.kind \notin {"cancel", "retry"}
    BY <1>1, <1>9, NextOperation DEF JobHasWorker
  <2>2. head.kind = "enqueue" \/ (head.kind = "success" /\ head.worker # job.worker)
    BY <1>1, <1>9, <2>1 DEF Operation, JobHasWorker
  <2>3. job'.state = "waiting"
    BY <1>5, <1>9, <2>2 DEF JobAfter, Waiting
  <2>4. QED
    BY <1>1, <1>9, <2>3 DEF RowsCovered
<1>10. QED
  BY <1>1, <1>2, <1>6, <1>7, <1>8, <1>9 DEF RowsCovered

LEMMA RowsCoveredStep ==
    ASSUME PassesAlone, Typed, Returning, OneBusy, JobHasWorker, SlotServed, CancelIsSeen,
           RowsCovered, [Next]_vars
    PROVE  RowsCovered'
<1> USE ConstantsAre DEF Typed, ThreadsType, Passing
<1>1. CASE Trigger \/ StartExecutorPass \/ ProcessStart \/ ProcessDeath
  <2>1. CASE Trigger \/ ProcessStart \/ ProcessDeath
    BY <2>1 DEF Trigger, ProcessStart, ProcessDeath, RowsCovered
  <2>2. CASE StartExecutorPass
    BY <2>2 DEF StartExecutorPass, RowsCovered
  <2>3. QED
    BY <1>1, <2>1, <2>2
<1>2. CASE Tick
  <2>1. job'.state = job.state /\ UNCHANGED <<rows, spent, operations, alive, triggered, pc>>
    BY <1>2 DEF Tick, ManagerType, threads
  <2>2. QED
    BY <2>1 DEF RowsCovered, LastWord
<1>3. CASE \E t \in Threads : KeepSlot(t)
  BY <1>3, KeepCovers
<1>4. ASSUME NEW t \in Threads, Reserve(t)
      PROVE  RowsCovered'
  BY <1>4 DEF Reserve, RowsCovered
<1>5. CASE \E t \in Threads : EnqueueJob(t)
  BY <1>5, EnqueueCovers
<1>6. ASSUME NEW t \in Threads, EnqueueThrows(t)
      PROVE  RowsCovered'
  BY <1>6 DEF EnqueueThrows, RowsCovered, SpentType
<1>7. ASSUME NEW t \in Threads, BeginPass(t)
      PROVE  RowsCovered'
  BY <1>7 DEF BeginPass, RowsCovered
<1>8. ASSUME NEW t \in Threads, NoNetwork(t) \/ Defer(t) \/ Attempt(t)
      PROVE  RowsCovered'
  BY <1>8 DEF NoNetwork, Defer, Attempt, Request, RowsCovered
<1>9. ASSUME NEW t \in Threads, DrainedAll(t) \/ DrainedSome(t) \/ DrainFailed(t)
      PROVE  RowsCovered'
  BY <1>9 DEF DrainedAll, DrainedSome, DrainFailed, Request, RowsCovered
<1>10. ASSUME NEW t \in Threads, CancelJob(t)
       PROVE  RowsCovered'
  <2>1. rows => triggered \/ (pc[Executor] = "begin" /\ Executor # t)
    BY <1>10 DEF CancelJob, CancelIsSeen
  <2>2. UNCHANGED <<rows, triggered>> /\ (Executor # t => pc'[Executor] = pc[Executor])
    BY <1>10 DEF CancelJob, Finish
  <2>3. QED
    BY <2>1, <2>2 DEF RowsCovered
<1>11. ASSUME NEW t \in Threads, WorkerReturns(t)
       PROVE  RowsCovered'
  <2>1. pc[t] = "success" /\ pc' = [pc EXCEPT ![t] = "returned"] /\ t \in Workers
    BY <1>11 DEF WorkerReturns, OneBusy
  <2>2. UNCHANGED <<rows, spent, job, alive, triggered>>
    BY <1>11 DEF WorkerReturns, stored
  <2>3. [kind |-> "success", token |-> NoToken, delay |-> Backoff, worker |-> t] \in Operation
    BY <2>1, OperationType
  <2>4. \A i \in DOMAIN operations' :
          \/ i \in DOMAIN operations /\ operations'[i] = operations[i]
          \/ operations'[i].kind = "success"
    BY <1>11, <2>1, <2>3, AppendKeeps DEF WorkerReturns
  <2>5. \A i \in DOMAIN operations : i \in DOMAIN operations' /\ operations'[i] = operations[i]
    <3>1. operations \in Seq(Operation) /\ operations' = Append(operations,
            [kind |-> "success", token |-> NoToken, delay |-> Backoff, worker |-> t])
      BY <1>11, <2>1 DEF WorkerReturns, ManagerType
    <3>2. QED
      BY <2>3, <3>1, AppendIs
  <2>6. \A u \in Threads : pc[u] \in Passing => pc'[u] \in Passing
    BY <2>1
  <2>7. ASSUME NEW i \in DOMAIN operations, LastWord(i)
        PROVE  i \in DOMAIN operations' /\ operations'[i].kind = "enqueue"
               /\ \A j \in DOMAIN operations' : j > i => operations'[j].kind # "cancel"
    BY <2>4, <2>5, <2>7 DEF LastWord
  <2>8. QED
    BY <2>2, <2>4, <2>6, <2>7 DEF RowsCovered, LastWord
<1>12. ASSUME NEW r \in results, Report(r)
       PROVE  RowsCovered'
  <2>1. pc' = pc /\ UNCHANGED <<rows, spent, job, operations, alive, triggered>>
    BY <1>12 DEF Report, PassesAlone
  <2>2. QED
    BY <2>1 DEF RowsCovered, LastWord
<1>13. CASE ExecuteOperation
  BY <1>13, ExecuteCovers
<1>14. CASE EnqueueFails
  BY <1>14 DEF EnqueueFails, RowsCovered, SpentType
<1>15. ASSUME NEW w \in Workers, StartWorker(w)
       PROVE  RowsCovered'
  BY <1>15 DEF StartWorker, RowsCovered
<1>16. CASE UNCHANGED vars
  BY <1>16 DEF vars, stored, manager, threads, RowsCovered, LastWord
<1>17. QED
  BY <1>1, <1>2, <1>3, <1>4, <1>5, <1>6, <1>7, <1>8, <1>9, <1>10, <1>11, <1>12, <1>13,
      <1>14, <1>15, <1>16, PassesAloneSteps, ZenonT(60)

LEMMA SerialInit ==
    ASSUME Init
    PROVE  Serial
<1>1. Typed
  BY TypedInit
<1>2. Returning /\ JobHasWorker
  BY DEF Init, Returning, JobHasWorker, NoJob
<1>3. OneBusy /\ CancelIsSeen /\ RowsCovered
  BY DEF Init, OneBusy, Busy, CancelIsSeen, RowsCovered
<1>4. SlotServed
  BY DEF Init, Free, SlotServed, SlotAttempted, SlotAsked, SlotBacked, Carried, Reserved
<1>5. QED
  BY <1>1, <1>2, <1>3, <1>4 DEF Serial

LEMMA SerialStep ==
    ASSUME PassesAlone, Serial, [Next]_vars
    PROVE  Serial'
  BY TypedStep, ReturningStep, OneBusyStep, JobHasWorkerStep, SlotServedStep, CancelIsSeenStep,
     RowsCoveredStep DEF Serial

(***************************************************************************)
(* Executor and workers alone: a slot that is trusted has a job behind it, *)
(* so a request that keeps the slot may rely on it, whatever WorkManager   *)
(* refused; and as long as it refused nothing, rows are never left without *)
(* a job when nothing runs, whenever the process died and whatever arrived *)
(* while a pass was cancelling the job.                                    *)
(***************************************************************************)
THEOREM RowsAreServed == PassesAlone /\ Spec => []RowsHaveJob
<1> SUFFICES ASSUME PassesAlone
             PROVE  Spec => []RowsHaveJob
  OBVIOUS
<1>1. Init => Serial
  BY SerialInit
<1>2. Serial /\ [Next]_vars => Serial'
  BY SerialStep
<1>3. Serial => RowsHaveJob
  <2>1. SUFFICES ASSUME Serial
                 PROVE  RowsHaveJob
    OBVIOUS
  <2>2. Confirmed => job.state # "none"
    BY <2>1 DEF Serial, SlotServed, SlotBacked, Carried, Confirmed
  <2>3. ASSUME Quiescent, rows, spent.refusals = 0
        PROVE  job.state = "waiting"
    <3>1. DOMAIN operations = {}
      BY <2>3 DEF Quiescent
    <3>2. QED
      BY <2>1, <2>3, <3>1 DEF Serial, RowsCovered, Quiescent, Passing
  <2>4. QED
    BY <2>2, <2>3 DEF RowsHaveJob
<1>4. QED
  BY <1>1, <1>2, <1>3, PTL DEF Spec
=============================================================================
