---------------------------- MODULE EvaluationRun ----------------------------
(***************************************************************************)
(* The evening evaluation: MarketMLService claims a session, evaluates its *)
(* snapshots batch by batch into an outcome file, uploads the file, reads  *)
(* the server back, certifies what it read, writes evaluation_done_date    *)
(* and queues C3, the percentile finalization, which is a service action   *)
(* of its own.  Progress lives in the preferences (one cursor for all      *)
(* sessions), in the outcome file and the run ledger of each session, and  *)
(* in activeEvaluationRun, a field both actions share.                     *)
(*                                                                         *)
(* An outcome is the pair of its session and its batch.  Prices, rows and  *)
(* counts, the notification, research aggregation, performance metrics and *)
(* the lease of the ledger (local, so it never refuses) are left out.      *)
(***************************************************************************)
EXTENDS Naturals, FiniteSets

CONSTANTS
    Sessions,
    Total,      \* [Sessions -> batches of snapshots the session has]
    Labelable,  \* outcomes of trade decisions; the others are research only
    None, Torn, \* absent; a file that cannot be parsed
    MaxTroubles \* bound: deaths, failed calls, exhausted budgets, uploads that are
                \* acknowledged but missing and retries by the user, together

Rows(d) == {<<d, b>> : b \in 0 .. Total[d] - 1}
AllRows == UNION {Rows(d) : d \in Sessions}

\* A stage that is pending, running or failed is open: nothing tells these apart.
Stages == {"open", "verified", "ineligible"}
Run == [expected : SUBSET AllRows, persisted : SUBSET AllRows,
        persistence : Stages, c3 : Stages]

ASSUME EvaluationAssumption ==
    /\ Total \in [Sessions -> Nat \ {0}]
    /\ Labelable \subseteq AllRows
    /\ MaxTroubles \in Nat
    /\ None \notin Sessions /\ None # Torn

ASSUME AbsentAssumption ==
    /\ \A run \in Run : run \notin {None, Torn}
    /\ \A rows \in SUBSET AllRows : rows \notin {None, Torn}

VARIABLES
    job,      \* evaluation_job_date, _total_snapshots, _completed_snapshots
    running,  \* evaluation_running_date
    done,     \* evaluation_done_date
    ack,      \* evaluation_upload_ack
    c3done,   \* c3_finalization_date while its phase is DONE or INELIGIBLE
    file,     \* file[d]: the outcomes written for the session
    ledger,   \* ledger[d]: its run, on disk and, while active, in memory
    server,   \* outcomes stored remotely
    c3rows,   \* sessions whose percentile rows are stored remotely
    starts,   \* sessions with a service start on its way
    alarm,    \* session of the pending continuation
    claim,    \* activeEvaluationSession
    eval,     \* the evaluation that holds the claim
    active,   \* session of activeEvaluationRun
    c3,       \* c3[d]: the C3 action of the session
    troubles

prefs == <<job, running, done, ack, c3done>>
remote == <<server, c3rows>>
vars == <<prefs, file, ledger, remote, starts, alarm, claim, eval, active, c3, troubles>>

NewRun == [expected |-> {}, persisted |-> {}, persistence |-> "open", c3 |-> "open"]

\* refreshCompletionFlags: the run's labels_saved.
LabelsSaved(run) ==
    run.persistence = "verified" /\ run.expected # {} /\ run.expected \subseteq run.persisted

Expected(d) == Rows(d) \cap Labelable
Idle == [pc |-> "idle", completed |-> 0]

TypeOK ==
    /\ job \in [date : Sessions \cup {None}, total : Nat, completed : Nat]
    /\ running \in Sessions \cup {None} /\ done \in Sessions \cup {None}
    /\ ack = None \/ ack \in [session : Sessions, rows : SUBSET AllRows]
    /\ c3done \in Sessions \cup {None}
    /\ file \in [Sessions -> {None, Torn} \cup SUBSET AllRows]
    /\ \A d \in Sessions : file[d] \in {None, Torn} \cup SUBSET Rows(d)
    /\ ledger \in [Sessions -> {None, Torn} \cup Run]
    /\ server \subseteq AllRows /\ c3rows \subseteq Sessions
    /\ starts \subseteq Sessions
    /\ {alarm, claim, active} \subseteq Sessions \cup {None}
    /\ eval \in [pc : {"idle", "start", "input", "begun", "loop", "commit", "verify",
                       "save", "read", "certified", "queue"},
                 completed : Nat]
    /\ (claim = None) = (eval.pc = "idle")
    /\ active # None => ledger[active] \in Run
    /\ c3 \in [Sessions -> {"idle", "queued", "collecting", "uploaded"}]
    /\ troubles \in 0 .. MaxTroubles

Init ==
    /\ job = [date |-> None, total |-> 0, completed |-> 0]
    /\ running = None /\ done = None /\ ack = None
    /\ c3done = None
    /\ file = [d \in Sessions |-> None]
    /\ ledger = [d \in Sessions |-> None]
    /\ server = {} /\ c3rows = {}
    /\ starts = {} /\ alarm = None
    /\ claim = None /\ eval = Idle /\ active = None
    /\ c3 = [d \in Sessions |-> "idle"]
    /\ troubles = 0

Trouble == troubles < MaxTroubles /\ troubles' = troubles + 1
Calm == troubles' = troubles

\* updateEvaluationJobState with the counters it was given.
JobState(d, completed, isRunning) ==
    /\ job' = [date |-> d, total |-> Total[d], completed |-> completed]
    /\ running' = IF isRunning THEN d ELSE None

\* The same call without counters: they keep what another session left there.
JobDate(d, isRunning) ==
    /\ job' = [job EXCEPT !.date = d]
    /\ running' = IF isRunning THEN d ELSE None

Goto(pc) == eval' = [eval EXCEPT !.pc = pc] /\ UNCHANGED claim

\* Mutant: the finally clause leaves the claim.
ReleaseKeepsClaim == UNCHANGED claim /\ eval' = Idle

Release == claim' = None /\ eval' = Idle

\* scheduleEvaluationContinuation and scheduleNextEvaluationReminder share one
\* alarm: a reminder, which carries no session, replaces a continuation.
Continuation(d) == alarm' = IF done' = d THEN None ELSE d
Reminder == alarm' = None
-----------------------------------------------------------------------------
(* Starts *)

\* The post-close handoff, the daily alarm and a tap on the notification.
Request(d) ==
    /\ d \notin starts
    /\ starts' = starts \cup {d}
    /\ UNCHANGED <<prefs, file, ledger, remote, alarm, claim, eval, active, c3, troubles>>

\* triggerDayEvaluationInternal.  A finished session is evaluated again only
\* when its research report failed.
UserRequest(d) ==
    /\ d \notin starts /\ running # d
    /\ Trouble
    /\ done' = None
    /\ running' = d
    /\ job' = [job EXCEPT !.date = d]
    /\ starts' = starts \cup {d}
    /\ UNCHANGED <<ack, c3done, file, ledger, remote, alarm, claim, eval, active, c3>>

\* A continuation that finds its session marked running is armed again.
AlarmFires ==
    /\ alarm # None /\ running # alarm
    /\ alarm' = None
    /\ starts' = IF done = alarm THEN starts ELSE starts \cup {alarm}
    /\ UNCHANGED <<prefs, file, ledger, remote, claim, eval, active, c3, troubles>>

Claim(d) ==
    /\ d \in starts
    /\ starts' = starts \ {d}
    /\ IF claim = None
       THEN claim' = d /\ eval' = [Idle EXCEPT !.pc = "start"]
       ELSE UNCHANGED <<claim, eval>>
    /\ UNCHANGED <<prefs, file, ledger, remote, alarm, active, c3, troubles>>

\* clearStaleEvaluationRunningIfNeeded
ClearStale ==
    /\ running # None /\ claim # running
    /\ running' = None
    /\ UNCHANGED <<job, done, ack, c3done, file, ledger, remote, starts, alarm,
                   claim, eval, active, c3, troubles>>
-----------------------------------------------------------------------------
(* The evaluation *)

Start ==
    /\ eval.pc = "start"
    /\ IF done = claim
       THEN JobDate(claim, FALSE) /\ Release
       ELSE JobDate(claim, TRUE) /\ Goto("input")
    /\ UNCHANGED <<done, ack, c3done, file, ledger, remote, starts, alarm, active, c3, troubles>>

\* An exception while the inputs are prepared reports 0 of 0 snapshots.
InputFails ==
    /\ eval.pc = "input" /\ Trouble
    /\ job' = [date |-> claim, total |-> 0, completed |-> 0] /\ running' = None
    /\ Reminder /\ Release
    /\ UNCHANGED <<done, ack, c3done, file, ledger, remote, starts, active, c3>>

\* INCOMPLETE_H2_MARKET_DATA: closing marks are missing.
MarksMissing ==
    /\ eval.pc = "input" /\ Trouble
    /\ file' = [file EXCEPT ![claim] = None]
    /\ done' = None
    /\ JobState(claim, 0, FALSE)
    /\ Reminder /\ Release
    /\ UNCHANGED <<ack, c3done, ledger, remote, starts, active, c3>>

\* beginOrResume: a run of another input manifest is replaced by a new one.
Begin ==
    /\ eval.pc = "input"
    /\ \E sameManifest \in BOOLEAN :
         ledger' = [ledger EXCEPT ![claim] =
                      IF sameManifest /\ @ \notin {None, Torn} THEN @ ELSE NewRun]
    /\ active' = claim
    /\ Goto("begun")
    /\ UNCHANGED <<prefs, file, remote, starts, alarm, c3, troubles>>

\* canResume
Resumable(d) ==
    /\ job.date = d /\ job.total = Total[d]
    /\ file[d] \notin {None, Torn}

\* Mutant: a file that is not resumable is replaced, the cursor goes on.
CursorKept(d) == IF job.completed <= Total[d] THEN job.completed ELSE Total[d]

Cursor(d) ==
    IF Resumable(d) /\ file[d] # {}
    THEN IF job.completed <= Total[d] THEN job.completed ELSE Total[d]
    ELSE 0

Resume ==
    /\ eval.pc = "begun"
    /\ ledger' = [ledger EXCEPT ![active].expected = Expected(claim)]
    /\ file' = IF Resumable(claim) THEN file ELSE [file EXCEPT ![claim] = {}]
    /\ JobState(claim, Cursor(claim), TRUE)
    /\ eval' = [eval EXCEPT !.pc = "loop", !.completed = Cursor(claim)]
    /\ UNCHANGED <<done, ack, c3done, remote, starts, alarm, claim, active, c3, troubles>>

RunBatch ==
    /\ eval.pc = "loop" /\ eval.completed < Total[claim]
    /\ file' = [file EXCEPT ![claim] = @ \cup {<<claim, eval.completed>>}]
    /\ Goto("commit")
    /\ UNCHANGED <<prefs, ledger, remote, starts, alarm, active, c3, troubles>>

CommitCursor ==
    /\ eval.pc = "commit"
    /\ JobState(claim, eval.completed + 1, TRUE)
    /\ eval' = [eval EXCEPT !.pc = "loop", !.completed = @ + 1]
    /\ UNCHANGED <<done, ack, c3done, file, ledger, remote, starts, alarm, claim, active, c3, troubles>>

\* The budget is looked at between batches and before aggregation.
BudgetExhausted ==
    /\ eval.pc \in {"loop", "certified"} /\ Trouble
    /\ JobState(claim, eval.completed, FALSE)
    /\ UNCHANGED done
    /\ Continuation(claim) /\ Release
    /\ UNCHANGED <<ack, c3done, file, ledger, remote, starts, active, c3>>

\* Any other exception.
Fails ==
    /\ eval.pc \in {"begun", "loop", "certified"} /\ Trouble
    /\ JobState(claim, eval.completed, FALSE)
    /\ Reminder /\ Release
    /\ UNCHANGED <<done, ack, c3done, file, ledger, remote, starts, active, c3>>

\* The acknowledgement of an upload of exactly this file.
AckOf(d) == [session |-> d, rows |-> file[d]]

\* The file is complete.  An acknowledgement of it counts only if it was given
\* under the same contract (manifest, expectations, evaluator version).
Validate ==
    /\ eval.pc = "loop" /\ eval.completed = Total[claim]
    /\ ledger' = [ledger EXCEPT ![active].persistence = "open"]
    /\ \E sameContract \in BOOLEAN :
         Goto(IF sameContract /\ ack = AckOf(claim) THEN "verify" ELSE "save")
    /\ UNCHANGED <<prefs, file, remote, starts, alarm, active, c3, troubles>>

\* The server acknowledges the upload; a row may be missing all the same.
SaveAcknowledged ==
    /\ eval.pc = "save"
    /\ \/ server' = server \cup file[claim] /\ Calm
       \/ \E lost \in file[claim] \ server : server' = server \cup (file[claim] \ {lost}) /\ Trouble
    /\ Goto("read")
    /\ UNCHANGED <<prefs, file, ledger, c3rows, starts, alarm, active, c3>>

\* A batch of the upload is refused: the exception leaves the earlier ones.
SaveFails ==
    /\ eval.pc = "save" /\ Trouble
    /\ \E part \in SUBSET file[claim] : server' = server \cup part
    /\ JobState(claim, eval.completed, FALSE)
    /\ Reminder /\ Release
    /\ UNCHANGED <<done, ack, c3done, file, ledger, c3rows, starts, active, c3>>

\* Mutant: what was produced and acknowledged counts as read back.
VerifiedByProduct(d) == file[d]

\* certify: what the readback has to show, and what it shows to be missing.
Verified(d) == file[d] \cap server

Missing(d) == (ledger[active].expected \cup file[d]) \ Verified(d)

\* Mutant: only the labels are compared, not every produced row.
CompleteLabels(d) == Missing(d) \cap Labelable = {}

Complete(d) == Missing(d) = {}

StoreAck == ack' = IF eval.pc = "read" THEN AckOf(claim) ELSE ack

\* Not certified: the run stays open and a continuation is armed.
Incomplete(verified) ==
    /\ ledger' = [ledger EXCEPT ![active].persisted = @ \cup verified,
                                ![active].persistence = "open"]
    /\ done' = IF done = claim THEN None ELSE done
    /\ JobState(claim, eval.completed, FALSE)
    /\ Continuation(claim) /\ Release
    /\ UNCHANGED server

ReadFails ==
    /\ eval.pc \in {"read", "verify"} /\ Trouble
    /\ StoreAck
    /\ Incomplete({})
    /\ UNCHANGED <<c3done, file, c3rows, starts, active, c3>>

Certify ==
    /\ eval.pc \in {"read", "verify"} /\ Complete(claim)
    /\ StoreAck
    /\ ledger' = [ledger EXCEPT
                    ![active].persisted = @ \cup (Verified(claim) \cap Labelable),
                    ![active].persistence = "verified"]
    /\ Goto("certified")
    /\ UNCHANGED <<job, running, done, c3done, file, remote, starts, alarm, active, c3, troubles>>

\* Verify-first: a readback that proves rows missing leads to a repair upload.
Repair ==
    /\ eval.pc = "verify" /\ ~Complete(claim)
    /\ Goto("save")
    /\ UNCHANGED <<prefs, file, ledger, remote, starts, alarm, active, c3, troubles>>

NotCertified ==
    /\ eval.pc = "read" /\ ~Complete(claim)
    /\ StoreAck
    /\ Incomplete(Verified(claim) \cap Labelable)
    /\ UNCHANGED <<c3done, file, c3rows, starts, active, c3, troubles>>

WriteDone ==
    /\ eval.pc = "certified"
    /\ done' = claim
    /\ JobState(claim, eval.completed, FALSE)
    /\ Goto("queue")
    /\ UNCHANGED <<ack, c3done, file, ledger, remote, starts, alarm, active, c3, troubles>>

QueueC3 ==
    /\ eval.pc = "queue"
    /\ ledger' = [ledger EXCEPT ![active].c3 = "open"]
    /\ c3done' = None
    /\ c3' = [c3 EXCEPT ![claim] = IF @ = "idle" THEN "queued" ELSE @]
    /\ Reminder /\ Release
    /\ UNCHANGED <<job, running, done, ack, file, remote, starts, active, troubles>>
-----------------------------------------------------------------------------
(* C3, beside whatever evaluation runs *)

\* The run C3 works on: the active one, and its own only if there is none.
Loaded(d) ==
    IF active # None THEN active
    ELSE IF ledger[d] \in {None, Torn} THEN None ELSE d

\* updateRunStage("percentile_finalization", stage) on run r
C3Stage(r, stage) ==
    ledger' = IF r = None THEN ledger ELSE [ledger EXCEPT ![r].c3 = stage]

C3Settled(d) ==
    \/ c3done = d
    \/ Loaded(d) # None /\ ledger[Loaded(d)].c3 \in {"verified", "ineligible"}

C3Skip(d) ==
    /\ c3[d] = "queued" /\ C3Settled(d)
    /\ active' = Loaded(d)
    /\ c3' = [c3 EXCEPT ![d] = "idle"]
    /\ UNCHANGED <<prefs, file, ledger, remote, starts, alarm, claim, eval, troubles>>

C3Start(d) ==
    /\ c3[d] = "queued" /\ ~C3Settled(d)
    /\ active' = Loaded(d)
    /\ c3done' = None
    /\ C3Stage(Loaded(d), "open")
    /\ c3' = [c3 EXCEPT ![d] = "collecting"]
    /\ UNCHANGED <<job, running, done, ack, file, remote, starts, alarm, claim, eval, troubles>>

C3End(d, date, stage) ==
    /\ c3done' = date
    /\ C3Stage(active, stage)
    /\ c3' = [c3 EXCEPT ![d] = "idle"]
    /\ UNCHANGED <<job, running, done, ack, file, remote, starts, alarm, claim, eval, active>>

C3Fails(d) == c3[d] = "collecting" /\ Trouble /\ C3End(d, None, "open")

C3Ineligible(d) == c3[d] = "collecting" /\ Calm /\ C3End(d, d, "ineligible")

C3Verified(d) == c3[d] = "uploaded" /\ Calm /\ C3End(d, d, "verified")

\* An exception: the stage stays as it is, and so does a settled phase.
C3Throws(d) ==
    /\ c3[d] = "collecting" /\ Trouble
    /\ c3' = [c3 EXCEPT ![d] = "idle"]
    /\ UNCHANGED <<prefs, file, ledger, remote, starts, alarm, claim, eval, active>>

C3Upload(d) ==
    /\ c3[d] = "collecting"
    /\ c3rows' = c3rows \cup {d}
    /\ c3' = [c3 EXCEPT ![d] = "uploaded"]
    /\ UNCHANGED <<prefs, file, ledger, server, starts, alarm, claim, eval, active, troubles>>
-----------------------------------------------------------------------------
\* The last action ends and the service with its fields goes away.
ServiceStops ==
    /\ active # None /\ claim = None /\ \A d \in Sessions : c3[d] \in {"idle", "queued"}
    /\ active' = None
    /\ UNCHANGED <<prefs, file, ledger, remote, starts, alarm, claim, eval, c3, troubles>>

\* Preferences and alarm survive; a file being written may not; an upload in
\* progress has stored some rows; starts not yet delivered may be repeated.
ProcessDies ==
    /\ claim # None /\ Trouble
    /\ \E f \in {file[claim], Torn} :
         file' = IF eval.pc = "commit" THEN [file EXCEPT ![claim] = f] ELSE file
    /\ \E torn \in BOOLEAN :
         ledger' = IF torn /\ active # None THEN [ledger EXCEPT ![active] = Torn] ELSE ledger
    /\ \E part \in SUBSET (IF eval.pc = "save" THEN file[claim] ELSE {}) :
         server' = server \cup part
    /\ c3' = [d \in Sessions |-> IF c3[d] = "queued" THEN "queued" ELSE "idle"]
    /\ active' = None
    /\ Release
    /\ UNCHANGED <<prefs, c3rows, starts, alarm>>

Evaluate ==
    \/ Start \/ Begin \/ Resume \/ RunBatch \/ CommitCursor
    \/ Validate \/ SaveAcknowledged \/ Certify \/ Repair \/ NotCertified
    \/ WriteDone \/ QueueC3

C3Step(d) == C3Skip(d) \/ C3Start(d) \/ C3Upload(d) \/ C3Verified(d) \/ C3Ineligible(d)

Next ==
    \/ \E d \in Sessions : Request(d) \/ UserRequest(d) \/ Claim(d)
    \/ AlarmFires \/ ClearStale
    \/ Evaluate
    \/ InputFails \/ MarksMissing \/ BudgetExhausted \/ Fails \/ SaveFails \/ ReadFails
    \/ \E d \in Sessions : C3Step(d) \/ C3Fails(d) \/ C3Throws(d)
    \/ ServiceStops \/ ProcessDies

Spec == Init /\ [][Next]_vars

\* The steps of a claimed evaluation are taken, and somebody (handoff, alarm or
\* user) asks again and again for a session that is not done at moments when no
\* evaluation holds the claim, and is heard at such a moment.
Fairness ==
    /\ WF_vars(Evaluate)
    /\ \A d \in Sessions :
         /\ SF_vars(claim = None /\ done # d /\ Request(d))
         /\ SF_vars(claim = None /\ Claim(d))

FairSpec == Spec /\ Fairness
-----------------------------------------------------------------------------
(* Properties *)

\* A run that says labels_saved has every label it expected on the server,
\* whatever was acknowledged, torn, repaired or repeated on the way.
LabelsOnServer ==
    \A d \in Sessions :
        ledger[d] \notin {None, Torn} /\ LabelsSaved(ledger[d]) => Expected(d) \subseteq server

\* The cursor an evaluation goes on from counts only batches whose outcomes
\* are in the file of its own session.
CursorCovered ==
    claim # None /\ eval.completed > 0 =>
        {<<claim, b>> : b \in 0 .. eval.completed - 1} \subseteq file[claim]

\* evaluation_done_date stops every later start of the session, and C3 builds on
\* its outcomes: neither comes before all of them, research ones included, are
\* stored remotely.
DoneIsStored ==
    \A d \in Sessions : done = d \/ c3[d] # "idle" => Rows(d) \subseteq server

\* Whatever stopped it before, a session that is asked for is evaluated, stored
\* and done in the end: no cursor, acknowledgement, torn file or stale mark
\* keeps every retry from finishing.
EverySessionDone == \A d \in Sessions : <>(done = d)

=============================================================================
