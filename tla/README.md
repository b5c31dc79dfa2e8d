# Market Radar: verification project

TLA+ models of the parts of Market Radar whose correctness depends on the order
in which threads, writes, answers and process deaths happen; TLC checks them on
small instances, TLAPS proves the main results for every value of the constants:
for the queue, its schedule, the capture coordinator and its files, the single-leg
store, the evaluation and the Rule B position. Paths are relative to
`src/app/src/main/java/com/marketradar/app/` (Kotlin) or `src/app/src/main/python/`
unless they start with `docs/` or `supabase/`.

## 1. The system and its parts

Market Radar is a native Android app (Kotlin) that embeds a Python "brain",
polls a market-data broker, keeps local evidence and uploads it to Supabase. A
PWA in its WebView keeps the trade rows and calls the app through a bridge.

| Part | State it keeps | Operations | Talks to |
|---|---|---|---|
| Position-tick queue (`PositionTickDrain`, `PositionTickFlush`, `PositionTickIdentity`) | preferences file: queue, quarantine, tracking flags | enqueue, dedupe, quarantine, upload a chunk or row by row, remove what was acknowledged, update the flags | position service (enqueues), Supabase, SharedPreferences |
| Durable drain schedule (`PositionTickDrainCoordinator`, `PositionTickUploadRunner`, `PositionTickDrainWorker`) | reservation (time, token, confirmed), last attempt; WorkManager's unique job | request, report of an enqueue, cancel, executor pass, worker pass, retry | WorkManager, broadcast receivers, the queue |
| Capture coordinator (`CaptureCoordinator`, `CaptureRuntime`) | computation slot, admission map, phase of an attempt, two bounded lanes | submit, wait, time out, deliver on time or late, skip, reconcile | Python thread, capture journal |
| Capture journal (`CaptureEngine`, `CaptureStorage`) | intent, bundle and terminal files, pending events, channel states, event outbox | write intent, persist bundle, fan out, announce, terminalize, reconcile | channel outboxes, coordinator |
| Single-leg admission and Python timeouts (`SingleLegAdmissionCoordinator`, `PyTimeout`, `single_leg_store_v1.py`) | tap and its deadline; positions, history, accounts and request outcomes in one locked document | tap, fetch, admit, fence, status, monitor, publish | Python, settings, broker quotes |
| Evaluation run and its persistence (`MarketMLService`, `EvaluationPersistenceOrchestrator`, `EvaluationRunLedger`) | claim, cursor, done date, outcome file, run ledger, shared run field | start, resume, evaluate a batch, upload, verify, certify, repair, C3 | Supabase, alarms |
| Rule B fills and EV acceptance (`RuleBFillLedger`, `ev_v12_acceptance.py`, `ev_v12_integration.py`) | acceptance ledger, fill ledger, `open_trades` | prepare, confirm, cancel, step the exit, journal a patch, arbitrate, freeze the outcome | PWA, `trades_v2` row |
| Evidence outboxes (`Pc2TelemetryOutbox`, `PaperMenuOutbox`, `EvTelemetryOutbox`, `GeneratedCandidateOutbox`, `BrainSnapshotOutbox`) | one file per object, quarantine | enqueue, drain, acknowledge, retry, archive a collision | Supabase |
| Position marks and poll history | small stores, merges | append, restore, merge | services |
| Analysis authority and local caches | JSON files, replaced atomically | read, replace | Python |
| Research collection and export | exported files | page, snapshot, export | Supabase |
| Percentile backfill and offline tools | exported data | backfill, replay, audit | Supabase |
| Experiment mode and legacy exit policy | a preference | select, compare | services |
| Services, schedulers, UI | timers, WebView | polling, alarms, bridging | everything |
| Brain, learning, replay (Python) | numeric models | scoring | - |
| Backend schema | tables, unique index on `client_event_id` | INSERT | clients |

What is hard in it, and what makes each part correct:

* **Queue**: an answer lost after the server stored the rows, duplicates inside a
  chunk, poison rows at the head, enqueues while a chunk is on the wire,
  `apply()` against `commit()`, death between two writes. Correct: no tick lost,
  only hopeless rows quarantined, flags never claim too much, queue eventually empty.
* **Schedule**: a reservation made under a lock and a job enqueued after it, late
  outcomes of superseded enqueues, passes and receivers racing. Correct: a
  trusted reservation has a job or an owner that will still see to it, rows are
  never stranded, and they are attempted.
* **Coordinator**: a value racing the timeout, two submitters of one slot, both
  lanes full, Python that never returns, reconciliation reading a file whose
  owner is about to act. Correct: one completion with evidence, none forgotten,
  everything settled in the end.
* **Journal**: death or a refused write between the bundle, the channels, the
  stages, the events and the terminal marker, with the reconciler walking the same
  files. Correct: bytes and events never lost, an outcome always visible, files
  removed in the end.
* **Single leg**: a call that outlives its timeout and commits late, a fence written
  meanwhile, a second tap, a monitor that exits, a restart before the answer.
  The document is cut to its limits at every write. Correct: one verdict per tap and
  answers that repeat it, one live position per index, no proposal entered twice, an
  exit that stands once decided, and ledgers whose remains agree.
* **Evaluation**: one cursor for all sessions, files torn by a death, an upload
  acknowledged but not stored, a claim and continuations. Correct: a session is
  done only when its labels are on the server and its file is complete; every
  requested session gets done.
* **Rule B**: two closes of one row, each journalled before it is sent, updates
  that arrive late or get lost, list rewrites by another service. Correct: the
  limit of open positions holds, the journal tells who closed the row, a frozen
  outcome is true for ever.

The full list of hazards, each at its line, is in `PROJECT.json`.

## 2. Modules

| Module | Models | Lines to open first |
|---|---|---|
| `EvidenceLedger` | abstract: evidence leaves durable storage only for the backend or the quarantine | what every outbox promises |
| `PositionTickQueue` | tick queue and drain pass; implements `EvidenceLedger` | `PositionTickDrain.kt:256-486`, `PositionTickFlush.kt:335-457` |
| `PositionTickQueueProofs` | theorems about it | - |
| `PositionTickSchedule` | reservation, unique job, passes, receivers | `PositionTickDrainCoordinator.kt:120-555` |
| `CaptureCoordinator` | capture attempts and their completion | `CaptureCoordinator.kt:139-278` |
| `CaptureJournal` | files of an attempt; implements `EvidenceLedger` | `CaptureEngine.kt:224-600`, `CaptureStorage.kt:140-420` |
| `SingleLegContract` | abstract: one verdict per tap, answers repeat it | `SingleLegAdmissionCoordinator.kt:10-20` |
| `SingleLegStore` | tap, late call, fence, document, monitor; implements `SingleLegContract` | `single_leg_store_v1.py:75-457`, `SingleLegAdmissionCoordinator.kt` |
| `EvaluationRun` | evaluation of a session and its certification | `MarketMLService.kt:2400-3640` |
| `RuleBTrade` | a Rule B position from the tap to its close | `RuleBFillLedger.kt`, `ev_v12_acceptance.py` |
| `PositionTickScheduleProofs`, `CaptureCoordinatorProofs`, `CaptureJournalProofs`, `SingleLegStoreProofs`, `EvaluationRunProofs`, `RuleBTradeProofs` | theorems about the module each is named after | - |
| `MC...` | constants of the TLC instances | - |

Each component module is complete by itself: what it takes from a neighbour is an
action of the environment (the coordinator's completion is one step in
`CaptureCoordinator` and many in `CaptureJournal`; the drain is one bit in
`PositionTickSchedule` and a module in `PositionTickQueue`). The two abstract
modules are the interfaces: an implementing module gives a refinement mapping
with `INSTANCE ... WITH` and the abstract specification is a property of its run.

In all of them, operators marked "Mutation" stand beside the definition they
spoil; see section 3.

### PositionTickQueue

`mem` and `disk` are the two faces of one SharedPreferences file: `apply()`
changes `mem` and may or may not reach `disk`, `commit()` normally changes both
but its boolean is not looked at, so it may fail unnoticed. A preference record
holds the queue, the quarantine, the number of rejected ticks and the tracking
flags. A row is abstracted to its identity (`client_event_id`), its payload (the
fingerprinted columns) and its `trade_id|tick_ts` key. `Enqueue` is one capture
cycle (admission with its dedupe and its commit). A drain pass is the sequence
`StartPass`, `QuarantineBlank`, then per chunk `SelectChunk`, one of the
`Chunk...` answers or `PostChunkDisturbed` (stored but not answered, or nothing
stored), for duplicates and row-value errors the row loop `Row...`, `RemoveAcked`
and at the end `CommitTracking`; enqueues can happen between any two of them.
`PassThrows` and `ProcessDeath` end a pass anywhere. The gate that decides if
`client_event_id` is sent is the constant `SendId`.

The refinement `Ledger!Spec` maps what `disk` holds to `pending`, the server's
payloads to `delivered` and the quarantine to `quarantined`.

### PositionTickSchedule

The reservation is `[at, token, confirmed]`, the unique job is `job`, WorkManager
is a serial list of `operations` whose `results` come back later. Requests are
`KeepSlot` or `Reserve` (under the schedule lock), then `EnqueueJob` or
`EnqueueThrows` (after it), then `Report` (settled by token). A pass takes the
mutex, decides (`NoNetwork`, `Defer`, `Attempt`), drains and then cancels or asks
for the next job; a worker first releases its own due slot (`DueSlotReleased`)
and, when it throws, records its retry (`RecordRetry`). All times are relative to
now and small: spacing, backoff and limits keep their order
(`Spacing <= Backoff <= Diagnostic <= LostAfter`).

### CaptureCoordinator

`caller[a]` is the place of the thread in `submit`, `task[a]` the place of the
Python thread in the `FutureTask` and its `done()`. `phase`, `running`,
`admitted` are the atomics and the map of the code; each of their operations is
a step of its own. The lanes `finisher` and `control` are bounded sequences whose
head is the job being worked on; a job records (`...Completes`) and then releases
the admission (`...Releases`). An offer to a lane with exactly its capacity
queued may go either way, as the thread may or may not have taken the head.
`marker[a]` is the attempt's journal file, `ledger` what is in an outbox, and
`Terminalize` has the outcomes of `terminalizeExact`: both stores took the
outcome, only the journal, only the outbox, neither. `CheckLive` and
`SettleOrphan` are the two halves of one reconciliation entry; anything may
happen between them. The worker refuses a task while the previous `done()` is
still dispatching (its `SynchronousQueue` has no idle thread), hence the
`SUBMIT_REJECTED` branch of `Execute`. Whether Python returned a value or threw is
chosen where it first makes a difference, in `ReceiveInTime`; a late exception and a
late value take the same way.

### CaptureJournal

`intent[a]`, `bundle` and `temp` are the files of an attempt, `outbox` the event
outbox, `taken` what the channels' outboxes hold, `sent` the uploaded events.
`work[t]` is what thread `t` is doing: the owner of the attempt or the reconciler,
which run the same code: `Enqueue` and `Checkpoint` per channel, `Emit`, `Witness`
and `Resolve` for a required event, `Mark` and `Tell` for a terminal outcome,
`MarkFinal`, `DeleteBundle` and `DeleteIntent` for the end. Reconciliation lists
intents (`Scan`, of any run that nobody owns now) and bundles without an intent (`ListOrphans`, `ScanOrphan`), then goes on from the
file (`Read`, `Adopt`, `Restore`). Every write of a file is a step that may be
refused; a death (`ProcessDies`) keeps the files and ends the threads.

The refinement maps bundle bytes, events held in intents and the event outbox to
`pending`, channel outboxes and uploads to `delivered`, and archived bytes and
events to `quarantined`. One exemption is in the mapping and named there: see
`replaced` in section 6.

### SingleLegStore

`doc` is the JSON document (positions, history, closed accounts, outcome of every
request), `lock` the file lock, `copy` the document as the holder read it. The
native side (`tap`, `seen`, `late`) copies the published state, fetches a quote,
reads the state again and calls; the call (`call[r]`) goes through `Enter`,
`Probe` and then `Duplicate`, `Reject` or `Open`. `TimesOut` leaves it running;
`Reconcile` then asks for the recorded outcome, `Expire` fences past the deadline
and grace. `Monitor` is one tick of the exits of all positions, with `EvaluateExit`
deciding from the quote's condition; `Publish`, `ChangeSettings`, `SessionMoves`,
`HalfHour` are the world. A critical section that calls nothing outside is one
step, an admission is three.

Every document that is written has been through `Bounded` (`_bound`), in the order of
the code: closed positions beyond the last `MaxFull` are compacted to tombstones
(`Compact`: request and exit reason are gone), tombstones of sessions that are not
`Recent`, or beyond `MaxTombstones`, leave the document, then accounts by session and
by `MaxClosed`, entries by `MaxHistory`, outcomes by `MaxRecorded` (`Retained`); at
last a document over the byte budget sheds evidence and then accounts (`Shed`). Two
things of it are abstracted, both towards more behaviour. Bytes are not counted: any
document of more than `AlwaysFit` positions may be over the budget at any write, by any
amount. And the positions, entries and accounts are sets: a list cut from the front
loses, of each index, the oldest (`Suffixes`), while between two indices, whose order in
the list is not modelled, either may go first. Which outcomes are the oldest is free. An
admission that cannot be made to fit is refused (`StoreFull`); what was shed for it, and
the place its entry took in the history, are not given back.

As the document forgets, the properties do not measure it against itself: `entered`
(which tap got the position of which proposal) and `filled` (whose exit was filled) are
history variables, written and never read by the actions. The refinement to
`SingleLegContract` takes the verdict of a tap from `entered` and the recorded
outcomes, and the answers from what was told.

### EvaluationRun

`claim` is the in-process claim of a session, `eval` the running evaluation and
its cursor, `job` the one cursor in the preferences, `file[d]`, `ledger[d]` what a
session has on disk, `active` the field `activeEvaluationRun` that the evaluation
and C3 share, `server` and `c3rows` the backend. An evaluation is `Start`,
`Begin`, `Resume`, `RunBatch` and `CommitCursor` per batch, `Validate`, the upload
(`SaveAcknowledged`, `SaveFails`, also acknowledged but missing), the read back
(`ReadFails`, `Certify`, `Repair`, `NotCertified`), `WriteDone` and `QueueC3`; the
C3 actions are another service action that takes no claim. `ProcessDies` may tear
the file that is being written. Continuations (`alarm`) and retries (`Request`,
`UserRequest`, `AlarmFires`) start it again.

One step each: the read and write-back of a stage in the ledger, the acceptance of
the upload contract (a free choice between match and mismatch). The budget test
before saving is that of the batch loop. The stages pending, running and failed
are one ("open"): nothing modelled tells them apart. A batch always yields an
outcome.

### RuleBTrade

The header of the module lists the actors. `acc` is `acceptances.json`
(`Reserve`, `Confirm`, `Cancel`, `Lapse`, `MarkClosed`, `MarkPersisted`, each atomic
under `EvAcceptance.LOCK`, with the caller's stale list and clock read before it),
`row` the `trades_v2` row, `open` the app's list and `copy` what MarketWatchService
will write back over it. `led` is the fill ledger: `Record` freezes a fill or an
unresolved exit, `WithIntent` the manual intent, `Acknowledged` and `Arbitrated`
the answers. `fill` and `tap` work (`RuleB...`, `Manual...`) is the PWA: journal the
patch, send the update, read the row back, acknowledge. `Arrives` applies an update
only to an OPEN row, `Lose` drops one. `Freeze` is the outcome the Python side
keeps for good (`_accepted_outcome`). `Reload` ends the WebView's work, `Die` the
process.

The PWA is not in this repository: its steps are those the bridge calls and
`docs/ev_v12/README.md` (C2, C3, D1) name, and they are marked external in the map.

## 3. Runs

| Run | Instance | What it shows |
|---|---|---|
| `TickQueue` | 4 rows: two of one payload with different identities, one in a key conflict, one blank; queue 2, chunk 2, 2 chunks a pass, 3 offered rows, 1 crash, identity column sent, fairness | no tick is lost, only hopeless rows are quarantined, no flag lies, memory and file keep what they have, the queue implements `EvidenceLedger` and empties |
| `ScheduleSerial` | executor and worker, 1 arrival, 1 death, fairness | waiting rows have a job behind a trusted slot and are attempted; deadlock checked |
| `ScheduleConcurrent` | plus a receiver, a refused operation, a throwing pass | an outcome confirms or clears only its own slot, and a pending slot has somebody who will; deadlock checked |
| `CaptureSafety` | 3 attempts of 3 keys (symmetric), lanes of 1, 1 death, 1 refused write | one completion each, none forgotten, outcome evident |
| `CaptureSettles` | 2 attempts of one key, 1 death, 1 refused write, fairness | one owner of a key, computed and interrupted attempts settle, `submit` returns |
| `CaptureJournal` | the files of 1 attempt, 2 channels, 2 deaths, 2 refused writes, fairness | implements `EvidenceLedger`, the outcome stays evident, files are removed |
| `SingleLegSafety` | 2 taps on one index (symmetric), 2 recorded outcomes, 2 entries, 2 decisions, 2 sessions, every list of the document cut to 1, documents of 2 positions over budget or not, 1 trouble | answers hold, one live position, nothing entered twice and ledgers that agree whatever is cut, exits stand, implements `SingleLegContract` |
| `SingleLegSettles` | the same with 1 decision and 1 session, fairness | every tap gets a definite answer |
| `EvaluationRun` | 2 sessions of 1 and 2 batches (the last research only), 1 trouble, fairness | labels on the server before the certificate, the cursor covered by the file, done is stored, every session gets done; deadlock checked |
| `EvaluationCursor` | the same with two sessions of equal length | *finding*: the cursor of another session is taken over |
| `RuleBTrade` | 2 decisions for one place, 1 manual close, 1 trouble | limit, journal, claims, outcome, close |
| `RuleBSettles` | 1 decision, 2 manual closes, 1 trouble, fairness | a fill settles, a commit arrives |

**Bounds.** Every bound is a constant `Max...` named in the guards of the actions
it bounds; nothing else is bounded.

* Queue: its cases need two rows in a chunk (one good, one duplicate or poison), a
  full queue, a second chunk and one arrival during a pass; three offered rows
  give all of them. `SendId = FALSE` (a table without the identity column) is
  covered by the theorems. `MaxTicks = 4` does not finish in useful time.
* Schedule: one stalled actor, one that overtakes it and one late outcome: three
  tokens. Tokens nobody holds are used again, in place of the code's counter.
* Capture: a lane of capacity 1 is full with two attempts, so a third meets the
  rejection; the production capacities (2 and 64) only make that state rarer.
* Journal: attempts share nothing but the caps of the stores, and a cap that is
  reached is a refused write, so one attempt with faults stands for many; the
  theorems are about any number. An instance with 3 faults and 1 death was checked
  as well.
* Single leg: two taps are the second tap, the late call and the fence. With two positions
  over two sessions, limits of 1 (20 full, 1000 tombstones, 10 sessions, 200 accounts, 400
  entries in production) and a budget that two positions may exceed, every cut of `_bound`
  happens: a position compacted, a tombstone dropped for its session, evidence and accounts
  shed, a refusal because the store is full. The document keeps 2 outcomes (200 in production), so
  none is dropped: `AnswersHold` and `VerdictsStand` hold only as long as none is (sections
  5 and 6). The 2 entries a session of the code are not reached, as the history keeps one;
  a re-entry after the gap is. A trouble is a death, a refused replacement of the document,
  a clock set back or a change of settings.
* Evaluation: two sessions are what it takes to disturb a shared cursor, claim and
  run field. With unequal lengths the saved total tells the sessions apart and
  `CursorCovered` holds; with equal lengths it does not, which is the finding.
* Rule B: `MaxOpen = 1` (2 in production) with two decisions is the contest for
  the last place. A trouble is a death, a WebView reload, a lost update or a list
  rewrite. Two reservations per decision were checked too, before lost updates
  were added.

Symmetry is used only in runs without liveness, over values the constants do not
tell apart. `CHECK_DEADLOCK FALSE` stands where the system does stop: all ticks
uploaded, all polls returned, all files removed, all taps answered, all positions
closed.

**Mutants.** `PROJECT.json` lists for each property of a passing run a plausible
mistake in a mapped definition (the whole chunk removed instead of the
acknowledged rows, a stage marked before its event is durable, the manual intent
over a fill, ...) under which TLC finds the property violated.

## 4. Fairness

* Queue: a started pass runs on and a pass is requested whenever rows wait
  (enqueue, start, connectivity: `PositionTickUploadRunner`); a server asked again
  and again eventually answers (strong fairness of the two answer actions).
* Schedule: threads run, time passes, WorkManager executes its operations and
  starts a due job, the app is opened again after a death. "No network" is not
  found every single time (strong fairness of `Attempt \/ Defer`).
* Capture: every thread runs on, except Python: `Compute` has no fairness, a call
  may last forever. Reconciliation runs at start and at every poll
  (`MarketRadarApp.kt:65`, `MarketWatchService.kt:3441`) and comes to every file:
  strong fairness of `CheckLive(a)`, in the journal of `Scan(a)` and
  `ListOrphans`. Nobody has to submit, and uploads need not succeed.
* Single leg: the native thread, the call once it has the lock, and the clock go
  on. A waiter polls the lock with a bounded wait (`local_lock_v1.py:43`) and gets
  it in the end: strong fairness of `Enter` and of a fence that finds the lock
  free. `LockTimeout` may happen at any wait.
* Evaluation: a claimed evaluation is carried on; somebody (handoff, alarm, user)
  asks again for a session that is not done at moments when nothing holds the claim,
  and is heard. Without this the alarm alone does not suffice, see section 6.
* Rule B: the PWA is opened again after a death or reload and its reconciliation
  goes on; the server takes an update in the end, but each may be lost within
  `MaxTroubles`. Strong fairness of `Install`, as a rewrite of the list undoes it.

## 5. Proofs

`PositionTickQueueProofs` proves, from `ConstantsAssumption` alone (`Rows` may be
infinite: only the queue is finite):

* `TypeCorrect`: `[]TypeOK`. `TypeOK` is not inductive: the room left for a batch is
  a number only because both copies of the queue are finite with numbered entries
  (`Stamped`), and the chunk budget stays a natural only because it is tested before
  a chunk is selected. `Typed` adds the two.
* `TicksAreKept`: `[]NoTickLost`. The inductive invariant `Secured` adds
  `Confirmed == acked \subseteq server`: a row is acknowledged only when the server
  has it, or the removal after a chunk would lose it. Every step is of one of
  three kinds (`StepKinds`): it rewrites the preferences keeping every payload,
  it learns from the server, or the process dies and `disk` becomes `mem`.
* `MemoryKept`, `EvidenceIsDurable` (the queue implements `EvidenceLedger`) and
  `TickNeverForgotten` (once in the file, accounted for ever after) from the same
  lemma.
* `TrackingIsHonest`, `GoodRowsStay`, `QueueIsBounded`: `OnlyPoison` also speaks of the
  file and of the rows a pass has marked; the bound needs that dedupe never adds
  entries (`DedupeFewer`) and that the admitted ones fit (`ArrivalsFit`).

The other modules follow the same scheme: the type invariant with what it needs to
be inductive (`Typed`), the inductive invariant in named parts, one lemma per part
that every step keeps it, one step per action in each lemma, and for each variable
or group of variables a lemma on the actions that touch it. Each invariant was
checked by TLC on the instance of its run before it was proved. The assumptions
are those of the model's modules: the order of constants, and that the value for
"absent" is none of the values it is compared with.

`PositionTickScheduleProofs` (`ScheduleAssumption`; any threads, tokens, delays and
numbers of disturbances):

* `TypeCorrect`: no due time or delay is ever negative, for any spacing and backoff
  in the order of the code.
* `SlotIsOwned`: `[]SlotHasOwner`. A late outcome confirms or clears only the slot of
  its own token. The invariant adds `Returning` (WorkManager's answer comes to a
  thread that has returned, and once), `GoodResults` (an outcome reported as good is
  of a token granted to an operation that was carried out), `SlotTrusted` and
  `SlotPending`, the halves of the property for a confirmed and a pending slot.
* `PassesExclude`: two passes never drain at once. No run checks it on its own;
  `PositionTickQueue`, which has one pass, relies on it.
* `RowsAreServed`: `[]RowsHaveJob` under `PassesAlone` (no receivers, no pass that
  throws; any number of refused operations and deaths). The invariant `Serial` follows
  the slot: the thread that is about to enqueue for it (`SlotAttempted`), the operation
  that does and that no cancellation follows (`SlotAsked`), and from its execution on
  the job, due no earlier than the slot (`SlotBacked`). So a request that keeps the slot
  may rely on the job, and pending rows always have a trigger, a pass, an operation or a
  job (`RowsCovered`); what arrives while a pass cancels is seen by the pass triggered
  with it (`CancelIsSeen`). Both halves of the hypothesis are needed: TLC finds a
  trusted slot without a job as soon as one receiver, or one throwing pass of the
  executor, may stall between its reservation and its enqueue and so replace the job of
  a newer slot (`PositionTickDrainCoordinator.kt:208`, section 6). `Serial` was checked by
  TLC with two workers and one refused operation before it was proved.

`CaptureCoordinatorProofs` (`CaptureAssumption`; any attempts, keys, lane capacities,
deaths and refused writes):

* `TypeCorrect`: a lane holds at most its capacity and the running job.
* `OneOwner`: `[]OneCompletion`. The invariant `Local(a)` speaks of one attempt: where
  it stands before the Python thread has it (`Entering`), while its caller waits
  or was told LATE (`Waiting`), who has to complete it once its phase is claimed
  - caller, `done()` or a lane, never two of them (`Duties`, `Unfinished`) - and what
  is stored of it (`Told`). A step touches one attempt, two at most, and leaves
  the others as they are (`SameKeeps`).
* `OwnersExclude`: `[]OneOwnerPerKey`, from `Told` and `OneAdmitted`: an attempt with an
  open intent is in the admission map, where a key has one attempt.

`CaptureJournalProofs` (`JournalAssumption`, `AbsentAssumption`; any attempts, channels,
expectations of `build`, deaths and refused writes; the run has one attempt):

* `TypeCorrect`, `EvidenceIsDurable` (the files and outboxes implement `EvidenceLedger`;
  `CaptureNeverForgotten` says so of a single item, for ever) and `OutcomesEvident` (`OutcomeIsEvident`: two invariants and the action property that
  the last trace of an attempt is never taken away) rest on one invariant, `Inv`.
* `FileTrue(a)`: what a file says is so. A channel is called enqueued only when its
  outbox has the bytes (`Good`), FINAL stands for a handed-over bundle, TERMINAL
  for an event that is still pending or was told.
* `ThreadTrue(w)`: what a thread has behind it when it gives something up. It deletes the
  bundle and the intent only after every byte was handed over (`Closing`) and nothing is
  pending, resolves a pending event only after the outbox had it.
* `OwnerTrue` and `AdmissionTrue`: the owner counts on its bundle and is admitted while it
  does; reconciliation keeps off an admitted attempt. Two threads are at one attempt only
  while a skip, which is not admitted, writes its marker: such an attempt was never built
  (`Alone`), so neither can remove what the other counts on.
* The argument is in three layers: no step takes anything back (`Grow`), every step writes
  or removes a file for a reason (`Kept`, `BundleStep`), hence the trace stays
  (`EvidentStep`); the acting thread fits its next place (`Fits`, one lemma per action); the
  others are left alone (`OtherThread`, `OtherOwner`).

`SingleLegStoreProofs` (`StoreAssumption`; any taps, indices, limits of the document,
sessions and troubles):

* `TypeCorrect`, with `Planned` and `Locked`: a key has one position in a document, and the
  holder of the lock works on a copy that equals the document, and its request has no
  outcome yet. The first lemmas say what each part of `Bounded` may take away and that
  nothing live is touched (`Cut`, `CutLive`).
* `OneLive`: `[]OneLivePerIndex`, from the ways a step may change the document (`DocStep`):
  not at all, losing evidence, a position entered by the holder, positions advanced by
  the monitor.
* `ExitsAreFinal`: `Spec => ExitsStand`, for any limits: a position stays until its exit is
  filled, for the reason decided; afterwards it only loses its evidence, or leaves; an
  account is written for the reason decided even when the position is compacted in the
  same write. The invariant is `Decided`.
* `LedgersStayInStep`: `Spec /\ []TombstonesFit => []LedgersAgree`, with
  `TombstonesFit == Cardinality(doc.positions) <= MaxTombstones`. The danger is that a
  proposal is forgotten while it could still be admitted, so that a second tap enters it
  again. `Dated` says that what is not older than the admission limit is of the current
  session and so survives the cut by session; the hypothesis excludes the other cut, that
  of the tombstones by number. The code has room: 2 indices, 2 entries a session and 10
  sessions make 40 tombstones, with 20 full and 2 live positions, of 1000. `OneStory` says
  without numbers what remains in step (`Taps`, `Placed`, `Stamps`, `Accounting`,
  `Remembered`), and the counts of the property are derived from it. The run, with
  2 positions and `MaxTombstones = 1`, is outside the hypothesis and holds all the same: with
  one index the oldest tombstone goes first.
* `AnswersStayTrue` and `OneVerdict` (the store implements `SingleLegContract`) have the
  hypothesis `NothingPruned == Cardinality(Requests) <= MaxRecorded`: no outcome is ever
  dropped, while positions, entries and accounts may be. It is needed: a dropped outcome is
  unknown, so its tap is fenced and answered REJECTED though it was admitted (section 6).
  `Accountable` says that a recorded outcome is true and that whoever was told something
  has its outcome recorded, or was refused without one.

`EvaluationRunProofs` (`EvaluationAssumption`, `AbsentAssumption`; any sessions, totals
and troubles):

* `TypeCorrect`, with `Placed`: while the claim is held nothing replaces the shared run
  field, and rows are sent only from a file that was replaced or could be read.
* `CertificatesTrue`: `[]LabelsOnServer`. A ledger counts as saved what was read back
  from the server, which loses nothing (`Certified`).
* `CursorIsCovered`: `[]CursorCovered`, under `LengthsTell` (two sessions never have the
  same number of batches). Without it the property is false: that is the finding
  `EvaluationCursor`.
* `DoneIsTrue`: `[]DoneIsStored`, under `LengthsTell \/ AllLabels`: with the cursor of
  another session the certificate still asks for all labels, so a session whose
  rows are all labels is done only when all are stored.

`RuleBTradeProofs` (`TradeAssumption`; any decisions, structures, limit, closes by hand
and troubles). One invariant, `Inv`, carries all five results: `Typed`, for every
decision `Local(d)` and for the list `HeldFit`.

* `Local(d)` has one part per place a close can be: `AcceptedTrue` (acceptance and its
  frozen outcome), `RowTrue`, `SentTrue` (updates on their way), `ClaimsTrue` (what the
  ledger claims of the row), `RuleBTrue` and `ManualTrue` (each fill's and each manual
  close's work in the PWA), `OutcomeIs`. The hard case is an update that is applied
  late: its patch must have been journalled, and stay, whatever was told since.
* `HeldFit`: open positions and reservations together are within the limit and differ in
  structure. Lapsed reservations that may still be confirmed count as well: without them
  a confirmation could exceed the limit.
* `LimitKept`, `RowIsJournaled`, `ClaimsHold` and `OutcomesTrue` state the four
  invariants of the run, `ClosesStand` its action property.

Model-checked only:

* all liveness (`QueueDrains`, `RowsAttempted`, `CompletedIsSettled`, `SubmitReturns`,
  `FilesReleased`, `TapAnswered`, `EverySessionDone`, `FillSettles`, `CommitArrives`),
  as fairness is out of the prover's reach. Every invariant and action property of
  the runs is a theorem; `RowsHaveJob`, `CursorCovered`, `DoneIsStored`, `AnswersHold` and
  `VerdictsStand` under the hypotheses above, which their runs satisfy by their constants,
  and `LedgersAgree` under `TombstonesFit`, which its run does not need.

## 6. Findings and observations

One finding has a run, with its quote in `PROJECT.json`: `EvaluationCursor`. The
resume test compares a session's date that the start itself has just written and a
total that another session may share, so an interrupted session goes on from
another session's cursor and can never be certified.

The modelling met more places where the code and its docs differ, or which a
maintainer should know. They keep no run; where a property would have said the
opposite, its comment names what it says instead.

*Queue and schedule.*
- An enqueue reports the history complete while the quarantine holds rows
  (`PositionTickFlush.kt:403`, against
  `docs/SUPABASE_SAFE_CONTAINMENT_REVIEW_20260927.md:70`).
- Rows are said to be sent oldest first (`PositionTickDrain.kt:245`), but dedupe groups
  by key (`PositionTickFlush.kt:437`), so a later row can overtake an earlier one.
- A worker that throws writes a retry slot for a job WorkManager may not keep
  (`PositionTickDrainCoordinator.kt:331`); until `LostAfter` nobody replaces it.
- A pass that stalls between reservation and enqueue replaces a receiver's newer,
  earlier job (`PositionTickDrainCoordinator.kt:208`, against line 163).

*Capture.*
- A refused terminal marker leaves an intent without an owner until the next
  reconciliation (`CaptureCoordinator.kt:252-256`).
- The check that a capture is already completed and its submission are two steps
  (`MarketWatchService.kt:3028`); `CaptureCoordinator.kt:25` says the completion is
  local, not global.
- "A stage never moves backwards" (`CaptureStorage.kt:169`): with three refused
  writes, restoring an intent for an orphan bundle (lines 326-333) can overwrite a
  terminal marker written since the bundles were listed, and with it a pending
  event. The refinement counts such an event as `replaced`.
- `CHANNEL_LOST_NO_DURABLE_COPY` can be announced although the bundle is on disk
  (its update of the intent was refused); reconciliation later delivers it
  (`CaptureEngine.kt:486`). An orphan bundle whose channels all resolve is not
  deleted (return at line 496) but resumed again.

*Single leg.*
- The document keeps 200 outcomes: the status of an older admitted tap is unknown,
  so it is fenced and answered REJECTED, against "never a guessed negative
  outcome" (`SingleLegAdmissionCoordinator.kt:100`).
- A closed position does not keep its exit reason or request: beyond the last 20, or over
  the byte budget, `_compact` drops both (`single_leg_store_v1.py:75-79`, 88-90, 105-108),
  and after 10 sessions the tombstone leaves as well (91-95). A position that was open for
  long and closes now may lose its evidence in the very write that closes it. Its account
  still has the reason, until it is cut too (96-98, 109-110); entries go after 400 (99).
- A proposal is not forgotten while it can be admitted: `ADMIT_MAX_DECISION_AGE_S` is
  minutes, the tombstones' retention is in sessions. Nothing but the size of
  `MAX_TOMBSTONES` says so for the cut by number.
- A tap refused with SINGLE_LEG_STORE_FULL has cost the document all its closed evidence,
  its accounts and, with a full history, its oldest entry: the position and entry are taken
  back (`single_leg_store_v1.py:341-344`), what `_bound` cut for them is not.
- A position in EXIT_PENDING without a valid quote blocks its index.

*Evaluation.*
- C3 takes no claim and loads its run only when `activeEvaluationRun` is null
  (`MarketMLService.kt:2506`), so the C3 of one session can mark another session's
  ledger verified, whose own C3 is then skipped; line 3610 says "C3 is a
  separate restartable stage".
- A continuation alarm is lost when it fires while another session holds the claim
  or when a reminder overwrites PendingIntent 1002 (lines 365-387).
- C3 is started only at line 3613: a death between the done date and this start
  is not made good automatically.
- A failure before the inputs are known writes "0 of 0" and so discards the
  checkpoint.

*Rule B.*
- `EXIT_FILLED` with a manual close pending, then REMOTE_CONFIRMED: the flag stays
  set and is no longer offered, so the frozen outcome waits for the 5-day timeout
  if the WebView dies before it reports its result.
- An unresolved exit with a manual intent, then REMOTE_CONFIRMED: `pending()`
  (`RuleBFillLedger.kt:112`) no longer offers it though the row is OPEN, against
  `docs/ev_v12/README.md:133-134`.
- A manual close noted over a late position does not copy `late_since_ms`
  (`RuleBFillLedger.kt:259-261`; `manualCloseRequest` does, line 210): withdrawn later, it
  leaves the position OPEN, not LATE_EXIT_PENDING.
- A crash between the record and its economics leaves the net unknown.
- The slot mirror is not repaired after a crash between ledger and slot unless
  the confirmation is replayed; `reconcile_quarantine` has no caller.

*Backfill (read, not modelled).* The incremental tool marks a day done with no rows
when snapshots arrive later; its upsert on `id` can collide with a unique index
without `snapshot_id` on a second run; its limit of 60 seeds counts NULL rows.

## 7. Not modelled

* **Brain, learning, replay** (the bulk of the Python lines): scoring over floats and
  market data; there is no protocol, and a model over small integers would not
  be faithful to it.
* **Evidence outboxes**: the pattern of `CaptureJournal`'s outbox, one file per object;
  planned as refinements of `EvidenceLedger`.
* **Position marks, poll history, analysis authority, experiment mode**: a single
  writer, files replaced atomically, or pure functions.
* **Services, schedulers, UI, research export, offline tools**: Android glue, network
  polling, scripts over exported data. Where they call a modelled part they
  are actions of it.
* **Of the modelled parts**: prices, fees, margins and the wording of refusals; the bytes of the
  single-leg document and the order of its lists across indices (section 2); unreadable or
  tampered files; health counters; the CAPTURE_STUCK and LATE_DELIVERED
  diagnostics; the quota cooldown; in the evaluation the research aggregation,
  performance metrics, integrity gate and notification; in Rule B the slot mirror
  (it only serves the view), quarantine and pruning (14 and 30 days). Of
  `SupabaseClient` only the answers its callers distinguish; of the backend only
  the unique index, the atomic INSERT and the conditional update.

## 8. Plan

1. Done: queue, schedule, coordinator, journal, single leg, evaluation, Rule B, and
   the proofs about all of them.
2. A composition of schedule and queue, in which `PassesExclude` discharges the single
   pass the queue has.
3. Evidence outboxes (enqueue, collision, partial acceptance, retry, archive) as
   refinements of `EvidenceLedger`; position marks.

The runs take from seconds to about three minutes on two workers; `tlapm` proves
each module from nothing in one to a few minutes.
