--------------------------- MODULE CaptureCoordinator ---------------------------
(***************************************************************************)
(* One snapshot capture is one attempt: the poll thread submits it, a      *)
(* single Python thread computes it, and exactly one party completes it -  *)
(* the caller when the value comes in time, otherwise whoever wins the     *)
(* race between the caller's second look and FutureTask.done().  Late      *)
(* values and on-time values go through a bounded finisher thread, other   *)
(* records through a bounded control thread.  Reconciliation walks the     *)
(* journal in the background and settles what nobody owns.                 *)
(*                                                                         *)
(* A completion (onBuilt, onFailed, onFinisherRejected) is one step here,  *)
(* with what the stores may refuse; the writes inside it, and what becomes *)
(* of a built bundle, belong to the journal.  What a capture computes, its *)
(* timings and the CAPTURE_STUCK diagnostic are left out.                  *)
(***************************************************************************)
EXTENDS Naturals, FiniteSets, Sequences

CONSTANTS
    Attempts,      \* capture attempts, each submitted by a poll thread
    KeyOf,         \* [Attempts -> capture key]
    None,
    FinisherRoom,  \* queued jobs of the finisher
    ControlRoom,   \* queued jobs of the control lane
    MaxDeaths,     \* bound: process deaths
    MaxFaults      \* bound: refused writes to the journal or the event outbox

ASSUME CaptureAssumption ==
    /\ DOMAIN KeyOf = Attempts /\ None \notin Attempts
    /\ FinisherRoom \in Nat \ {0} /\ ControlRoom \in Nat \ {0}
    /\ MaxDeaths \in Nat /\ MaxFaults \in Nat

VARIABLES
    caller,      \* where the thread that submits the attempt is
    task,        \* what the Python thread does for the attempt
    phase,       \* Cell.phase
    running,     \* the computation slot
    admitted,    \* attempts in the admission map
    worker,      \* the attempt the Python thread is busy with
    finisher,    \* attempts handed to the finisher, the running one first
    control,     \* jobs of the control lane
    marker,      \* journal file of the attempt: "none", "intent", "terminal"
    completions, \* how often some party settled the attempt
    ledger,      \* attempts whose outcome is in an outbox
    torn,        \* attempts whose outcome the journal refused
    undurable,   \* attempts whose outcome journal and outbox refused
    orphan,      \* reconciliation: attempt found to have no live owner
    deaths, faults

queues == <<finisher, control>>
cells == <<task, phase, running, admitted, worker>>
evidence == <<marker, completions, ledger, torn, undurable>>
bounds == <<deaths, faults>>
vars == <<caller, cells, queues, evidence, orphan, bounds>>

Init ==
    /\ caller = [a \in Attempts |-> "idle"]
    /\ task = [a \in Attempts |-> "none"]
    /\ phase = [a \in Attempts |-> "running"]
    /\ running = None /\ admitted = {} /\ worker = None
    /\ finisher = <<>> /\ control = <<>>
    /\ marker = [a \in Attempts |-> "none"]
    /\ completions = [a \in Attempts |-> 0]
    /\ ledger = {} /\ torn = {} /\ undurable = {}
    /\ orphan = None
    /\ deaths = 0 /\ faults = 0

Goto(a, where) == caller' = [caller EXCEPT ![a] = where]

-----------------------------------------------------------------------------
(***************************************************************************)
(* submit: first the admission of the capture key, then the slot.          *)
(***************************************************************************)
\* Mutation: the admission map is keyed by attempt.
OwnerByAttempt(a) == admitted \cap {a}

Owner(a) == {b \in admitted : KeyOf[b] = KeyOf[a]}

Admit(a) ==
    /\ caller[a] = "idle"
    /\ IF Owner(a) = {}
       THEN admitted' = admitted \cup {a} /\ Goto(a, "claim")
       ELSE Goto(a, "note") /\ UNCHANGED admitted
    /\ UNCHANGED <<task, phase, running, worker, queues, evidence, orphan, bounds>>

ClaimSlot(a) ==
    /\ caller[a] = "claim"
    /\ IF running = None
       THEN running' = a /\ Goto(a, "intent")
       ELSE Goto(a, "withdraw") /\ UNCHANGED running
    /\ UNCHANGED <<task, phase, admitted, worker, queues, evidence, orphan, bounds>>

(***************************************************************************)
(* The slot is taken: the admission is withdrawn and the skip is written   *)
(* to the journal before anything else.                                    *)
(***************************************************************************)
Withdraw(a) ==
    /\ caller[a] = "withdraw"
    /\ admitted' = admitted \ {a}
    /\ Goto(a, "checkpoint")
    /\ UNCHANGED <<task, phase, running, worker, queues, evidence, orphan, bounds>>

CheckpointSkip(a) ==
    /\ caller[a] = "checkpoint"
    /\ \/ /\ marker' = [marker EXCEPT ![a] = "terminal"]
          /\ Goto(a, "offer skip")
          /\ UNCHANGED faults
       \/ /\ faults < MaxFaults /\ faults' = faults + 1
          /\ Goto(a, "record skip")
          /\ UNCHANGED marker
    /\ UNCHANGED <<cells, queues, completions, ledger, torn, undurable, orphan, deaths>>

\* Mutation: one job more than the capacity is accepted.
AcceptsOneMore(queue, room) == Len(queue) <= room + 1

(***************************************************************************)
(* A bounded queue with one thread: the job the thread works on is at the  *)
(* head and does not count, unless the thread is between two jobs.         *)
(***************************************************************************)
Accepts(queue, room) == Len(queue) <= room

Rejects(queue, room) == Len(queue) >= room

OfferSkip(a) ==
    /\ caller[a] = "offer skip"
    /\ \/ /\ Accepts(control, ControlRoom)
          /\ control' = Append(control, [kind |-> "skip", attempt |-> a])
          /\ Goto(a, "skipped")
       \/ /\ Rejects(control, ControlRoom)
          /\ Goto(a, "record skip")
          /\ UNCHANGED control
    /\ UNCHANGED <<cells, finisher, evidence, orphan, bounds>>

(***************************************************************************)
(* terminalizeExact: the outcome goes into the journal marker, then into   *)
(* the outbox, and the marker goes when both took it.  A refusal by one is *)
(* not the end; a marker that was already terminal stays so.               *)
(***************************************************************************)
Terminalize(a) ==
    \/ /\ marker' = [marker EXCEPT ![a] = "none"]
       /\ ledger' = ledger \cup {a}
       /\ UNCHANGED <<torn, undurable, faults>>
    \/ /\ faults < MaxFaults /\ faults' = faults + 1
       /\ marker' = [marker EXCEPT ![a] = "terminal"]
       /\ UNCHANGED <<ledger, torn, undurable>>
    \/ /\ faults < MaxFaults /\ faults' = faults + 1
       /\ ledger' = ledger \cup {a}
       /\ torn' = torn \cup {a}
       /\ UNCHANGED <<marker, undurable>>
    \/ /\ faults < MaxFaults /\ faults' = faults + 1
       /\ torn' = torn \cup {a}
       /\ undurable' = IF marker[a] = "terminal" THEN undurable ELSE undurable \cup {a}
       /\ UNCHANGED <<marker, ledger>>

RecordSkip(a) ==
    /\ caller[a] = "record skip"
    /\ Terminalize(a)
    /\ Goto(a, "skipped")
    /\ UNCHANGED <<cells, queues, completions, orphan, deaths>>

(***************************************************************************)
(* The slot is ours: the intent is written, whatever the disk says, and    *)
(* the task is given to the Python thread, which refuses when it has not   *)
(* yet returned from the previous task.                                    *)
(***************************************************************************)
WriteIntent(a) ==
    /\ caller[a] = "intent"
    /\ \/ marker' = [marker EXCEPT ![a] = "intent"] /\ UNCHANGED faults
       \/ faults < MaxFaults /\ faults' = faults + 1 /\ UNCHANGED marker
    /\ Goto(a, "execute")
    /\ UNCHANGED <<cells, queues, completions, ledger, torn, undurable, orphan, deaths>>

\* Mutation: a refused attempt gives up its admission before it is recorded.
ExecuteWithdraws(a) ==
    /\ caller[a] = "execute"
    /\ IF worker = None
       THEN /\ worker' = a
            /\ task' = [task EXCEPT ![a] = "computing"]
            /\ Goto(a, "wait")
            /\ UNCHANGED <<running, admitted, phase>>
       ELSE /\ running' = IF running = a THEN None ELSE running
            /\ admitted' = admitted \ {a}
            /\ phase' = [phase EXCEPT ![a] = "caller"]
            /\ Goto(a, "record failure")
            /\ UNCHANGED <<worker, task>>
    /\ UNCHANGED <<queues, evidence, orphan, bounds>>

Execute(a) ==
    /\ caller[a] = "execute"
    /\ IF worker = None
       THEN /\ worker' = a
            /\ task' = [task EXCEPT ![a] = "computing"]
            /\ Goto(a, "wait")
            /\ UNCHANGED <<running, phase>>
       ELSE /\ running' = IF running = a THEN None ELSE running
            /\ phase' = [phase EXCEPT ![a] = "caller"]
            /\ Goto(a, "record failure")
            /\ UNCHANGED <<worker, task>>
    /\ UNCHANGED <<admitted, queues, evidence, orphan, bounds>>

-----------------------------------------------------------------------------
(***************************************************************************)
(* The Python thread.  The result is visible to the caller before done()   *)
(* runs; done() frees the slot, then looks whether the wait is over.       *)
(***************************************************************************)
Compute(a) ==
    /\ task[a] = "computing"
    /\ task' = [task EXCEPT ![a] = "completed"]
    /\ UNCHANGED <<caller, phase, running, admitted, worker, queues, evidence, orphan, bounds>>

ReleaseSlot(a) ==
    /\ task[a] = "completed"
    /\ running' = IF running = a THEN None ELSE running
    /\ task' = [task EXCEPT ![a] = "done"]
    /\ UNCHANGED <<caller, phase, admitted, worker, queues, evidence, orphan, bounds>>

\* Mutation: done() dispatches without claiming the phase.
DoneClaimsUnconditionally(a) ==
    /\ task[a] = "done"
    /\ task' = [task EXCEPT ![a] = IF phase[a] \in {"late", "claimed"} THEN "dispatch" ELSE "over"]
    /\ worker' = IF phase[a] \in {"late", "claimed"} THEN worker ELSE None
    /\ phase' = [phase EXCEPT ![a] = IF @ = "late" THEN "claimed" ELSE @]
    /\ UNCHANGED <<caller, running, admitted, queues, evidence, orphan, bounds>>

DoneClaims(a) ==
    /\ task[a] = "done"
    /\ IF phase[a] = "late"
       THEN /\ phase' = [phase EXCEPT ![a] = "claimed"]
            /\ task' = [task EXCEPT ![a] = "dispatch"]
            /\ UNCHANGED worker
       ELSE /\ task' = [task EXCEPT ![a] = "over"]
            /\ worker' = None
            /\ UNCHANGED phase
    /\ UNCHANGED <<caller, running, admitted, queues, evidence, orphan, bounds>>

-----------------------------------------------------------------------------
(***************************************************************************)
(* The caller's wait for a value or an exception.  It can expire just      *)
(* before the result is there; after publishing LATE the caller looks once *)
(* more.                                                                   *)
(***************************************************************************)
ReceiveInTime(a) ==
    /\ caller[a] = "wait" /\ task[a] # "computing"
    /\ phase' = [phase EXCEPT ![a] = "caller"]
    /\ Goto(a, "offer value") \/ Goto(a, "record failure")
    /\ UNCHANGED <<task, running, admitted, worker, queues, evidence, orphan, bounds>>

\* Mutation: the caller waits without a limit.
NeverExpires(a) ==
    /\ caller[a] = "wait" /\ task[a] = "computing"
    /\ UNCHANGED vars

Expire(a) ==
    /\ caller[a] = "wait" /\ task[a] = "computing"
    /\ Goto(a, "expired")
    /\ UNCHANGED <<cells, queues, evidence, orphan, bounds>>

PublishLate(a) ==
    /\ caller[a] = "expired"
    /\ phase' = [phase EXCEPT ![a] = "late"]
    /\ Goto(a, "look again")
    /\ UNCHANGED <<task, running, admitted, worker, queues, evidence, orphan, bounds>>

\* Mutation: the caller relies on done() alone.
NeverLooksAgain(a) ==
    /\ caller[a] = "look again"
    /\ Goto(a, "note")
    /\ UNCHANGED <<cells, queues, evidence, orphan, bounds>>

LookAgain(a) ==
    /\ caller[a] = "look again"
    /\ IF task[a] # "computing" /\ phase[a] = "late"
       THEN phase' = [phase EXCEPT ![a] = "claimed"] /\ Goto(a, "dispatch")
       ELSE Goto(a, "note") /\ UNCHANGED phase
    /\ UNCHANGED <<task, running, admitted, worker, queues, evidence, orphan, bounds>>

(***************************************************************************)
(* lightly(onLatePending): dropped when the control lane is full.          *)
(***************************************************************************)
NoteLate(a) ==
    /\ caller[a] = "note"
    /\ \/ /\ Accepts(control, ControlRoom)
          /\ control' = Append(control, [kind |-> "note", attempt |-> a])
       \/ Rejects(control, ControlRoom) /\ UNCHANGED control
    /\ Goto(a, "returned")
    /\ UNCHANGED <<cells, finisher, evidence, orphan, bounds>>

-----------------------------------------------------------------------------
(***************************************************************************)
(* A completion settles the attempt as far as the stores allow; the        *)
(* admission is released by the step that follows, whatever they said.     *)
(***************************************************************************)
Complete(a) ==
    /\ completions' = [completions EXCEPT ![a] = @ + 1]
    /\ Terminalize(a)

Recorded(a) == completions[a] > 0

(***************************************************************************)
(* On time the caller has the value: it runs the completion itself when    *)
(* the finisher is full.                                                   *)
(***************************************************************************)
OfferValue(a) ==
    /\ caller[a] = "offer value"
    /\ \/ /\ Accepts(finisher, FinisherRoom)
          /\ finisher' = Append(finisher, a)
          /\ Goto(a, "returned")
       \/ /\ Rejects(finisher, FinisherRoom)
          /\ Goto(a, "record value")
          /\ UNCHANGED finisher
    /\ UNCHANGED <<cells, control, evidence, orphan, bounds>>

CallerCompletes(a) ==
    /\ caller[a] \in {"record failure", "record value", "record rejection"}
    /\ Complete(a)
    /\ Goto(a, IF caller[a] = "record rejection" THEN "release late" ELSE "release")
    /\ UNCHANGED <<cells, queues, orphan, deaths>>

CallerReleases(a) ==
    /\ caller[a] \in {"release", "release late"}
    /\ admitted' = admitted \ {a}
    /\ Goto(a, IF caller[a] = "release late" THEN "note" ELSE "returned")
    /\ UNCHANGED <<task, phase, running, worker, queues, evidence, orphan, bounds>>

(***************************************************************************)
(* dispatchLate: to the finisher, or as a rejection to the control lane,   *)
(* or as a rejection recorded by the dispatching thread.                   *)
(***************************************************************************)
HandOver(a) ==
    \/ /\ Accepts(finisher, FinisherRoom)
       /\ finisher' = Append(finisher, a)
       /\ UNCHANGED control
    \/ /\ Rejects(finisher, FinisherRoom) /\ Accepts(control, ControlRoom)
       /\ control' = Append(control, [kind |-> "rejected", attempt |-> a])
       /\ UNCHANGED finisher

BothLanesReject == Rejects(finisher, FinisherRoom) /\ Rejects(control, ControlRoom)

CallerDispatches(a) ==
    /\ caller[a] = "dispatch"
    /\ \/ HandOver(a) /\ Goto(a, "note")
       \/ BothLanesReject /\ Goto(a, "record rejection") /\ UNCHANGED queues
    /\ UNCHANGED <<cells, evidence, orphan, bounds>>

WorkerDispatches(a) ==
    /\ task[a] = "dispatch"
    /\ \/ /\ HandOver(a)
          /\ task' = [task EXCEPT ![a] = "over"] /\ worker' = None
       \/ /\ BothLanesReject
          /\ task' = [task EXCEPT ![a] = "record rejection"]
          /\ UNCHANGED <<worker, queues>>
    /\ UNCHANGED <<caller, phase, running, admitted, evidence, orphan, bounds>>

WorkerCompletes(a) ==
    /\ task[a] = "record rejection"
    /\ Complete(a)
    /\ task' = [task EXCEPT ![a] = "release"]
    /\ UNCHANGED <<caller, phase, running, admitted, worker, queues, orphan, deaths>>

WorkerReleases(a) ==
    /\ task[a] = "release"
    /\ admitted' = admitted \ {a}
    /\ task' = [task EXCEPT ![a] = "over"] /\ worker' = None
    /\ UNCHANGED <<caller, phase, running, queues, evidence, orphan, bounds>>

-----------------------------------------------------------------------------
(***************************************************************************)
(* The finisher and the control lane: a job records, then releases.        *)
(***************************************************************************)
FinisherCompletes ==
    /\ finisher # <<>> /\ ~Recorded(Head(finisher))
    /\ Complete(Head(finisher))
    /\ UNCHANGED <<caller, cells, queues, orphan, deaths>>

FinisherReleases ==
    /\ finisher # <<>> /\ Recorded(Head(finisher))
    /\ admitted' = admitted \ {Head(finisher)}
    /\ finisher' = Tail(finisher)
    /\ UNCHANGED <<caller, task, phase, running, worker, control, evidence, orphan, bounds>>

ControlNotes ==
    /\ control # <<>> /\ Head(control).kind = "note"
    /\ control' = Tail(control)
    /\ UNCHANGED <<caller, cells, finisher, evidence, orphan, bounds>>

ControlSkips ==
    /\ control # <<>> /\ Head(control).kind = "skip"
    /\ Terminalize(Head(control).attempt)
    /\ control' = Tail(control)
    /\ UNCHANGED <<caller, cells, finisher, completions, orphan, deaths>>

ControlCompletes ==
    /\ control # <<>> /\ Head(control).kind = "rejected"
    /\ ~Recorded(Head(control).attempt)
    /\ Complete(Head(control).attempt)
    /\ UNCHANGED <<caller, cells, queues, orphan, deaths>>

ControlReleases ==
    /\ control # <<>> /\ Head(control).kind = "rejected"
    /\ Recorded(Head(control).attempt)
    /\ admitted' = admitted \ {Head(control).attempt}
    /\ control' = Tail(control)
    /\ UNCHANGED <<caller, task, phase, running, worker, finisher, evidence, orphan, bounds>>

-----------------------------------------------------------------------------
(***************************************************************************)
(* Reconciliation: asks for every file of the journal whether its attempt  *)
(* is live, and settles it by what the file says a moment later if not.    *)
(***************************************************************************)
IsLive(a) == a \in admitted \/ running = a

CheckLive(a) ==
    /\ orphan = None /\ marker[a] # "none" /\ ~IsLive(a)
    /\ orphan' = a
    /\ UNCHANGED <<caller, cells, queues, evidence, bounds>>

SettleOrphan ==
    /\ orphan # None
    /\ CASE marker[orphan] = "intent" -> Complete(orphan)
         [] marker[orphan] = "terminal" -> Terminalize(orphan) /\ UNCHANGED completions
         [] marker[orphan] = "none" -> UNCHANGED <<evidence, faults>>
    /\ orphan' = None
    /\ UNCHANGED <<caller, cells, queues, deaths>>

(***************************************************************************)
(* The process dies: threads, queues, slot and admissions are gone, the    *)
(* files stay.                                                             *)
(***************************************************************************)
Submitting(a) == caller[a] \notin {"idle", "skipped", "returned", "dead"}

ProcessDeath ==
    /\ deaths < MaxDeaths /\ deaths' = deaths + 1
    /\ caller' = [a \in Attempts |-> IF Submitting(a) \/ a \in admitted THEN "dead" ELSE caller[a]]
    /\ task' = [a \in Attempts |-> "none"]
    /\ running' = None /\ admitted' = {} /\ worker' = None
    /\ finisher' = <<>> /\ control' = <<>>
    /\ orphan' = None
    /\ UNCHANGED <<phase, evidence, faults>>

-----------------------------------------------------------------------------
CallerStep(a) ==
    \/ ClaimSlot(a) \/ Withdraw(a) \/ CheckpointSkip(a) \/ OfferSkip(a) \/ RecordSkip(a)
    \/ WriteIntent(a) \/ Execute(a)
    \/ ReceiveInTime(a) \/ Expire(a) \/ PublishLate(a) \/ LookAgain(a) \/ NoteLate(a)
    \/ OfferValue(a) \/ CallerCompletes(a) \/ CallerReleases(a) \/ CallerDispatches(a)

WorkerStep(a) ==
    ReleaseSlot(a) \/ DoneClaims(a) \/ WorkerDispatches(a) \/ WorkerCompletes(a) \/ WorkerReleases(a)

FinisherStep == FinisherCompletes \/ FinisherReleases
ControlStep == ControlNotes \/ ControlSkips \/ ControlCompletes \/ ControlReleases
ReconcileStep == SettleOrphan \/ \E a \in Attempts : CheckLive(a)

Next ==
    \/ \E a \in Attempts : Admit(a) \/ Compute(a) \/ CallerStep(a) \/ WorkerStep(a)
    \/ FinisherStep \/ ControlStep \/ ReconcileStep
    \/ ProcessDeath

Spec == Init /\ [][Next]_vars

(***************************************************************************)
(* Every thread runs on; Python need not ever return, and nobody has to    *)
(* submit anything.                                                        *)
(***************************************************************************)
Fairness ==
    /\ \A a \in Attempts : WF_vars(CallerStep(a)) /\ WF_vars(WorkerStep(a))
    /\ WF_vars(FinisherStep) /\ WF_vars(ControlStep) /\ WF_vars(SettleOrphan)
    /\ \A a \in Attempts : SF_vars(CheckLive(a))

FairSpec == Spec /\ Fairness

-----------------------------------------------------------------------------
TypeOK ==
    /\ caller \in [Attempts -> {"idle", "claim", "withdraw", "checkpoint",
          "offer skip", "record skip", "skipped", "intent", "execute", "wait", "expired",
          "look again", "dispatch", "note", "offer value", "record value", "record failure",
          "record rejection", "release", "release late", "returned", "dead"}]
    /\ task \in [Attempts -> {"none", "computing", "completed", "done", "dispatch",
                              "record rejection", "release", "over"}]
    /\ phase \in [Attempts -> {"running", "caller", "late", "claimed"}]
    /\ admitted \subseteq Attempts
    /\ running \in Attempts \cup {None} /\ worker \in Attempts \cup {None}
    /\ finisher \in Seq(Attempts)
    /\ control \in Seq([kind : {"note", "skip", "rejected"}, attempt : Attempts])
    /\ Len(finisher) <= FinisherRoom + 1 /\ Len(control) <= ControlRoom + 1
    /\ marker \in [Attempts -> {"none", "intent", "terminal"}]
    /\ completions \in [Attempts -> Nat]
    /\ ledger \subseteq Attempts /\ torn \subseteq Attempts /\ undurable \subseteq Attempts
    /\ orphan \in Attempts \cup {None}
    /\ deaths \in Nat /\ faults \in Nat

(***************************************************************************)
(* Exactly one completion owner: the caller, done(), the finisher, the     *)
(* control lane and reconciliation never record two outcomes of one        *)
(* attempt whose outcome the journal took (CaptureCoordinator.kt:25), and  *)
(* no completion falls between the caller and done(): once both are past   *)
(* it, the outcome is recorded or a job for it is queued.  A skipped slot  *)
(* leaves evidence before submit returns and a recorded outcome survives a *)
(* restart, unless journal and outbox both refused it.                     *)
(***************************************************************************)
Queued(a) ==
    \/ \E i \in DOMAIN finisher : finisher[i] = a
    \/ \E i \in DOMAIN control : control[i].attempt = a /\ control[i].kind = "rejected"

OneCompletion ==
    \A a \in Attempts :
        /\ a \notin torn => completions[a] <= 1
        /\ caller[a] = "returned" /\ task[a] = "over" => Recorded(a) \/ Queued(a)
        /\ caller[a] = "skipped" \/ Recorded(a) =>
              marker[a] = "terminal" \/ a \in ledger \/ a \in undurable

(***************************************************************************)
(* An open intent has a live owner as long as its process lives, so that   *)
(* reconciliation never takes it for an interrupted one, and two attempts  *)
(* of one capture key are never under way together: neither computes nor   *)
(* waits to be recorded beside the other.  An intent the journal refused   *)
(* to close is excepted.                                                   *)
(***************************************************************************)
OpenIntent(a) == marker[a] = "intent" /\ caller[a] # "dead" /\ a \notin torn

OneOwnerPerKey ==
    \A a, b \in Attempts :
        /\ OpenIntent(a) => a \in admitted
        /\ a # b /\ KeyOf[a] = KeyOf[b] => ~(OpenIntent(a) /\ OpenIntent(b))

(***************************************************************************)
(* A computed capture with an intent, or one whose process died, is        *)
(* settled, and its key is free again.                                     *)
(***************************************************************************)
Settled(a) == Recorded(a) /\ a \notin admitted

CompletedIsSettled ==
    \A a \in Attempts :
        marker[a] = "intent" /\ (task[a] = "completed" \/ caller[a] = "dead") ~> Settled(a)

(***************************************************************************)
(* submit returns whatever Python does.                                    *)
(***************************************************************************)
SubmitReturns == \A a \in Attempts : caller[a] = "claim" ~> ~Submitting(a)
=============================================================================
