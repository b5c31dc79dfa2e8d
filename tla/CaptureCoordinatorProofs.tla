---------------------- MODULE CaptureCoordinatorProofs ----------------------
(***************************************************************************)
(* Theorems about the capture coordinator, for any attempts and keys, any  *)
(* capacity of the lanes, and any number of deaths and refused writes.     *)
(***************************************************************************)
EXTENDS CaptureCoordinator, TLAPS

\* More time for a leaf than by default, for slow or busy machines.
USE SMTT(30), ZenonT(30)

Control == [kind : {"note", "skip", "rejected"}, attempt : Attempts]

LEMMA AppendIs ==
    ASSUME NEW S, NEW s \in Seq(S), NEW x \in S
    PROVE  /\ Append(s, x) \in Seq(S) /\ Len(Append(s, x)) = Len(s) + 1
           /\ DOMAIN s = 1 .. Len(s) /\ DOMAIN Append(s, x) = 1 .. Len(s) + 1
           /\ \A i \in 1 .. Len(s) : Append(s, x)[i] = s[i]
           /\ Append(s, x)[Len(s) + 1] = x
           /\ Len(s) \in Nat
  OBVIOUS

LEMMA TailIs ==
    ASSUME NEW S, NEW s \in Seq(S), s # <<>>
    PROVE  /\ Tail(s) \in Seq(S) /\ Head(s) = s[1] /\ Head(s) \in S
           /\ Len(Tail(s)) = Len(s) - 1 /\ Len(s) \in Nat \ {0}
           /\ DOMAIN s = 1 .. Len(s) /\ DOMAIN Tail(s) = 1 .. Len(s) - 1
           /\ \A i \in 1 .. Len(s) - 1 : Tail(s)[i] = s[i + 1]
  OBVIOUS

-----------------------------------------------------------------------------
(***************************************************************************)
(* Type correctness, in parts: where the threads are, the two lanes, which *)
(* never hold more than their capacity and the running job, and what is    *)
(* stored.                                                                 *)
(***************************************************************************)
ThreadsType ==
    /\ caller \in [Attempts -> {"idle", "claim", "withdraw", "checkpoint",
          "offer skip", "record skip", "skipped", "intent", "execute", "wait", "expired",
          "look again", "dispatch", "note", "offer value", "record value", "record failure",
          "record rejection", "release", "release late", "returned", "dead"}]
    /\ task \in [Attempts -> {"none", "computing", "completed", "done", "dispatch",
                              "record rejection", "release", "over"}]
    /\ phase \in [Attempts -> {"running", "caller", "late", "claimed"}]
    /\ admitted \subseteq Attempts
    /\ running \in Attempts \cup {None} /\ worker \in Attempts \cup {None}
    /\ orphan \in Attempts \cup {None}

LanesType ==
    /\ finisher \in Seq(Attempts) /\ control \in Seq(Control)
    /\ Len(finisher) <= FinisherRoom + 1 /\ Len(control) <= ControlRoom + 1

EvidenceType ==
    /\ marker \in [Attempts -> {"none", "intent", "terminal"}]
    /\ completions \in [Attempts -> Nat]
    /\ ledger \subseteq Attempts /\ torn \subseteq Attempts /\ undurable \subseteq Attempts
    /\ deaths \in Nat /\ faults \in Nat

Typed == ThreadsType /\ LanesType /\ EvidenceType

LEMMA TypedIs == Typed <=> TypeOK
  BY DEF Typed, TypeOK, ThreadsType, LanesType, EvidenceType, Control

LEMMA TypedInit ==
    ASSUME Init
    PROVE  Typed
  BY CaptureAssumption
     DEF Init, Typed, ThreadsType, LanesType, EvidenceType, CaptureAssumption

\* A job is accepted while the queue has room, and the head is done first.
LEMMA LanePut ==
    ASSUME NEW S, NEW lane \in Seq(S), NEW x \in S, NEW room \in Nat, Accepts(lane, room)
    PROVE  Append(lane, x) \in Seq(S) /\ Len(Append(lane, x)) <= room + 1
  BY AppendIs DEF Accepts

LEMMA LaneTake ==
    ASSUME NEW S, NEW lane \in Seq(S), lane # <<>>, NEW room \in Nat, Len(lane) <= room + 1
    PROVE  Tail(lane) \in Seq(S) /\ Len(Tail(lane)) <= room + 1
  BY TailIs

LEMMA JobType ==
    ASSUME NEW kind \in {"note", "skip", "rejected"}, NEW a \in Attempts
    PROVE  [kind |-> kind, attempt |-> a] \in Control
  BY DEF Control

LEMMA LaneHeads ==
    ASSUME Typed
    PROVE  /\ finisher # <<>> => Head(finisher) \in Attempts
           /\ control # <<>> => Head(control) \in Control
<1>1. finisher \in Seq(Attempts) /\ control \in Seq(Control)
  BY DEF Typed, LanesType
<1>2. QED
  BY <1>1, TailIs

LEMMA HeadAttempt ==
    ASSUME Typed, control # <<>>
    PROVE  Head(control).attempt \in Attempts
  BY LaneHeads DEF Control

\* How a step changes the lanes: it puts one job in, takes one out or neither.
Puts(a) ==
    \/ /\ Accepts(finisher, FinisherRoom)
       /\ finisher' = Append(finisher, a) /\ control' = control
    \/ /\ Accepts(control, ControlRoom) /\ finisher' = finisher
       /\ \E kind \in {"note", "skip", "rejected"} :
             control' = Append(control, [kind |-> kind, attempt |-> a])

Takes ==
    \/ finisher # <<>> /\ finisher' = Tail(finisher) /\ control' = control
    \/ control # <<>> /\ control' = Tail(control) /\ finisher' = finisher

LEMMA PutsType ==
    ASSUME Typed, NEW a \in Attempts, Puts(a)
    PROVE  LanesType'
<1>1. /\ finisher \in Seq(Attempts) /\ control \in Seq(Control)
      /\ Len(finisher) <= FinisherRoom + 1 /\ Len(control) <= ControlRoom + 1
      /\ FinisherRoom \in Nat /\ ControlRoom \in Nat
  BY CaptureAssumption DEF Typed, LanesType, CaptureAssumption
<1>2. CASE Accepts(finisher, FinisherRoom) /\ finisher' = Append(finisher, a) /\ control' = control
  BY <1>1, <1>2, LanePut DEF LanesType
<1>3. CASE /\ Accepts(control, ControlRoom) /\ finisher' = finisher
           /\ \E kind \in {"note", "skip", "rejected"} :
                 control' = Append(control, [kind |-> kind, attempt |-> a])
  BY <1>1, <1>3, LanePut, JobType DEF LanesType
<1>4. QED
  BY <1>2, <1>3 DEF Puts

LEMMA TakesType ==
    ASSUME Typed, Takes
    PROVE  LanesType'
<1>1. /\ finisher \in Seq(Attempts) /\ control \in Seq(Control)
      /\ Len(finisher) <= FinisherRoom + 1 /\ Len(control) <= ControlRoom + 1
      /\ FinisherRoom \in Nat /\ ControlRoom \in Nat
  BY CaptureAssumption DEF Typed, LanesType, CaptureAssumption
<1>2. CASE finisher # <<>> /\ finisher' = Tail(finisher) /\ control' = control
  BY <1>1, <1>2, LaneTake DEF LanesType
<1>3. CASE control # <<>> /\ control' = Tail(control) /\ finisher' = finisher
  BY <1>1, <1>3, LaneTake DEF LanesType
<1>4. QED
  BY <1>2, <1>3 DEF Takes

\* The attempt an outcome is recorded for, and what stays of the rest.
LEMMA TerminalizeType ==
    ASSUME Typed, NEW a \in Attempts, Terminalize(a)
    PROVE  /\ marker' \in [Attempts -> {"none", "intent", "terminal"}]
           /\ ledger' \subseteq Attempts /\ torn' \subseteq Attempts
           /\ undurable' \subseteq Attempts /\ faults' \in Nat
  BY DEF Typed, EvidenceType, Terminalize

LEMMA ThreadsStep ==
    ASSUME Typed, [Next]_vars
    PROVE  ThreadsType'
<1> USE DEF Typed, ThreadsType
<1>1. ASSUME NEW a \in Attempts, Admit(a)
      PROVE  ThreadsType'
  BY <1>1 DEF Admit, Owner, Goto, queues, evidence, bounds
<1>2. ASSUME NEW a \in Attempts, Compute(a)
      PROVE  ThreadsType'
  BY <1>2 DEF Compute, queues, evidence, bounds
<1>3. ASSUME NEW a \in Attempts, ClaimSlot(a)
      PROVE  ThreadsType'
  BY <1>3 DEF ClaimSlot, Goto, queues, evidence, bounds
<1>4. ASSUME NEW a \in Attempts, Withdraw(a)
      PROVE  ThreadsType'
  BY <1>4 DEF Withdraw, Goto, queues, evidence, bounds
<1>5. ASSUME NEW a \in Attempts, CheckpointSkip(a)
      PROVE  ThreadsType'
  BY <1>5 DEF CheckpointSkip, Goto, cells, queues
<1>6. ASSUME NEW a \in Attempts, OfferSkip(a)
      PROVE  ThreadsType'
  BY <1>6 DEF OfferSkip, Accepts, Goto, Rejects, cells, evidence, bounds
<1>7. ASSUME NEW a \in Attempts, RecordSkip(a)
      PROVE  ThreadsType'
  BY <1>7 DEF RecordSkip, Terminalize, Goto, cells, queues
<1>8. ASSUME NEW a \in Attempts, WriteIntent(a)
      PROVE  ThreadsType'
  BY <1>8 DEF WriteIntent, Goto, cells, queues
<1>9. ASSUME NEW a \in Attempts, Execute(a)
      PROVE  ThreadsType'
  BY <1>9 DEF Execute, Goto, queues, evidence, bounds
<1>10. ASSUME NEW a \in Attempts, ReceiveInTime(a)
      PROVE  ThreadsType'
  BY <1>10 DEF ReceiveInTime, Goto, queues, evidence, bounds
<1>11. ASSUME NEW a \in Attempts, Expire(a)
      PROVE  ThreadsType'
  BY <1>11 DEF Expire, Goto, cells, queues, evidence, bounds
<1>12. ASSUME NEW a \in Attempts, PublishLate(a)
      PROVE  ThreadsType'
  BY <1>12 DEF PublishLate, Goto, queues, evidence, bounds
<1>13. ASSUME NEW a \in Attempts, LookAgain(a)
      PROVE  ThreadsType'
  BY <1>13 DEF LookAgain, Goto, queues, evidence, bounds
<1>14. ASSUME NEW a \in Attempts, NoteLate(a)
      PROVE  ThreadsType'
  BY <1>14 DEF NoteLate, Accepts, Rejects, Goto, cells, evidence, bounds
<1>15. ASSUME NEW a \in Attempts, OfferValue(a)
      PROVE  ThreadsType'
  BY <1>15 DEF OfferValue, Accepts, Goto, Rejects, cells, evidence, bounds
<1>16. ASSUME NEW a \in Attempts, CallerCompletes(a)
      PROVE  ThreadsType'
  BY <1>16 DEF CallerCompletes, Complete, Goto, cells, queues, Terminalize
<1>17. ASSUME NEW a \in Attempts, CallerReleases(a)
      PROVE  ThreadsType'
  BY <1>17 DEF CallerReleases, Goto, queues, evidence, bounds
<1>18. ASSUME NEW a \in Attempts, CallerDispatches(a)
      PROVE  ThreadsType'
  BY <1>18 DEF CallerDispatches, HandOver, Goto, BothLanesReject, queues, cells,
      evidence, bounds, Accepts, Rejects
<1>19. ASSUME NEW a \in Attempts, ReleaseSlot(a)
      PROVE  ThreadsType'
  BY <1>19 DEF ReleaseSlot, queues, evidence, bounds
<1>20. ASSUME NEW a \in Attempts, DoneClaims(a)
      PROVE  ThreadsType'
  BY <1>20 DEF DoneClaims, queues, evidence, bounds
<1>21. ASSUME NEW a \in Attempts, WorkerDispatches(a)
      PROVE  ThreadsType'
  BY <1>21 DEF WorkerDispatches, HandOver, BothLanesReject, queues, evidence, bounds,
      Accepts, Rejects
<1>22. ASSUME NEW a \in Attempts, WorkerCompletes(a)
      PROVE  ThreadsType'
  BY <1>22 DEF WorkerCompletes, Complete, queues, Terminalize
<1>23. ASSUME NEW a \in Attempts, WorkerReleases(a)
      PROVE  ThreadsType'
  BY <1>23 DEF WorkerReleases, queues, evidence, bounds
<1>24. CASE FinisherCompletes
  BY <1>24 DEF FinisherCompletes, Complete, cells, queues, Terminalize
<1>25. CASE FinisherReleases
  BY <1>25 DEF FinisherReleases, evidence, bounds
<1>26. CASE ControlNotes
  BY <1>26 DEF ControlNotes, cells, evidence, bounds
<1>27. CASE ControlSkips
  BY <1>27 DEF ControlSkips, Terminalize, cells
<1>28. CASE ControlCompletes
  BY <1>28 DEF ControlCompletes, Complete, cells, queues, Terminalize
<1>29. CASE ControlReleases
  BY <1>29 DEF ControlReleases, evidence, bounds
<1>30. ASSUME NEW a \in Attempts, CheckLive(a)
      PROVE  ThreadsType'
  BY <1>30 DEF CheckLive, cells, queues, evidence, bounds
<1>31. CASE SettleOrphan
  BY <1>31 DEF SettleOrphan, Complete, Terminalize, evidence, cells, queues
<1>32. CASE ProcessDeath
  BY <1>32 DEF ProcessDeath, Submitting, evidence
<1>33. CASE UNCHANGED vars
  BY <1>33 DEF vars, cells, queues, evidence, bounds
<1>34. QED
  BY <1>1, <1>2, <1>3, <1>4, <1>5, <1>6, <1>7, <1>8, <1>9, <1>10, <1>11, <1>12, <1>13,
      <1>14, <1>15, <1>16, <1>17, <1>18, <1>19, <1>20, <1>21, <1>22, <1>23, <1>24,
      <1>25, <1>26, <1>27, <1>28, <1>29, <1>30, <1>31, <1>32, <1>33 DEF Next,
      CallerStep, WorkerStep, FinisherStep, ControlStep, ReconcileStep

LEMMA LanesStep ==
    ASSUME Typed, [Next]_vars
    PROVE  LanesType'
<1> USE DEF Typed, LanesType
<1>1. ASSUME NEW a \in Attempts, OfferSkip(a)
      PROVE  LanesType'
  <2>1. Puts(a) \/ UNCHANGED queues
    BY <1>1 DEF Puts, OfferSkip, queues
  <2>2. QED
    BY <2>1, PutsType DEF queues
<1>2. ASSUME NEW a \in Attempts, NoteLate(a)
      PROVE  LanesType'
  <2>1. Puts(a) \/ UNCHANGED queues
    BY <1>2 DEF Puts, NoteLate, queues
  <2>2. QED
    BY <2>1, PutsType DEF queues
<1>3. ASSUME NEW a \in Attempts, OfferValue(a)
      PROVE  LanesType'
  <2>1. Puts(a) \/ UNCHANGED queues
    BY <1>3 DEF Puts, OfferValue, queues
  <2>2. QED
    BY <2>1, PutsType DEF queues
<1>4. ASSUME NEW a \in Attempts, CallerDispatches(a)
      PROVE  LanesType'
  <2>1. Puts(a) \/ UNCHANGED queues
    BY <1>4 DEF Puts, CallerDispatches, HandOver, BothLanesReject, queues
  <2>2. QED
    BY <2>1, PutsType DEF queues
<1>5. ASSUME NEW a \in Attempts, WorkerDispatches(a)
      PROVE  LanesType'
  <2>1. Puts(a) \/ UNCHANGED queues
    BY <1>5 DEF Puts, WorkerDispatches, HandOver, BothLanesReject, queues
  <2>2. QED
    BY <2>1, PutsType DEF queues
<1>6. CASE FinisherReleases
  BY <1>6, TakesType DEF Takes, FinisherReleases
<1>7. CASE ControlNotes
  BY <1>7, TakesType DEF Takes, ControlNotes
<1>8. CASE ControlSkips
  BY <1>8, TakesType DEF Takes, ControlSkips
<1>9. CASE ControlReleases
  BY <1>9, TakesType DEF Takes, ControlReleases
<1>10. CASE ProcessDeath
  BY <1>10, CaptureAssumption DEF ProcessDeath, CaptureAssumption
<1>11. CASE UNCHANGED queues
  BY <1>11 DEF queues
<1>12. QED
  BY <1>1, <1>2, <1>3, <1>4, <1>5, <1>6, <1>7, <1>8, <1>9, <1>10, <1>11 DEF Next,
      CallerStep, WorkerStep, FinisherStep, ControlStep, ReconcileStep, vars, Admit,
      Compute, ClaimSlot, Withdraw, CheckpointSkip, RecordSkip, WriteIntent, Execute,
      ReceiveInTime, Expire, PublishLate, LookAgain, CallerCompletes, CallerReleases,
      ReleaseSlot, DoneClaims, WorkerCompletes, WorkerReleases, FinisherCompletes,
      ControlCompletes, CheckLive, SettleOrphan, Complete, Goto, Terminalize, bounds,
      cells, evidence, queues

LEMMA EvidenceStep ==
    ASSUME Typed, [Next]_vars
    PROVE  EvidenceType'
<1> USE DEF Typed, EvidenceType
<1>1. ASSUME NEW a \in Attempts, CheckpointSkip(a)
      PROVE  EvidenceType'
  <2>1. /\ marker' = [marker EXCEPT ![a] = "terminal"] \/ marker' = marker
        /\ faults' = faults \/ faults' = faults + 1
        /\ completions' = completions /\ ledger' = ledger /\ torn' = torn
        /\ undurable' = undurable /\ deaths' = deaths
    BY <1>1 DEF CheckpointSkip
  <2>2. QED
    BY <2>1
<1>2. ASSUME NEW a \in Attempts, RecordSkip(a)
      PROVE  EvidenceType'
  BY <1>2, TerminalizeType DEF RecordSkip
<1>3. ASSUME NEW a \in Attempts, WriteIntent(a)
      PROVE  EvidenceType'
  BY <1>3 DEF WriteIntent, Goto, cells, queues
<1>4. ASSUME NEW a \in Attempts, CallerCompletes(a)
      PROVE  EvidenceType'
  <2>1. completions' = [completions EXCEPT ![a] = @ + 1] /\ Terminalize(a) /\ deaths' = deaths
    BY <1>4 DEF CallerCompletes, Complete
  <2>2. QED
    BY <2>1, TerminalizeType
<1>5. ASSUME NEW a \in Attempts, WorkerCompletes(a)
      PROVE  EvidenceType'
  <2>1. completions' = [completions EXCEPT ![a] = @ + 1] /\ Terminalize(a) /\ deaths' = deaths
    BY <1>5 DEF WorkerCompletes, Complete
  <2>2. QED
    BY <2>1, TerminalizeType
<1>6. CASE FinisherCompletes
  BY <1>6, TerminalizeType, LaneHeads DEF FinisherCompletes, Complete
<1>7. CASE ControlSkips
  BY <1>7, TerminalizeType, HeadAttempt DEF ControlSkips
<1>8. CASE ControlCompletes
  BY <1>8, TerminalizeType, HeadAttempt DEF ControlCompletes, Complete
<1>9. CASE SettleOrphan
  <2>1. orphan \in Attempts
    BY <1>9 DEF SettleOrphan, ThreadsType
  <2>2. CASE marker[orphan] = "intent"
    BY <1>9, <2>1, <2>2, TerminalizeType DEF SettleOrphan, Complete
  <2>3. CASE marker[orphan] = "terminal"
    BY <1>9, <2>1, <2>3, TerminalizeType DEF SettleOrphan
  <2>4. CASE marker[orphan] = "none"
    BY <1>9, <2>1, <2>4 DEF SettleOrphan, evidence
  <2>5. QED
    BY <2>1, <2>2, <2>3, <2>4
<1>10. CASE ProcessDeath
  BY <1>10 DEF ProcessDeath, Submitting, evidence
<1>11. CASE UNCHANGED <<evidence, bounds>>
  BY <1>11 DEF evidence, bounds
<1>12. QED
  BY <1>1, <1>2, <1>3, <1>4, <1>5, <1>6, <1>7, <1>8, <1>9, <1>10, <1>11 DEF Next,
      CallerStep, WorkerStep, FinisherStep, ControlStep, ReconcileStep, vars, Admit,
      Compute, ClaimSlot, Withdraw, OfferSkip, Execute, ReceiveInTime, Expire,
      PublishLate, LookAgain, NoteLate, OfferValue, CallerReleases, CallerDispatches,
      ReleaseSlot, DoneClaims, WorkerDispatches, WorkerReleases, FinisherReleases,
      ControlNotes, ControlReleases, CheckLive, Goto, HandOver, bounds, cells,
      evidence, queues

LEMMA TypedAlways == Spec => []Typed
<1>1. Init => Typed
  BY TypedInit
<1>2. Typed /\ [Next]_vars => Typed'
  BY ThreadsStep, LanesStep, EvidenceStep DEF Typed
<1>3. QED
  BY <1>1, <1>2, PTL DEF Spec

(***************************************************************************)
(* The type invariant; in particular a lane never holds more jobs than its *)
(* capacity and the one that runs.                                         *)
(***************************************************************************)
THEOREM TypeCorrect == Spec => []TypeOK
  BY TypedAlways, TypedIs, PTL

-----------------------------------------------------------------------------
(***************************************************************************)
(* The inductive invariant speaks of one attempt at a time: who has to     *)
(* complete it - the caller, the Python thread, a lane - and what is       *)
(* stored of it.  Whoever has the duty holds the admission, nobody else    *)
(* has the duty beside him, and nothing is recorded yet.                   *)
(***************************************************************************)
CallerDuty(a) ==
    caller[a] \in {"offer value", "dispatch", "record value", "record failure",
                   "record rejection"}

WorkerDuty(a) == task[a] \in {"dispatch", "record rejection"}

SkipJob(a) == \E i \in DOMAIN control : control[i].attempt = a /\ control[i].kind = "skip"

Evident(a) == marker[a] = "terminal" \/ a \in ledger \/ a \in undurable

\* Until the task is with the Python thread, and for ever when it is skipped.
Entering(a) ==
    caller[a] \in {"idle", "claim", "withdraw", "intent", "execute", "checkpoint",
                   "offer skip", "record skip", "skipped"} =>
        /\ completions[a] = 0 /\ task[a] = "none" /\ phase[a] = "running"
        /\ a \in admitted <=> caller[a] \in {"claim", "withdraw", "intent", "execute"}
        /\ marker[a] = "intent" => caller[a] = "execute"
        /\ caller[a] \in {"idle", "claim", "withdraw", "intent", "checkpoint"} =>
              marker[a] = "none"
        /\ caller[a] \in {"offer skip", "skipped"} => Evident(a)

\* While the caller waits, and after LATE while nobody has claimed the phase.
Waiting(a) ==
    /\ caller[a] \in {"wait", "expired"} =>
          phase[a] = "running" /\ a \in admitted /\ completions[a] = 0
    /\ caller[a] \in {"wait", "expired", "look again"} =>
          \/ task[a] \in {"computing", "completed", "done", "over"}
          \/ caller[a] = "look again" /\ phase[a] = "claimed"
    /\ caller[a] = "look again" => phase[a] \in {"late", "claimed"}
    /\ phase[a] = "late" /\ caller[a] # "dead" =>
          /\ a \in admitted /\ completions[a] = 0
          /\ caller[a] \in {"look again", "note", "returned"}
          /\ \/ task[a] \in {"computing", "completed", "done"}
             \/ task[a] = "over" /\ caller[a] = "look again"

Duties(a) ==
    /\ CallerDuty(a) =>
          /\ a \in admitted /\ completions[a] = 0 /\ phase[a] \in {"caller", "claimed"}
          /\ ~WorkerDuty(a) /\ ~Queued(a)
    /\ WorkerDuty(a) =>
          a \in admitted /\ completions[a] = 0 /\ phase[a] = "claimed" /\ ~Queued(a)
    /\ Queued(a) => phase[a] \in {"caller", "claimed"}
    /\ caller[a] \in {"release", "release late"} \/ task[a] = "release" => Recorded(a)

\* Once the phase is claimed, the outcome is recorded or somebody has the duty.
Unfinished(a) ==
    /\ caller[a] = "dead" => task[a] = "none"
    /\ task[a] # "none" =>
          /\ phase[a] = "running" => caller[a] \in {"wait", "expired"}
          /\ phase[a] \in {"caller", "claimed"} =>
                Recorded(a) \/ Queued(a) \/ CallerDuty(a) \/ WorkerDuty(a)

Told(a) ==
    /\ Recorded(a) => (marker[a] # "intent" \/ a \in torn) /\ Evident(a)
    /\ OpenIntent(a) => a \in admitted
    /\ a \notin torn => completions[a] <= 1
    /\ orphan = a => a \notin admitted /\ caller[a] # "idle"
    /\ SkipJob(a) => caller[a] = "skipped"

Local(a) == Entering(a) /\ Waiting(a) /\ Duties(a) /\ Unfinished(a) /\ Told(a)

OneAdmitted == \A a, b \in admitted : KeyOf[a] = KeyOf[b] => a = b

Inv == Typed /\ (\A a \in Attempts : Local(a)) /\ OneAdmitted

-----------------------------------------------------------------------------
(***************************************************************************)
(* What a step leaves alone: an attempt nobody touched keeps its part of   *)
(* the invariant.                                                          *)
(***************************************************************************)
SameCell(b) == task'[b] = task[b] /\ phase'[b] = phase[b]

SameOwner(b) == b \in admitted' <=> b \in admitted

SameCount(b) == completions'[b] = completions[b] /\ (Recorded(b)' <=> Recorded(b))

SameEvidence(b) ==
    /\ marker'[b] = marker[b] /\ SameCount(b)
    /\ b \in ledger' <=> b \in ledger
    /\ b \in torn' <=> b \in torn
    /\ b \in undurable' <=> b \in undurable

SameJobs(b) == (Queued(b)' <=> Queued(b)) /\ (SkipJob(b)' => SkipJob(b))

SameOrphan(b) == orphan' = b => orphan = b

Same(b) ==
    /\ caller'[b] = caller[b]
    /\ SameCell(b) /\ SameOwner(b) /\ SameEvidence(b) /\ SameJobs(b) /\ SameOrphan(b)

LEMMA SameKeeps ==
    ASSUME NEW b \in Attempts, Local(b), Same(b)
    PROVE  Local(b)'
<1> USE DEF Same, SameCell, SameOwner, SameCount, SameEvidence, SameJobs, SameOrphan
<1>1. (Evident(b)' <=> Evident(b)) /\ (Recorded(b)' <=> Recorded(b))
      /\ (CallerDuty(b)' <=> CallerDuty(b)) /\ (WorkerDuty(b)' <=> WorkerDuty(b))
      /\ (OpenIntent(b)' <=> OpenIntent(b))
  BY DEF Evident, Recorded, CallerDuty, WorkerDuty, OpenIntent
<1>2. Entering(b)'
  BY <1>1 DEF Local, Entering
<1>3. Waiting(b)'
  BY <1>1 DEF Local, Waiting
<1>4. Duties(b)'
  BY <1>1 DEF Local, Duties
<1>5. Unfinished(b)'
  BY <1>1 DEF Local, Unfinished
<1>6. Told(b)'
  BY <1>1 DEF Local, Told
<1>7. QED
  BY <1>2, <1>3, <1>4, <1>5, <1>6 DEF Local

LEMMA QueuesKept ==
    ASSUME UNCHANGED queues, NEW b \in Attempts
    PROVE  (Queued(b)' <=> Queued(b)) /\ (SkipJob(b)' <=> SkipJob(b))
  BY DEF queues, Queued, SkipJob

LEMMA FinisherPuts ==
    ASSUME Typed, NEW a \in Attempts, finisher' = Append(finisher, a), UNCHANGED control,
           NEW b \in Attempts
    PROVE  /\ Queued(b)' <=> Queued(b) \/ b = a
           /\ SkipJob(b)' <=> SkipJob(b)
<1>1. finisher \in Seq(Attempts)
  BY DEF Typed, LanesType
<1>2. (\E i \in DOMAIN finisher' : finisher'[i] = b)
          <=> (\E i \in DOMAIN finisher : finisher[i] = b) \/ b = a
  BY <1>1, AppendIs
<1>3. QED
  BY <1>2 DEF Queued, SkipJob

LEMMA ControlPuts ==
    ASSUME Typed, NEW a \in Attempts, NEW kind \in {"note", "skip", "rejected"},
           control' = Append(control, [kind |-> kind, attempt |-> a]), UNCHANGED finisher,
           NEW b \in Attempts
    PROVE  /\ Queued(b)' <=> Queued(b) \/ (b = a /\ kind = "rejected")
           /\ SkipJob(b)' <=> SkipJob(b) \/ (b = a /\ kind = "skip")
<1>1. control \in Seq(Control) /\ [kind |-> kind, attempt |-> a] \in Control
  BY JobType DEF Typed, LanesType
<1>2. ASSUME NEW k \in {"rejected", "skip"}
      PROVE  (\E i \in DOMAIN control' : control'[i].attempt = b /\ control'[i].kind = k)
                <=> (\E i \in DOMAIN control : control[i].attempt = b /\ control[i].kind = k)
                    \/ (b = a /\ kind = k)
  BY <1>1, AppendIs
<1>3. QED
  BY <1>2 DEF Queued, SkipJob

LEMMA FinisherTakes ==
    ASSUME Typed, finisher # <<>>, finisher' = Tail(finisher), UNCHANGED control,
           NEW b \in Attempts
    PROVE  /\ Queued(b)' => Queued(b)
           /\ Queued(b) => Queued(b)' \/ b = Head(finisher)
           /\ SkipJob(b)' <=> SkipJob(b)
<1>1. finisher \in Seq(Attempts)
  BY DEF Typed, LanesType
<1>2. (\E i \in DOMAIN finisher' : finisher'[i] = b)
          => (\E i \in DOMAIN finisher : finisher[i] = b)
  BY <1>1, TailIs
<1>3. ASSUME NEW i \in DOMAIN finisher, finisher[i] = b, b # Head(finisher)
      PROVE  \E j \in DOMAIN finisher' : finisher'[j] = b
  <2>1. i - 1 \in DOMAIN finisher' /\ finisher'[i - 1] = finisher[i]
    BY <1>1, <1>3, TailIs
  <2>2. QED
    BY <1>3, <2>1
<1>4. QED
  BY <1>2, <1>3 DEF Queued, SkipJob

LEMMA ControlTakes ==
    ASSUME Typed, control # <<>>, control' = Tail(control), UNCHANGED finisher,
           NEW b \in Attempts
    PROVE  /\ Queued(b)' => Queued(b)
           /\ Queued(b) => \/ Queued(b)'
                           \/ b = Head(control).attempt /\ Head(control).kind = "rejected"
           /\ SkipJob(b)' => SkipJob(b)
<1>1. control \in Seq(Control)
  BY DEF Typed, LanesType
<1>2. ASSUME NEW k \in {"rejected", "skip"}
      PROVE  (\E i \in DOMAIN control' : control'[i].attempt = b /\ control'[i].kind = k)
                => (\E i \in DOMAIN control : control[i].attempt = b /\ control[i].kind = k)
  BY <1>1, TailIs
<1>3. ASSUME NEW i \in DOMAIN control, control[i].attempt = b, control[i].kind = "rejected",
             ~(b = Head(control).attempt /\ Head(control).kind = "rejected")
      PROVE  \E j \in DOMAIN control' : control'[j].attempt = b /\ control'[j].kind = "rejected"
  <2>1. i - 1 \in DOMAIN control' /\ control'[i - 1] = control[i]
    BY <1>1, <1>3, TailIs
  <2>2. QED
    BY <1>3, <2>1
<1>4. QED
  BY <1>2, <1>3 DEF Queued, SkipJob

LEMMA HeadsQueued ==
    ASSUME Typed
    PROVE  /\ finisher # <<>> => Head(finisher) \in Attempts /\ Queued(Head(finisher))
           /\ control # <<>> =>
                 /\ Head(control).attempt \in Attempts
                 /\ Head(control).kind = "rejected" => Queued(Head(control).attempt)
                 /\ Head(control).kind = "skip" => SkipJob(Head(control).attempt)
<1>1. finisher \in Seq(Attempts) /\ control \in Seq(Control)
  BY DEF Typed, LanesType
<1>2. ASSUME finisher # <<>>
      PROVE  1 \in DOMAIN finisher /\ finisher[1] = Head(finisher)
  BY <1>1, <1>2, TailIs
<1>3. ASSUME control # <<>>
      PROVE  1 \in DOMAIN control /\ control[1] = Head(control)
  BY <1>1, <1>3, TailIs
<1>4. QED
  BY <1>2, <1>3, LaneHeads, HeadAttempt DEF Queued, SkipJob

\* Recording an outcome leaves evidence of it, and no open intent unless torn.
LEMMA TerminalizeTells ==
    ASSUME Typed, NEW a \in Attempts, Terminalize(a)
    PROVE  /\ Evident(a)' /\ (marker'[a] # "intent" \/ a \in torn')
           /\ a \in torn => a \in torn'
           /\ marker'[a] = "intent" => marker[a] = "intent"
           /\ \A b \in Attempts \ {a} :
                 /\ marker'[b] = marker[b]
                 /\ b \in ledger' <=> b \in ledger
                 /\ b \in torn' <=> b \in torn
                 /\ b \in undurable' <=> b \in undurable
  BY DEF Typed, EvidenceType, Terminalize, Evident

LEMMA CompleteTells ==
    ASSUME Typed, NEW a \in Attempts, Complete(a)
    PROVE  /\ Recorded(a)' /\ (completions[a] = 0 => completions'[a] <= 1)
           /\ \A b \in Attempts \ {a} : completions'[b] = completions[b]
           /\ Terminalize(a)
<1>1. /\ completions[a] \in Nat /\ completions'[a] = completions[a] + 1
      /\ \A b \in Attempts \ {a} : completions'[b] = completions[b]
  BY DEF Typed, EvidenceType, Complete
<1>2. Recorded(a)' /\ (completions[a] = 0 => completions'[a] <= 1)
  BY <1>1 DEF Recorded
<1>3. QED
  BY <1>1, <1>2 DEF Complete

LEMMA LocalType ==
    ASSUME Inv, NEW a \in Attempts
    PROVE  /\ completions[a] \in Nat /\ Local(a) /\ (Recorded(a) <=> completions[a] # 0)
           /\ task[a] \in {"none", "computing", "completed", "done", "dispatch",
                           "record rejection", "release", "over"}
           /\ phase[a] \in {"running", "caller", "late", "claimed"}
           /\ marker[a] \in {"none", "intent", "terminal"}
<1>1. completions[a] \in Nat
  BY DEF Inv, Typed, EvidenceType
<1>2. Recorded(a) <=> completions[a] # 0
  BY <1>1 DEF Recorded
<1>3. Local(a)
  BY DEF Inv
<1>4. QED
  BY <1>1, <1>2, <1>3 DEF Inv, Typed, ThreadsType, EvidenceType

LEMMA LocalStep ==
    ASSUME Inv, [Next]_vars
    PROVE  \A b \in Attempts : Local(b)'
<1>0. Typed /\ \A b \in Attempts : Local(b)
  BY DEF Inv
<1>1. ASSUME NEW a \in Attempts, Admit(a)
      PROVE  \A b \in Attempts : Local(b)'
  <2>1. \A b \in Attempts \ {a} : Same(b)
    BY <1>0, <1>1, QueuesKept DEF Same, SameCell, SameOwner, SameCount, SameEvidence,
        SameJobs, SameOrphan, Typed, ThreadsType, EvidenceType, Recorded, Admit,
        Owner, Goto, queues, evidence, bounds
  <2>2. /\ caller[a] = "idle"
        /\ \/ caller'[a] = "claim" /\ a \in admitted'
           \/ caller'[a] = "note" /\ SameOwner(a)
        /\ SameCell(a)
        /\ SameEvidence(a)
        /\ SameJobs(a)
        /\ SameOrphan(a)
    BY <1>0, <1>1, QueuesKept DEF SameCell, SameOwner, SameCount, SameEvidence,
        SameJobs, SameOrphan, Typed, ThreadsType, EvidenceType, Recorded, Admit,
        Owner, Goto, queues, evidence, bounds
  <2>3. Local(a)'
    BY <2>2, LocalType DEF Local, Entering, Waiting, Duties, Unfinished, Told,
        CallerDuty, WorkerDuty, OpenIntent, Evident, SameCell, SameOwner, SameCount,
        SameEvidence, SameJobs, SameOrphan
  <2>4. QED
    BY <1>0, <2>1, <2>3, SameKeeps DEF Inv
<1>2. ASSUME NEW a \in Attempts, Compute(a)
      PROVE  \A b \in Attempts : Local(b)'
  <2>1. \A b \in Attempts \ {a} : Same(b)
    BY <1>0, <1>2, QueuesKept DEF Same, SameCell, SameOwner, SameCount, SameEvidence,
        SameJobs, SameOrphan, Typed, ThreadsType, EvidenceType, Recorded, Compute,
        queues, evidence, bounds
  <2>2. /\ caller'[a] = caller[a]
        /\ task[a] = "computing" /\ task'[a] = "completed" /\ phase'[a] = phase[a]
        /\ SameOwner(a)
        /\ SameEvidence(a)
        /\ SameJobs(a)
        /\ SameOrphan(a)
    BY <1>0, <1>2, QueuesKept DEF SameCell, SameOwner, SameCount, SameEvidence,
        SameJobs, SameOrphan, Typed, ThreadsType, EvidenceType, Recorded, Compute,
        queues, evidence, bounds
  <2>3. /\ Local(a) /\ completions[a] \in Nat
        /\ Recorded(a) <=> completions[a] # 0
    BY LocalType
  <2>4. Entering(a)'
    BY <2>2, <2>3 DEF Local, Entering, Waiting, Duties, Unfinished, Told, CallerDuty,
        WorkerDuty, OpenIntent, Evident, SameCell, SameOwner, SameCount, SameEvidence,
        SameJobs, SameOrphan
  <2>5. Waiting(a)'
    BY <2>2, <2>3 DEF Local, Entering, Waiting, Duties, Unfinished, Told, CallerDuty,
        WorkerDuty, OpenIntent, Evident, SameCell, SameOwner, SameCount, SameEvidence,
        SameJobs, SameOrphan
  <2>6. Duties(a)'
    BY <2>2, <2>3 DEF Local, Entering, Waiting, Duties, Unfinished, Told, CallerDuty,
        WorkerDuty, OpenIntent, Evident, SameCell, SameOwner, SameCount, SameEvidence,
        SameJobs, SameOrphan
  <2>7. Unfinished(a)'
    BY <2>2, <2>3 DEF Local, Entering, Waiting, Duties, Unfinished, Told, CallerDuty,
        WorkerDuty, OpenIntent, Evident, SameCell, SameOwner, SameCount, SameEvidence,
        SameJobs, SameOrphan
  <2>8. Told(a)'
    BY <2>2, <2>3 DEF Local, Entering, Waiting, Duties, Unfinished, Told, CallerDuty,
        WorkerDuty, OpenIntent, Evident, SameCell, SameOwner, SameCount, SameEvidence,
        SameJobs, SameOrphan
  <2>9. Local(a)'
    BY <2>4, <2>5, <2>6, <2>7, <2>8 DEF Local
  <2>10. QED
    BY <1>0, <2>1, <2>9, SameKeeps DEF Inv
<1>3. ASSUME NEW a \in Attempts, ClaimSlot(a)
      PROVE  \A b \in Attempts : Local(b)'
  <2>1. \A b \in Attempts \ {a} : Same(b)
    BY <1>0, <1>3, QueuesKept DEF Same, SameCell, SameOwner, SameCount, SameEvidence,
        SameJobs, SameOrphan, Typed, ThreadsType, EvidenceType, Recorded, ClaimSlot,
        Goto, queues, evidence, bounds
  <2>2. /\ caller[a] = "claim" /\ caller'[a] \in {"intent", "withdraw"}
        /\ SameCell(a)
        /\ SameOwner(a)
        /\ SameEvidence(a)
        /\ SameJobs(a)
        /\ SameOrphan(a)
    BY <1>0, <1>3, QueuesKept DEF SameCell, SameOwner, SameCount, SameEvidence,
        SameJobs, SameOrphan, Typed, ThreadsType, EvidenceType, Recorded, ClaimSlot,
        Goto, queues, evidence, bounds
  <2>3. Local(a)'
    BY <2>2, LocalType DEF Local, Entering, Waiting, Duties, Unfinished, Told,
        CallerDuty, WorkerDuty, OpenIntent, Evident, SameCell, SameOwner, SameCount,
        SameEvidence, SameJobs, SameOrphan
  <2>4. QED
    BY <1>0, <2>1, <2>3, SameKeeps DEF Inv
<1>4. ASSUME NEW a \in Attempts, Withdraw(a)
      PROVE  \A b \in Attempts : Local(b)'
  <2>1. \A b \in Attempts \ {a} : Same(b)
    BY <1>0, <1>4, QueuesKept DEF Same, SameCell, SameOwner, SameCount, SameEvidence,
        SameJobs, SameOrphan, Typed, ThreadsType, EvidenceType, Recorded, Withdraw,
        Goto, queues, evidence, bounds
  <2>2. /\ caller[a] = "withdraw" /\ caller'[a] = "checkpoint"
        /\ a \notin admitted'
        /\ SameCell(a)
        /\ SameEvidence(a)
        /\ SameJobs(a)
        /\ SameOrphan(a)
    BY <1>0, <1>4, QueuesKept DEF SameCell, SameOwner, SameCount, SameEvidence,
        SameJobs, SameOrphan, Typed, ThreadsType, EvidenceType, Recorded, Withdraw,
        Goto, queues, evidence, bounds
  <2>3. Local(a)'
    BY <2>2, LocalType DEF Local, Entering, Waiting, Duties, Unfinished, Told,
        CallerDuty, WorkerDuty, OpenIntent, Evident, SameCell, SameOwner, SameCount,
        SameEvidence, SameJobs, SameOrphan
  <2>4. QED
    BY <1>0, <2>1, <2>3, SameKeeps DEF Inv
<1>5. ASSUME NEW a \in Attempts, CheckpointSkip(a)
      PROVE  \A b \in Attempts : Local(b)'
  <2>1. \A b \in Attempts \ {a} : Same(b)
    BY <1>0, <1>5, QueuesKept DEF Same, SameCell, SameOwner, SameCount, SameEvidence,
        SameJobs, SameOrphan, Typed, ThreadsType, EvidenceType, Recorded,
        CheckpointSkip, Goto, cells, queues
  <2>2. /\ caller[a] = "checkpoint"
        /\ SameCount(a)
        /\ \/ caller'[a] = "offer skip" /\ marker'[a] = "terminal"
           \/ caller'[a] = "record skip" /\ marker'[a] = marker[a]
        /\ a \in ledger' <=> a \in ledger
        /\ a \in torn' <=> a \in torn
        /\ a \in undurable' <=> a \in undurable
        /\ SameCell(a)
        /\ SameOwner(a)
        /\ SameJobs(a)
        /\ SameOrphan(a)
    BY <1>0, <1>5, QueuesKept DEF SameCell, SameOwner, SameCount, SameEvidence,
        SameJobs, SameOrphan, Typed, ThreadsType, EvidenceType, Recorded,
        CheckpointSkip, Goto, cells, queues
  <2>3. Local(a)'
    BY <2>2, LocalType DEF Local, Entering, Waiting, Duties, Unfinished, Told,
        CallerDuty, WorkerDuty, OpenIntent, Evident, SameCell, SameOwner, SameCount,
        SameEvidence, SameJobs, SameOrphan
  <2>4. QED
    BY <1>0, <2>1, <2>3, SameKeeps DEF Inv
<1>6. ASSUME NEW a \in Attempts, OfferSkip(a)
      PROVE  \A b \in Attempts : Local(b)'
  <2>0. ASSUME control' = Append(control, [kind |-> "skip", attempt |-> a]), UNCHANGED finisher
        PROVE  \A b \in Attempts : (Queued(b)' <=> Queued(b)) /\ (SkipJob(b)' <=> SkipJob(b) \/ b = a)
    BY <1>0, <2>0, ControlPuts
  <2>1. \A b \in Attempts \ {a} : Same(b)
    BY <1>0, <1>6, FinisherPuts, ControlPuts, QueuesKept, <2>0 DEF Same, SameCell,
        SameOwner, SameCount, SameEvidence, SameJobs, SameOrphan, Typed, ThreadsType,
        EvidenceType, Recorded, OfferSkip, Goto, cells, evidence, bounds, queues
  <2>2. /\ caller[a] = "offer skip" /\ caller'[a] \in {"skipped", "record skip"}
        /\ Queued(a)' <=> Queued(a)
        /\ SkipJob(a)' => SkipJob(a) \/ caller'[a] = "skipped"
        /\ SameCell(a)
        /\ SameOwner(a)
        /\ SameEvidence(a)
        /\ SameOrphan(a)
    BY <1>0, <1>6, FinisherPuts, ControlPuts, QueuesKept, <2>0 DEF SameCell,
        SameOwner, SameCount, SameEvidence, SameJobs, SameOrphan, Typed, ThreadsType,
        EvidenceType, Recorded, OfferSkip, Goto, cells, evidence, bounds, queues
  <2>3. Local(a)'
    BY <2>2, LocalType DEF Local, Entering, Waiting, Duties, Unfinished, Told,
        CallerDuty, WorkerDuty, OpenIntent, Evident, SameCell, SameOwner, SameCount,
        SameEvidence, SameJobs, SameOrphan
  <2>4. QED
    BY <1>0, <2>1, <2>3, SameKeeps DEF Inv
<1>7. ASSUME NEW a \in Attempts, RecordSkip(a)
      PROVE  \A b \in Attempts : Local(b)'
  <2>1. \A b \in Attempts \ {a} : Same(b)
    BY <1>0, <1>7, QueuesKept, TerminalizeTells DEF Same, SameCell, SameOwner,
        SameCount, SameEvidence, SameJobs, SameOrphan, Typed, ThreadsType,
        EvidenceType, Recorded, RecordSkip, Goto, cells, queues
  <2>2. /\ caller[a] = "record skip" /\ caller'[a] = "skipped"
        /\ SameCount(a)
        /\ Evident(a)' /\ (marker'[a] # "intent" \/ a \in torn')
        /\ (marker'[a] = "intent" => marker[a] = "intent") /\ (a \in torn => a \in torn')
        /\ SameCell(a)
        /\ SameOwner(a)
        /\ SameJobs(a)
        /\ SameOrphan(a)
    BY <1>0, <1>7, QueuesKept, TerminalizeTells DEF SameCell, SameOwner, SameCount,
        SameEvidence, SameJobs, SameOrphan, Typed, ThreadsType, EvidenceType,
        Recorded, RecordSkip, Goto, cells, queues
  <2>3. /\ Local(a) /\ completions[a] \in Nat
        /\ Recorded(a) <=> completions[a] # 0
    BY LocalType
  <2>4. Entering(a)'
    BY <2>2, <2>3 DEF Local, Entering, Waiting, Duties, Unfinished, Told, CallerDuty,
        WorkerDuty, OpenIntent, Evident, SameCell, SameOwner, SameCount, SameEvidence,
        SameJobs, SameOrphan
  <2>5. Waiting(a)'
    BY <2>2, <2>3 DEF Local, Entering, Waiting, Duties, Unfinished, Told, CallerDuty,
        WorkerDuty, OpenIntent, Evident, SameCell, SameOwner, SameCount, SameEvidence,
        SameJobs, SameOrphan
  <2>6. Duties(a)'
    BY <2>2, <2>3 DEF Local, Entering, Waiting, Duties, Unfinished, Told, CallerDuty,
        WorkerDuty, OpenIntent, Evident, SameCell, SameOwner, SameCount, SameEvidence,
        SameJobs, SameOrphan
  <2>7. Unfinished(a)'
    BY <2>2, <2>3 DEF Local, Entering, Waiting, Duties, Unfinished, Told, CallerDuty,
        WorkerDuty, OpenIntent, Evident, SameCell, SameOwner, SameCount, SameEvidence,
        SameJobs, SameOrphan
  <2>8. Told(a)'
    BY <2>2, <2>3 DEF Local, Entering, Waiting, Duties, Unfinished, Told, CallerDuty,
        WorkerDuty, OpenIntent, Evident, SameCell, SameOwner, SameCount, SameEvidence,
        SameJobs, SameOrphan
  <2>9. Local(a)'
    BY <2>4, <2>5, <2>6, <2>7, <2>8 DEF Local
  <2>10. QED
    BY <1>0, <2>1, <2>9, SameKeeps DEF Inv
<1>8. ASSUME NEW a \in Attempts, WriteIntent(a)
      PROVE  \A b \in Attempts : Local(b)'
  <2>1. \A b \in Attempts \ {a} : Same(b)
    BY <1>0, <1>8, QueuesKept DEF Same, SameCell, SameOwner, SameCount, SameEvidence,
        SameJobs, SameOrphan, Typed, ThreadsType, EvidenceType, Recorded, WriteIntent,
        Goto, cells, queues
  <2>2. /\ caller[a] = "intent" /\ caller'[a] = "execute"
        /\ marker'[a] \in {"intent", marker[a]} /\ SameCount(a)
        /\ a \in ledger' <=> a \in ledger
        /\ a \in torn' <=> a \in torn
        /\ a \in undurable' <=> a \in undurable
        /\ SameCell(a)
        /\ SameOwner(a)
        /\ SameJobs(a)
        /\ SameOrphan(a)
    BY <1>0, <1>8, QueuesKept DEF SameCell, SameOwner, SameCount, SameEvidence,
        SameJobs, SameOrphan, Typed, ThreadsType, EvidenceType, Recorded, WriteIntent,
        Goto, cells, queues
  <2>3. /\ Local(a) /\ completions[a] \in Nat
        /\ Recorded(a) <=> completions[a] # 0
    BY LocalType
  <2>4. Entering(a)'
    BY <2>2, <2>3 DEF Local, Entering, Waiting, Duties, Unfinished, Told, CallerDuty,
        WorkerDuty, OpenIntent, Evident, SameCell, SameOwner, SameCount, SameEvidence,
        SameJobs, SameOrphan
  <2>5. Waiting(a)'
    BY <2>2, <2>3 DEF Local, Entering, Waiting, Duties, Unfinished, Told, CallerDuty,
        WorkerDuty, OpenIntent, Evident, SameCell, SameOwner, SameCount, SameEvidence,
        SameJobs, SameOrphan
  <2>6. Duties(a)'
    BY <2>2, <2>3 DEF Local, Entering, Waiting, Duties, Unfinished, Told, CallerDuty,
        WorkerDuty, OpenIntent, Evident, SameCell, SameOwner, SameCount, SameEvidence,
        SameJobs, SameOrphan
  <2>7. Unfinished(a)'
    BY <2>2, <2>3 DEF Local, Entering, Waiting, Duties, Unfinished, Told, CallerDuty,
        WorkerDuty, OpenIntent, Evident, SameCell, SameOwner, SameCount, SameEvidence,
        SameJobs, SameOrphan
  <2>8. Told(a)'
    BY <2>2, <2>3 DEF Local, Entering, Waiting, Duties, Unfinished, Told, CallerDuty,
        WorkerDuty, OpenIntent, Evident, SameCell, SameOwner, SameCount, SameEvidence,
        SameJobs, SameOrphan
  <2>9. Local(a)'
    BY <2>4, <2>5, <2>6, <2>7, <2>8 DEF Local
  <2>10. QED
    BY <1>0, <2>1, <2>9, SameKeeps DEF Inv
<1>9. ASSUME NEW a \in Attempts, Execute(a)
      PROVE  \A b \in Attempts : Local(b)'
  <2>1. \A b \in Attempts \ {a} : Same(b)
    BY <1>0, <1>9, QueuesKept DEF Same, SameCell, SameOwner, SameCount, SameEvidence,
        SameJobs, SameOrphan, Typed, ThreadsType, EvidenceType, Recorded, Execute,
        Goto, queues, evidence, bounds
  <2>2. /\ caller[a] = "execute"
        /\ \/ caller'[a] = "wait" /\ task'[a] = "computing" /\ phase'[a] = phase[a]
           \/ caller'[a] = "record failure" /\ task'[a] = task[a] /\ phase'[a] = "caller"
        /\ SameOwner(a)
        /\ SameEvidence(a)
        /\ SameJobs(a)
        /\ SameOrphan(a)
    BY <1>0, <1>9, QueuesKept DEF SameCell, SameOwner, SameCount, SameEvidence,
        SameJobs, SameOrphan, Typed, ThreadsType, EvidenceType, Recorded, Execute,
        Goto, queues, evidence, bounds
  <2>3. Local(a)'
    BY <2>2, LocalType DEF Local, Entering, Waiting, Duties, Unfinished, Told,
        CallerDuty, WorkerDuty, OpenIntent, Evident, SameCell, SameOwner, SameCount,
        SameEvidence, SameJobs, SameOrphan
  <2>4. QED
    BY <1>0, <2>1, <2>3, SameKeeps DEF Inv
<1>10. ASSUME NEW a \in Attempts, ReceiveInTime(a)
      PROVE  \A b \in Attempts : Local(b)'
  <2>1. \A b \in Attempts \ {a} : Same(b)
    BY <1>0, <1>10, QueuesKept DEF Same, SameCell, SameOwner, SameCount, SameEvidence,
        SameJobs, SameOrphan, Typed, ThreadsType, EvidenceType, Recorded,
        ReceiveInTime, Goto, queues, evidence, bounds
  <2>2. /\ caller[a] = "wait" /\ task[a] # "computing" /\ task'[a] = task[a]
        /\ caller'[a] \in {"offer value", "record failure"} /\ phase'[a] = "caller"
        /\ SameOwner(a)
        /\ SameEvidence(a)
        /\ SameJobs(a)
        /\ SameOrphan(a)
    BY <1>0, <1>10, QueuesKept DEF SameCell, SameOwner, SameCount, SameEvidence,
        SameJobs, SameOrphan, Typed, ThreadsType, EvidenceType, Recorded,
        ReceiveInTime, Goto, queues, evidence, bounds
  <2>3. Local(a)'
    BY <2>2, LocalType DEF Local, Entering, Waiting, Duties, Unfinished, Told,
        CallerDuty, WorkerDuty, OpenIntent, Evident, SameCell, SameOwner, SameCount,
        SameEvidence, SameJobs, SameOrphan
  <2>4. QED
    BY <1>0, <2>1, <2>3, SameKeeps DEF Inv
<1>11. ASSUME NEW a \in Attempts, Expire(a)
      PROVE  \A b \in Attempts : Local(b)'
  <2>1. \A b \in Attempts \ {a} : Same(b)
    BY <1>0, <1>11, QueuesKept DEF Same, SameCell, SameOwner, SameCount, SameEvidence,
        SameJobs, SameOrphan, Typed, ThreadsType, EvidenceType, Recorded, Expire,
        Goto, cells, queues, evidence, bounds
  <2>2. /\ caller[a] = "wait" /\ caller'[a] = "expired"
        /\ SameCell(a)
        /\ SameOwner(a)
        /\ SameEvidence(a)
        /\ SameJobs(a)
        /\ SameOrphan(a)
    BY <1>0, <1>11, QueuesKept DEF SameCell, SameOwner, SameCount, SameEvidence,
        SameJobs, SameOrphan, Typed, ThreadsType, EvidenceType, Recorded, Expire,
        Goto, cells, queues, evidence, bounds
  <2>3. Local(a)'
    BY <2>2, LocalType DEF Local, Entering, Waiting, Duties, Unfinished, Told,
        CallerDuty, WorkerDuty, OpenIntent, Evident, SameCell, SameOwner, SameCount,
        SameEvidence, SameJobs, SameOrphan
  <2>4. QED
    BY <1>0, <2>1, <2>3, SameKeeps DEF Inv
<1>12. ASSUME NEW a \in Attempts, PublishLate(a)
      PROVE  \A b \in Attempts : Local(b)'
  <2>1. \A b \in Attempts \ {a} : Same(b)
    BY <1>0, <1>12, QueuesKept DEF Same, SameCell, SameOwner, SameCount, SameEvidence,
        SameJobs, SameOrphan, Typed, ThreadsType, EvidenceType, Recorded, PublishLate,
        Goto, queues, evidence, bounds
  <2>2. /\ caller[a] = "expired" /\ caller'[a] = "look again"
        /\ phase'[a] = "late" /\ task'[a] = task[a]
        /\ SameOwner(a)
        /\ SameEvidence(a)
        /\ SameJobs(a)
        /\ SameOrphan(a)
    BY <1>0, <1>12, QueuesKept DEF SameCell, SameOwner, SameCount, SameEvidence,
        SameJobs, SameOrphan, Typed, ThreadsType, EvidenceType, Recorded, PublishLate,
        Goto, queues, evidence, bounds
  <2>3. Local(a)'
    BY <2>2, LocalType DEF Local, Entering, Waiting, Duties, Unfinished, Told,
        CallerDuty, WorkerDuty, OpenIntent, Evident, SameCell, SameOwner, SameCount,
        SameEvidence, SameJobs, SameOrphan
  <2>4. QED
    BY <1>0, <2>1, <2>3, SameKeeps DEF Inv
<1>13. ASSUME NEW a \in Attempts, LookAgain(a)
      PROVE  \A b \in Attempts : Local(b)'
  <2>1. \A b \in Attempts \ {a} : Same(b)
    BY <1>0, <1>13, QueuesKept DEF Same, SameCell, SameOwner, SameCount, SameEvidence,
        SameJobs, SameOrphan, Typed, ThreadsType, EvidenceType, Recorded, LookAgain,
        Goto, queues, evidence, bounds
  <2>2. /\ caller[a] = "look again" /\ task'[a] = task[a]
        /\ \/ /\ task[a] # "computing" /\ phase[a] = "late"
              /\ phase'[a] = "claimed" /\ caller'[a] = "dispatch"
           \/ /\ task[a] = "computing" \/ phase[a] # "late"
              /\ phase'[a] = phase[a] /\ caller'[a] = "note"
        /\ SameOwner(a)
        /\ SameEvidence(a)
        /\ SameJobs(a)
        /\ SameOrphan(a)
    BY <1>0, <1>13, QueuesKept DEF SameCell, SameOwner, SameCount, SameEvidence,
        SameJobs, SameOrphan, Typed, ThreadsType, EvidenceType, Recorded, LookAgain,
        Goto, queues, evidence, bounds
  <2>3. Local(a)'
    BY <2>2, LocalType DEF Local, Entering, Waiting, Duties, Unfinished, Told,
        CallerDuty, WorkerDuty, OpenIntent, Evident, SameCell, SameOwner, SameCount,
        SameEvidence, SameJobs, SameOrphan
  <2>4. QED
    BY <1>0, <2>1, <2>3, SameKeeps DEF Inv
<1>14. ASSUME NEW a \in Attempts, NoteLate(a)
      PROVE  \A b \in Attempts : Local(b)'
  <2>1. \A b \in Attempts \ {a} : Same(b)
    BY <1>0, <1>14, FinisherPuts, ControlPuts, QueuesKept DEF Same, SameCell,
        SameOwner, SameCount, SameEvidence, SameJobs, SameOrphan, Typed, ThreadsType,
        EvidenceType, Recorded, NoteLate, Goto, cells, evidence, bounds, queues
  <2>2. /\ caller[a] = "note" /\ caller'[a] = "returned"
        /\ SameCell(a)
        /\ SameOwner(a)
        /\ SameEvidence(a)
        /\ SameJobs(a)
        /\ SameOrphan(a)
    BY <1>0, <1>14, FinisherPuts, ControlPuts, QueuesKept DEF SameCell, SameOwner,
        SameCount, SameEvidence, SameJobs, SameOrphan, Typed, ThreadsType,
        EvidenceType, Recorded, NoteLate, Goto, cells, evidence, bounds, queues
  <2>3. Local(a)'
    BY <2>2, LocalType DEF Local, Entering, Waiting, Duties, Unfinished, Told,
        CallerDuty, WorkerDuty, OpenIntent, Evident, SameCell, SameOwner, SameCount,
        SameEvidence, SameJobs, SameOrphan
  <2>4. QED
    BY <1>0, <2>1, <2>3, SameKeeps DEF Inv
<1>15. ASSUME NEW a \in Attempts, OfferValue(a)
      PROVE  \A b \in Attempts : Local(b)'
  <2>1. \A b \in Attempts \ {a} : Same(b)
    BY <1>0, <1>15, FinisherPuts, ControlPuts, QueuesKept DEF Same, SameCell,
        SameOwner, SameCount, SameEvidence, SameJobs, SameOrphan, Typed, ThreadsType,
        EvidenceType, Recorded, OfferValue, Goto, cells, evidence, bounds, queues
  <2>2. /\ caller[a] = "offer value"
        /\ SkipJob(a)' => SkipJob(a)
        /\ \/ caller'[a] = "returned" /\ Queued(a)'
           \/ caller'[a] = "record value" /\ (Queued(a)' <=> Queued(a))
        /\ SameCell(a)
        /\ SameOwner(a)
        /\ SameEvidence(a)
        /\ SameOrphan(a)
    BY <1>0, <1>15, FinisherPuts, ControlPuts, QueuesKept DEF SameCell, SameOwner,
        SameCount, SameEvidence, SameJobs, SameOrphan, Typed, ThreadsType,
        EvidenceType, Recorded, OfferValue, Goto, cells, evidence, bounds, queues
  <2>3. Local(a)'
    BY <2>2, LocalType DEF Local, Entering, Waiting, Duties, Unfinished, Told,
        CallerDuty, WorkerDuty, OpenIntent, Evident, SameCell, SameOwner, SameCount,
        SameEvidence, SameJobs, SameOrphan
  <2>4. QED
    BY <1>0, <2>1, <2>3, SameKeeps DEF Inv
<1>16. ASSUME NEW a \in Attempts, CallerCompletes(a)
      PROVE  \A b \in Attempts : Local(b)'
  <2>1. \A b \in Attempts \ {a} : Same(b)
    BY <1>0, <1>16, QueuesKept, TerminalizeTells, CompleteTells DEF Same, SameCell,
        SameOwner, SameCount, SameEvidence, SameJobs, SameOrphan, Typed, ThreadsType,
        EvidenceType, Recorded, CallerCompletes, Goto, cells, queues
  <2>2. /\ caller[a] \in {"record failure", "record value", "record rejection"}
        /\ caller'[a] \in {"release", "release late"}
        /\ Recorded(a)' /\ (completions[a] = 0 => completions'[a] <= 1)
        /\ Evident(a)' /\ (marker'[a] # "intent" \/ a \in torn')
        /\ (marker'[a] = "intent" => marker[a] = "intent") /\ (a \in torn => a \in torn')
        /\ SameCell(a)
        /\ SameOwner(a)
        /\ SameJobs(a)
        /\ SameOrphan(a)
    BY <1>0, <1>16, QueuesKept, TerminalizeTells, CompleteTells DEF SameCell,
        SameOwner, SameCount, SameEvidence, SameJobs, SameOrphan, Typed, ThreadsType,
        EvidenceType, Recorded, CallerCompletes, Goto, cells, queues
  <2>3. /\ Local(a) /\ completions[a] \in Nat
        /\ Recorded(a) <=> completions[a] # 0
    BY LocalType
  <2>4. Entering(a)'
    BY <2>2, <2>3 DEF Local, Entering, Waiting, Duties, Unfinished, Told, CallerDuty,
        WorkerDuty, OpenIntent, Evident, SameCell, SameOwner, SameCount, SameEvidence,
        SameJobs, SameOrphan
  <2>5. Waiting(a)'
    BY <2>2, <2>3 DEF Local, Entering, Waiting, Duties, Unfinished, Told, CallerDuty,
        WorkerDuty, OpenIntent, Evident, SameCell, SameOwner, SameCount, SameEvidence,
        SameJobs, SameOrphan
  <2>6. Duties(a)'
    BY <2>2, <2>3 DEF Local, Entering, Waiting, Duties, Unfinished, Told, CallerDuty,
        WorkerDuty, OpenIntent, Evident, SameCell, SameOwner, SameCount, SameEvidence,
        SameJobs, SameOrphan
  <2>7. Unfinished(a)'
    BY <2>2, <2>3 DEF Local, Entering, Waiting, Duties, Unfinished, Told, CallerDuty,
        WorkerDuty, OpenIntent, Evident, SameCell, SameOwner, SameCount, SameEvidence,
        SameJobs, SameOrphan
  <2>8. Told(a)'
    BY <2>2, <2>3 DEF Local, Entering, Waiting, Duties, Unfinished, Told, CallerDuty,
        WorkerDuty, OpenIntent, Evident, SameCell, SameOwner, SameCount, SameEvidence,
        SameJobs, SameOrphan
  <2>9. Local(a)'
    BY <2>4, <2>5, <2>6, <2>7, <2>8 DEF Local
  <2>10. QED
    BY <1>0, <2>1, <2>9, SameKeeps DEF Inv
<1>17. ASSUME NEW a \in Attempts, CallerReleases(a)
      PROVE  \A b \in Attempts : Local(b)'
  <2>1. \A b \in Attempts \ {a} : Same(b)
    BY <1>0, <1>17, QueuesKept DEF Same, SameCell, SameOwner, SameCount, SameEvidence,
        SameJobs, SameOrphan, Typed, ThreadsType, EvidenceType, Recorded,
        CallerReleases, Goto, queues, evidence, bounds
  <2>2. /\ caller[a] \in {"release", "release late"} /\ caller'[a] \in {"note", "returned"}
        /\ a \notin admitted'
        /\ SameCell(a)
        /\ SameEvidence(a)
        /\ SameJobs(a)
        /\ SameOrphan(a)
    BY <1>0, <1>17, QueuesKept DEF SameCell, SameOwner, SameCount, SameEvidence,
        SameJobs, SameOrphan, Typed, ThreadsType, EvidenceType, Recorded,
        CallerReleases, Goto, queues, evidence, bounds
  <2>3. /\ Local(a) /\ completions[a] \in Nat
        /\ Recorded(a) <=> completions[a] # 0
    BY LocalType
  <2>4. Entering(a)'
    BY <2>2, <2>3 DEF Local, Entering, Waiting, Duties, Unfinished, Told, CallerDuty,
        WorkerDuty, OpenIntent, Evident, SameCell, SameOwner, SameCount, SameEvidence,
        SameJobs, SameOrphan
  <2>5. Waiting(a)'
    BY <2>2, <2>3 DEF Local, Entering, Waiting, Duties, Unfinished, Told, CallerDuty,
        WorkerDuty, OpenIntent, Evident, SameCell, SameOwner, SameCount, SameEvidence,
        SameJobs, SameOrphan
  <2>6. Duties(a)'
    BY <2>2, <2>3 DEF Local, Entering, Waiting, Duties, Unfinished, Told, CallerDuty,
        WorkerDuty, OpenIntent, Evident, SameCell, SameOwner, SameCount, SameEvidence,
        SameJobs, SameOrphan
  <2>7. Unfinished(a)'
    BY <2>2, <2>3 DEF Local, Entering, Waiting, Duties, Unfinished, Told, CallerDuty,
        WorkerDuty, OpenIntent, Evident, SameCell, SameOwner, SameCount, SameEvidence,
        SameJobs, SameOrphan
  <2>8. Told(a)'
    BY <2>2, <2>3 DEF Local, Entering, Waiting, Duties, Unfinished, Told, CallerDuty,
        WorkerDuty, OpenIntent, Evident, SameCell, SameOwner, SameCount, SameEvidence,
        SameJobs, SameOrphan
  <2>9. Local(a)'
    BY <2>4, <2>5, <2>6, <2>7, <2>8 DEF Local
  <2>10. QED
    BY <1>0, <2>1, <2>9, SameKeeps DEF Inv
<1>18. ASSUME NEW a \in Attempts, CallerDispatches(a)
      PROVE  \A b \in Attempts : Local(b)'
  <2>1. \A b \in Attempts \ {a} : Same(b)
    BY <1>0, <1>18, FinisherPuts, ControlPuts, QueuesKept DEF Same, SameCell,
        SameOwner, SameCount, SameEvidence, SameJobs, SameOrphan, Typed, ThreadsType,
        EvidenceType, Recorded, CallerDispatches, HandOver, Goto, BothLanesReject,
        queues, cells, evidence, bounds
  <2>2. /\ caller[a] = "dispatch"
        /\ SkipJob(a)' => SkipJob(a)
        /\ \/ caller'[a] = "note" /\ Queued(a)'
           \/ caller'[a] = "record rejection" /\ (Queued(a)' <=> Queued(a))
        /\ SameCell(a)
        /\ SameOwner(a)
        /\ SameEvidence(a)
        /\ SameOrphan(a)
    BY <1>0, <1>18, FinisherPuts, ControlPuts, QueuesKept DEF SameCell, SameOwner,
        SameCount, SameEvidence, SameJobs, SameOrphan, Typed, ThreadsType,
        EvidenceType, Recorded, CallerDispatches, HandOver, Goto, BothLanesReject,
        queues, cells, evidence, bounds
  <2>3. /\ Local(a) /\ completions[a] \in Nat
        /\ Recorded(a) <=> completions[a] # 0
    BY LocalType
  <2>4. Entering(a)'
    BY <2>2, <2>3 DEF Local, Entering, Waiting, Duties, Unfinished, Told, CallerDuty,
        WorkerDuty, OpenIntent, Evident, SameCell, SameOwner, SameCount, SameEvidence,
        SameJobs, SameOrphan
  <2>5. Waiting(a)'
    BY <2>2, <2>3 DEF Local, Entering, Waiting, Duties, Unfinished, Told, CallerDuty,
        WorkerDuty, OpenIntent, Evident, SameCell, SameOwner, SameCount, SameEvidence,
        SameJobs, SameOrphan
  <2>6. Duties(a)'
    BY <2>2, <2>3 DEF Local, Entering, Waiting, Duties, Unfinished, Told, CallerDuty,
        WorkerDuty, OpenIntent, Evident, SameCell, SameOwner, SameCount, SameEvidence,
        SameJobs, SameOrphan
  <2>7. Unfinished(a)'
    BY <2>2, <2>3 DEF Local, Entering, Waiting, Duties, Unfinished, Told, CallerDuty,
        WorkerDuty, OpenIntent, Evident, SameCell, SameOwner, SameCount, SameEvidence,
        SameJobs, SameOrphan
  <2>8. Told(a)'
    BY <2>2, <2>3 DEF Local, Entering, Waiting, Duties, Unfinished, Told, CallerDuty,
        WorkerDuty, OpenIntent, Evident, SameCell, SameOwner, SameCount, SameEvidence,
        SameJobs, SameOrphan
  <2>9. Local(a)'
    BY <2>4, <2>5, <2>6, <2>7, <2>8 DEF Local
  <2>10. QED
    BY <1>0, <2>1, <2>9, SameKeeps DEF Inv
<1>19. ASSUME NEW a \in Attempts, ReleaseSlot(a)
      PROVE  \A b \in Attempts : Local(b)'
  <2>1. \A b \in Attempts \ {a} : Same(b)
    BY <1>0, <1>19, QueuesKept DEF Same, SameCell, SameOwner, SameCount, SameEvidence,
        SameJobs, SameOrphan, Typed, ThreadsType, EvidenceType, Recorded, ReleaseSlot,
        queues, evidence, bounds
  <2>2. /\ caller'[a] = caller[a]
        /\ task[a] = "completed" /\ task'[a] = "done" /\ phase'[a] = phase[a]
        /\ SameOwner(a)
        /\ SameEvidence(a)
        /\ SameJobs(a)
        /\ SameOrphan(a)
    BY <1>0, <1>19, QueuesKept DEF SameCell, SameOwner, SameCount, SameEvidence,
        SameJobs, SameOrphan, Typed, ThreadsType, EvidenceType, Recorded, ReleaseSlot,
        queues, evidence, bounds
  <2>3. /\ Local(a) /\ completions[a] \in Nat
        /\ Recorded(a) <=> completions[a] # 0
    BY LocalType
  <2>4. Entering(a)'
    BY <2>2, <2>3 DEF Local, Entering, Waiting, Duties, Unfinished, Told, CallerDuty,
        WorkerDuty, OpenIntent, Evident, SameCell, SameOwner, SameCount, SameEvidence,
        SameJobs, SameOrphan
  <2>5. Waiting(a)'
    BY <2>2, <2>3 DEF Local, Entering, Waiting, Duties, Unfinished, Told, CallerDuty,
        WorkerDuty, OpenIntent, Evident, SameCell, SameOwner, SameCount, SameEvidence,
        SameJobs, SameOrphan
  <2>6. Duties(a)'
    BY <2>2, <2>3 DEF Local, Entering, Waiting, Duties, Unfinished, Told, CallerDuty,
        WorkerDuty, OpenIntent, Evident, SameCell, SameOwner, SameCount, SameEvidence,
        SameJobs, SameOrphan
  <2>7. Unfinished(a)'
    BY <2>2, <2>3 DEF Local, Entering, Waiting, Duties, Unfinished, Told, CallerDuty,
        WorkerDuty, OpenIntent, Evident, SameCell, SameOwner, SameCount, SameEvidence,
        SameJobs, SameOrphan
  <2>8. Told(a)'
    BY <2>2, <2>3 DEF Local, Entering, Waiting, Duties, Unfinished, Told, CallerDuty,
        WorkerDuty, OpenIntent, Evident, SameCell, SameOwner, SameCount, SameEvidence,
        SameJobs, SameOrphan
  <2>9. Local(a)'
    BY <2>4, <2>5, <2>6, <2>7, <2>8 DEF Local
  <2>10. QED
    BY <1>0, <2>1, <2>9, SameKeeps DEF Inv
<1>20. ASSUME NEW a \in Attempts, DoneClaims(a)
      PROVE  \A b \in Attempts : Local(b)'
  <2>1. \A b \in Attempts \ {a} : Same(b)
    BY <1>0, <1>20, QueuesKept DEF Same, SameCell, SameOwner, SameCount, SameEvidence,
        SameJobs, SameOrphan, Typed, ThreadsType, EvidenceType, Recorded, DoneClaims,
        queues, evidence, bounds
  <2>2. /\ caller'[a] = caller[a]
        /\ task[a] = "done"
        /\ \/ phase[a] = "late" /\ phase'[a] = "claimed" /\ task'[a] = "dispatch"
           \/ phase[a] # "late" /\ phase'[a] = phase[a] /\ task'[a] = "over"
        /\ SameOwner(a)
        /\ SameEvidence(a)
        /\ SameJobs(a)
        /\ SameOrphan(a)
    BY <1>0, <1>20, QueuesKept DEF SameCell, SameOwner, SameCount, SameEvidence,
        SameJobs, SameOrphan, Typed, ThreadsType, EvidenceType, Recorded, DoneClaims,
        queues, evidence, bounds
  <2>3. /\ Local(a) /\ completions[a] \in Nat
        /\ Recorded(a) <=> completions[a] # 0
    BY LocalType
  <2>4. Entering(a)'
    BY <2>2, <2>3 DEF Local, Entering, Waiting, Duties, Unfinished, Told, CallerDuty,
        WorkerDuty, OpenIntent, Evident, SameCell, SameOwner, SameCount, SameEvidence,
        SameJobs, SameOrphan
  <2>5. Waiting(a)'
    BY <2>2, <2>3 DEF Local, Entering, Waiting, Duties, Unfinished, Told, CallerDuty,
        WorkerDuty, OpenIntent, Evident, SameCell, SameOwner, SameCount, SameEvidence,
        SameJobs, SameOrphan
  <2>6. Duties(a)'
    BY <2>2, <2>3 DEF Local, Entering, Waiting, Duties, Unfinished, Told, CallerDuty,
        WorkerDuty, OpenIntent, Evident, SameCell, SameOwner, SameCount, SameEvidence,
        SameJobs, SameOrphan
  <2>7. Unfinished(a)'
    BY <2>2, <2>3 DEF Local, Entering, Waiting, Duties, Unfinished, Told, CallerDuty,
        WorkerDuty, OpenIntent, Evident, SameCell, SameOwner, SameCount, SameEvidence,
        SameJobs, SameOrphan
  <2>8. Told(a)'
    BY <2>2, <2>3 DEF Local, Entering, Waiting, Duties, Unfinished, Told, CallerDuty,
        WorkerDuty, OpenIntent, Evident, SameCell, SameOwner, SameCount, SameEvidence,
        SameJobs, SameOrphan
  <2>9. Local(a)'
    BY <2>4, <2>5, <2>6, <2>7, <2>8 DEF Local
  <2>10. QED
    BY <1>0, <2>1, <2>9, SameKeeps DEF Inv
<1>21. ASSUME NEW a \in Attempts, WorkerDispatches(a)
      PROVE  \A b \in Attempts : Local(b)'
  <2>1. \A b \in Attempts \ {a} : Same(b)
    BY <1>0, <1>21, FinisherPuts, ControlPuts, QueuesKept DEF Same, SameCell,
        SameOwner, SameCount, SameEvidence, SameJobs, SameOrphan, Typed, ThreadsType,
        EvidenceType, Recorded, WorkerDispatches, HandOver, BothLanesReject, queues,
        evidence, bounds
  <2>2. /\ caller'[a] = caller[a]
        /\ task[a] = "dispatch" /\ phase'[a] = phase[a]
        /\ SkipJob(a)' => SkipJob(a)
        /\ \/ task'[a] = "over" /\ Queued(a)'
           \/ task'[a] = "record rejection" /\ (Queued(a)' <=> Queued(a))
        /\ SameOwner(a)
        /\ SameEvidence(a)
        /\ SameOrphan(a)
    BY <1>0, <1>21, FinisherPuts, ControlPuts, QueuesKept DEF SameCell, SameOwner,
        SameCount, SameEvidence, SameJobs, SameOrphan, Typed, ThreadsType,
        EvidenceType, Recorded, WorkerDispatches, HandOver, BothLanesReject, queues,
        evidence, bounds
  <2>3. /\ Local(a) /\ completions[a] \in Nat
        /\ Recorded(a) <=> completions[a] # 0
    BY LocalType
  <2>4. Entering(a)'
    BY <2>2, <2>3 DEF Local, Entering, Waiting, Duties, Unfinished, Told, CallerDuty,
        WorkerDuty, OpenIntent, Evident, SameCell, SameOwner, SameCount, SameEvidence,
        SameJobs, SameOrphan
  <2>5. Waiting(a)'
    BY <2>2, <2>3 DEF Local, Entering, Waiting, Duties, Unfinished, Told, CallerDuty,
        WorkerDuty, OpenIntent, Evident, SameCell, SameOwner, SameCount, SameEvidence,
        SameJobs, SameOrphan
  <2>6. Duties(a)'
    BY <2>2, <2>3 DEF Local, Entering, Waiting, Duties, Unfinished, Told, CallerDuty,
        WorkerDuty, OpenIntent, Evident, SameCell, SameOwner, SameCount, SameEvidence,
        SameJobs, SameOrphan
  <2>7. Unfinished(a)'
    BY <2>2, <2>3 DEF Local, Entering, Waiting, Duties, Unfinished, Told, CallerDuty,
        WorkerDuty, OpenIntent, Evident, SameCell, SameOwner, SameCount, SameEvidence,
        SameJobs, SameOrphan
  <2>8. Told(a)'
    BY <2>2, <2>3 DEF Local, Entering, Waiting, Duties, Unfinished, Told, CallerDuty,
        WorkerDuty, OpenIntent, Evident, SameCell, SameOwner, SameCount, SameEvidence,
        SameJobs, SameOrphan
  <2>9. Local(a)'
    BY <2>4, <2>5, <2>6, <2>7, <2>8 DEF Local
  <2>10. QED
    BY <1>0, <2>1, <2>9, SameKeeps DEF Inv
<1>22. ASSUME NEW a \in Attempts, WorkerCompletes(a)
      PROVE  \A b \in Attempts : Local(b)'
  <2>1. \A b \in Attempts \ {a} : Same(b)
    BY <1>0, <1>22, QueuesKept, TerminalizeTells, CompleteTells DEF Same, SameCell,
        SameOwner, SameCount, SameEvidence, SameJobs, SameOrphan, Typed, ThreadsType,
        EvidenceType, Recorded, WorkerCompletes, queues
  <2>2. /\ caller'[a] = caller[a]
        /\ task[a] = "record rejection" /\ task'[a] = "release" /\ phase'[a] = phase[a]
        /\ Recorded(a)' /\ (completions[a] = 0 => completions'[a] <= 1)
        /\ Evident(a)' /\ (marker'[a] # "intent" \/ a \in torn')
        /\ (marker'[a] = "intent" => marker[a] = "intent") /\ (a \in torn => a \in torn')
        /\ SameOwner(a)
        /\ SameJobs(a)
        /\ SameOrphan(a)
    BY <1>0, <1>22, QueuesKept, TerminalizeTells, CompleteTells DEF SameCell,
        SameOwner, SameCount, SameEvidence, SameJobs, SameOrphan, Typed, ThreadsType,
        EvidenceType, Recorded, WorkerCompletes, queues
  <2>3. /\ Local(a) /\ completions[a] \in Nat
        /\ Recorded(a) <=> completions[a] # 0
    BY LocalType
  <2>4. Entering(a)'
    BY <2>2, <2>3 DEF Local, Entering, Waiting, Duties, Unfinished, Told, CallerDuty,
        WorkerDuty, OpenIntent, Evident, SameCell, SameOwner, SameCount, SameEvidence,
        SameJobs, SameOrphan
  <2>5. Waiting(a)'
    BY <2>2, <2>3 DEF Local, Entering, Waiting, Duties, Unfinished, Told, CallerDuty,
        WorkerDuty, OpenIntent, Evident, SameCell, SameOwner, SameCount, SameEvidence,
        SameJobs, SameOrphan
  <2>6. Duties(a)'
    BY <2>2, <2>3 DEF Local, Entering, Waiting, Duties, Unfinished, Told, CallerDuty,
        WorkerDuty, OpenIntent, Evident, SameCell, SameOwner, SameCount, SameEvidence,
        SameJobs, SameOrphan
  <2>7. Unfinished(a)'
    BY <2>2, <2>3 DEF Local, Entering, Waiting, Duties, Unfinished, Told, CallerDuty,
        WorkerDuty, OpenIntent, Evident, SameCell, SameOwner, SameCount, SameEvidence,
        SameJobs, SameOrphan
  <2>8. Told(a)'
    BY <2>2, <2>3 DEF Local, Entering, Waiting, Duties, Unfinished, Told, CallerDuty,
        WorkerDuty, OpenIntent, Evident, SameCell, SameOwner, SameCount, SameEvidence,
        SameJobs, SameOrphan
  <2>9. Local(a)'
    BY <2>4, <2>5, <2>6, <2>7, <2>8 DEF Local
  <2>10. QED
    BY <1>0, <2>1, <2>9, SameKeeps DEF Inv
<1>23. ASSUME NEW a \in Attempts, WorkerReleases(a)
      PROVE  \A b \in Attempts : Local(b)'
  <2>1. \A b \in Attempts \ {a} : Same(b)
    BY <1>0, <1>23, QueuesKept DEF Same, SameCell, SameOwner, SameCount, SameEvidence,
        SameJobs, SameOrphan, Typed, ThreadsType, EvidenceType, Recorded,
        WorkerReleases, queues, evidence, bounds
  <2>2. /\ caller'[a] = caller[a]
        /\ task[a] = "release" /\ task'[a] = "over" /\ phase'[a] = phase[a]
        /\ a \notin admitted'
        /\ SameEvidence(a)
        /\ SameJobs(a)
        /\ SameOrphan(a)
    BY <1>0, <1>23, QueuesKept DEF SameCell, SameOwner, SameCount, SameEvidence,
        SameJobs, SameOrphan, Typed, ThreadsType, EvidenceType, Recorded,
        WorkerReleases, queues, evidence, bounds
  <2>3. /\ Local(a) /\ completions[a] \in Nat
        /\ Recorded(a) <=> completions[a] # 0
    BY LocalType
  <2>4. Entering(a)'
    BY <2>2, <2>3 DEF Local, Entering, Waiting, Duties, Unfinished, Told, CallerDuty,
        WorkerDuty, OpenIntent, Evident, SameCell, SameOwner, SameCount, SameEvidence,
        SameJobs, SameOrphan
  <2>5. Waiting(a)'
    BY <2>2, <2>3 DEF Local, Entering, Waiting, Duties, Unfinished, Told, CallerDuty,
        WorkerDuty, OpenIntent, Evident, SameCell, SameOwner, SameCount, SameEvidence,
        SameJobs, SameOrphan
  <2>6. Duties(a)'
    BY <2>2, <2>3 DEF Local, Entering, Waiting, Duties, Unfinished, Told, CallerDuty,
        WorkerDuty, OpenIntent, Evident, SameCell, SameOwner, SameCount, SameEvidence,
        SameJobs, SameOrphan
  <2>7. Unfinished(a)'
    BY <2>2, <2>3 DEF Local, Entering, Waiting, Duties, Unfinished, Told, CallerDuty,
        WorkerDuty, OpenIntent, Evident, SameCell, SameOwner, SameCount, SameEvidence,
        SameJobs, SameOrphan
  <2>8. Told(a)'
    BY <2>2, <2>3 DEF Local, Entering, Waiting, Duties, Unfinished, Told, CallerDuty,
        WorkerDuty, OpenIntent, Evident, SameCell, SameOwner, SameCount, SameEvidence,
        SameJobs, SameOrphan
  <2>9. Local(a)'
    BY <2>4, <2>5, <2>6, <2>7, <2>8 DEF Local
  <2>10. QED
    BY <1>0, <2>1, <2>9, SameKeeps DEF Inv
<1>24. CASE FinisherCompletes
  <2>1. PICK a \in Attempts : a = Head(finisher) /\ Queued(a)
    BY <1>0, <1>24, HeadsQueued DEF FinisherCompletes
  <2>2. \A b \in Attempts \ {a} : Same(b)
    BY <1>0, <1>24, <2>1, CompleteTells, TerminalizeTells, QueuesKept DEF Same,
        SameCell, SameOwner, SameCount, SameEvidence, SameJobs, SameOrphan, Typed,
        ThreadsType, EvidenceType, Recorded, FinisherCompletes, cells, queues
  <2>3. /\ caller'[a] = caller[a]
        /\ ~Recorded(a)
        /\ Recorded(a)' /\ (completions[a] = 0 => completions'[a] <= 1)
        /\ Evident(a)' /\ (marker'[a] # "intent" \/ a \in torn')
        /\ (marker'[a] = "intent" => marker[a] = "intent") /\ (a \in torn => a \in torn')
        /\ SameCell(a)
        /\ SameOwner(a)
        /\ SameJobs(a)
        /\ SameOrphan(a)
    BY <1>0, <1>24, <2>1, CompleteTells, TerminalizeTells, QueuesKept DEF SameCell,
        SameOwner, SameCount, SameEvidence, SameJobs, SameOrphan, Typed, ThreadsType,
        EvidenceType, Recorded, FinisherCompletes, cells, queues
  <2>4. /\ Local(a) /\ completions[a] \in Nat
        /\ Recorded(a) <=> completions[a] # 0
    BY <2>1, LocalType
  <2>5. Entering(a)'
    BY <2>1, <2>3, <2>4 DEF Local, Entering, Waiting, Duties, Unfinished, Told,
        CallerDuty, WorkerDuty, OpenIntent, Evident, SameCell, SameOwner, SameCount,
        SameEvidence, SameJobs, SameOrphan
  <2>6. Waiting(a)'
    BY <2>1, <2>3, <2>4 DEF Local, Entering, Waiting, Duties, Unfinished, Told,
        CallerDuty, WorkerDuty, OpenIntent, Evident, SameCell, SameOwner, SameCount,
        SameEvidence, SameJobs, SameOrphan
  <2>7. Duties(a)'
    BY <2>1, <2>3, <2>4 DEF Local, Entering, Waiting, Duties, Unfinished, Told,
        CallerDuty, WorkerDuty, OpenIntent, Evident, SameCell, SameOwner, SameCount,
        SameEvidence, SameJobs, SameOrphan
  <2>8. Unfinished(a)'
    BY <2>1, <2>3, <2>4 DEF Local, Entering, Waiting, Duties, Unfinished, Told,
        CallerDuty, WorkerDuty, OpenIntent, Evident, SameCell, SameOwner, SameCount,
        SameEvidence, SameJobs, SameOrphan
  <2>9. Told(a)'
    BY <2>1, <2>3, <2>4 DEF Local, Entering, Waiting, Duties, Unfinished, Told,
        CallerDuty, WorkerDuty, OpenIntent, Evident, SameCell, SameOwner, SameCount,
        SameEvidence, SameJobs, SameOrphan
  <2>10. Local(a)'
    BY <2>5, <2>6, <2>7, <2>8, <2>9 DEF Local
  <2>11. QED
    BY <1>0, <2>2, <2>10, SameKeeps
<1>25. CASE FinisherReleases
  <2>1. PICK a \in Attempts : a = Head(finisher) /\ Queued(a)
    BY <1>0, <1>25, HeadsQueued DEF FinisherReleases
  <2>2. \A b \in Attempts \ {a} : Same(b)
    BY <1>0, <1>25, <2>1, FinisherTakes DEF Same, SameCell, SameOwner, SameCount,
        SameEvidence, SameJobs, SameOrphan, Typed, ThreadsType, EvidenceType,
        Recorded, FinisherReleases, evidence, bounds
  <2>3. /\ caller'[a] = caller[a]
        /\ Recorded(a) /\ a \notin admitted'
        /\ (Queued(a)' => Queued(a)) /\ (SkipJob(a)' => SkipJob(a))
        /\ SameCell(a)
        /\ SameEvidence(a)
        /\ SameOrphan(a)
    BY <1>0, <1>25, <2>1, FinisherTakes DEF SameCell, SameOwner, SameCount,
        SameEvidence, SameJobs, SameOrphan, Typed, ThreadsType, EvidenceType,
        Recorded, FinisherReleases, evidence, bounds
  <2>4. /\ Local(a) /\ completions[a] \in Nat
        /\ Recorded(a) <=> completions[a] # 0
    BY <2>1, LocalType
  <2>5. Entering(a)'
    BY <2>1, <2>3, <2>4 DEF Local, Entering, Waiting, Duties, Unfinished, Told,
        CallerDuty, WorkerDuty, OpenIntent, Evident, SameCell, SameOwner, SameCount,
        SameEvidence, SameJobs, SameOrphan
  <2>6. Waiting(a)'
    BY <2>1, <2>3, <2>4 DEF Local, Entering, Waiting, Duties, Unfinished, Told,
        CallerDuty, WorkerDuty, OpenIntent, Evident, SameCell, SameOwner, SameCount,
        SameEvidence, SameJobs, SameOrphan
  <2>7. Duties(a)'
    BY <2>1, <2>3, <2>4 DEF Local, Entering, Waiting, Duties, Unfinished, Told,
        CallerDuty, WorkerDuty, OpenIntent, Evident, SameCell, SameOwner, SameCount,
        SameEvidence, SameJobs, SameOrphan
  <2>8. Unfinished(a)'
    BY <2>1, <2>3, <2>4 DEF Local, Entering, Waiting, Duties, Unfinished, Told,
        CallerDuty, WorkerDuty, OpenIntent, Evident, SameCell, SameOwner, SameCount,
        SameEvidence, SameJobs, SameOrphan
  <2>9. Told(a)'
    BY <2>1, <2>3, <2>4 DEF Local, Entering, Waiting, Duties, Unfinished, Told,
        CallerDuty, WorkerDuty, OpenIntent, Evident, SameCell, SameOwner, SameCount,
        SameEvidence, SameJobs, SameOrphan
  <2>10. Local(a)'
    BY <2>5, <2>6, <2>7, <2>8, <2>9 DEF Local
  <2>11. QED
    BY <1>0, <2>2, <2>10, SameKeeps
<1>26. CASE ControlNotes
  <2>1. \A b \in Attempts : Same(b)
    BY <1>0, <1>26, ControlTakes DEF Same, SameCell, SameOwner, SameCount,
        SameEvidence, SameJobs, SameOrphan, Typed, ThreadsType, EvidenceType,
        Recorded, ControlNotes, cells, evidence, bounds
  <2>2. QED
    BY <1>0, <2>1, SameKeeps
<1>27. CASE ControlSkips
  <2>1. PICK a \in Attempts : a = Head(control).attempt /\ SkipJob(a)
    BY <1>0, <1>27, HeadsQueued DEF ControlSkips
  <2>2. \A b \in Attempts \ {a} : Same(b)
    BY <1>0, <1>27, <2>1, TerminalizeTells, ControlTakes DEF Same, SameCell,
        SameOwner, SameCount, SameEvidence, SameJobs, SameOrphan, Typed, ThreadsType,
        EvidenceType, Recorded, ControlSkips, cells
  <2>3. /\ caller'[a] = caller[a]
        /\ SameCount(a)
        /\ Evident(a)' /\ (marker'[a] # "intent" \/ a \in torn')
        /\ (marker'[a] = "intent" => marker[a] = "intent") /\ (a \in torn => a \in torn')
        /\ SameCell(a)
        /\ SameOwner(a)
        /\ SameJobs(a)
        /\ SameOrphan(a)
    BY <1>0, <1>27, <2>1, TerminalizeTells, ControlTakes DEF SameCell, SameOwner,
        SameCount, SameEvidence, SameJobs, SameOrphan, Typed, ThreadsType,
        EvidenceType, Recorded, ControlSkips, cells
  <2>4. /\ Local(a) /\ completions[a] \in Nat
        /\ Recorded(a) <=> completions[a] # 0
    BY <2>1, LocalType
  <2>5. Entering(a)'
    BY <2>1, <2>3, <2>4 DEF Local, Entering, Waiting, Duties, Unfinished, Told,
        CallerDuty, WorkerDuty, OpenIntent, Evident, SameCell, SameOwner, SameCount,
        SameEvidence, SameJobs, SameOrphan
  <2>6. Waiting(a)'
    BY <2>1, <2>3, <2>4 DEF Local, Entering, Waiting, Duties, Unfinished, Told,
        CallerDuty, WorkerDuty, OpenIntent, Evident, SameCell, SameOwner, SameCount,
        SameEvidence, SameJobs, SameOrphan
  <2>7. Duties(a)'
    BY <2>1, <2>3, <2>4 DEF Local, Entering, Waiting, Duties, Unfinished, Told,
        CallerDuty, WorkerDuty, OpenIntent, Evident, SameCell, SameOwner, SameCount,
        SameEvidence, SameJobs, SameOrphan
  <2>8. Unfinished(a)'
    BY <2>1, <2>3, <2>4 DEF Local, Entering, Waiting, Duties, Unfinished, Told,
        CallerDuty, WorkerDuty, OpenIntent, Evident, SameCell, SameOwner, SameCount,
        SameEvidence, SameJobs, SameOrphan
  <2>9. Told(a)'
    BY <2>1, <2>3, <2>4 DEF Local, Entering, Waiting, Duties, Unfinished, Told,
        CallerDuty, WorkerDuty, OpenIntent, Evident, SameCell, SameOwner, SameCount,
        SameEvidence, SameJobs, SameOrphan
  <2>10. Local(a)'
    BY <2>5, <2>6, <2>7, <2>8, <2>9 DEF Local
  <2>11. QED
    BY <1>0, <2>2, <2>10, SameKeeps
<1>28. CASE ControlCompletes
  <2>1. PICK a \in Attempts : a = Head(control).attempt /\ Queued(a)
    BY <1>0, <1>28, HeadsQueued DEF ControlCompletes
  <2>2. \A b \in Attempts \ {a} : Same(b)
    BY <1>0, <1>28, <2>1, CompleteTells, TerminalizeTells, QueuesKept DEF Same,
        SameCell, SameOwner, SameCount, SameEvidence, SameJobs, SameOrphan, Typed,
        ThreadsType, EvidenceType, Recorded, ControlCompletes, cells, queues
  <2>3. /\ caller'[a] = caller[a]
        /\ ~Recorded(a)
        /\ Recorded(a)' /\ (completions[a] = 0 => completions'[a] <= 1)
        /\ Evident(a)' /\ (marker'[a] # "intent" \/ a \in torn')
        /\ (marker'[a] = "intent" => marker[a] = "intent") /\ (a \in torn => a \in torn')
        /\ SameCell(a)
        /\ SameOwner(a)
        /\ SameJobs(a)
        /\ SameOrphan(a)
    BY <1>0, <1>28, <2>1, CompleteTells, TerminalizeTells, QueuesKept DEF SameCell,
        SameOwner, SameCount, SameEvidence, SameJobs, SameOrphan, Typed, ThreadsType,
        EvidenceType, Recorded, ControlCompletes, cells, queues
  <2>4. /\ Local(a) /\ completions[a] \in Nat
        /\ Recorded(a) <=> completions[a] # 0
    BY <2>1, LocalType
  <2>5. Entering(a)'
    BY <2>1, <2>3, <2>4 DEF Local, Entering, Waiting, Duties, Unfinished, Told,
        CallerDuty, WorkerDuty, OpenIntent, Evident, SameCell, SameOwner, SameCount,
        SameEvidence, SameJobs, SameOrphan
  <2>6. Waiting(a)'
    BY <2>1, <2>3, <2>4 DEF Local, Entering, Waiting, Duties, Unfinished, Told,
        CallerDuty, WorkerDuty, OpenIntent, Evident, SameCell, SameOwner, SameCount,
        SameEvidence, SameJobs, SameOrphan
  <2>7. Duties(a)'
    BY <2>1, <2>3, <2>4 DEF Local, Entering, Waiting, Duties, Unfinished, Told,
        CallerDuty, WorkerDuty, OpenIntent, Evident, SameCell, SameOwner, SameCount,
        SameEvidence, SameJobs, SameOrphan
  <2>8. Unfinished(a)'
    BY <2>1, <2>3, <2>4 DEF Local, Entering, Waiting, Duties, Unfinished, Told,
        CallerDuty, WorkerDuty, OpenIntent, Evident, SameCell, SameOwner, SameCount,
        SameEvidence, SameJobs, SameOrphan
  <2>9. Told(a)'
    BY <2>1, <2>3, <2>4 DEF Local, Entering, Waiting, Duties, Unfinished, Told,
        CallerDuty, WorkerDuty, OpenIntent, Evident, SameCell, SameOwner, SameCount,
        SameEvidence, SameJobs, SameOrphan
  <2>10. Local(a)'
    BY <2>5, <2>6, <2>7, <2>8, <2>9 DEF Local
  <2>11. QED
    BY <1>0, <2>2, <2>10, SameKeeps
<1>29. CASE ControlReleases
  <2>1. PICK a \in Attempts : a = Head(control).attempt /\ Queued(a)
    BY <1>0, <1>29, HeadsQueued DEF ControlReleases
  <2>2. \A b \in Attempts \ {a} : Same(b)
    BY <1>0, <1>29, <2>1, ControlTakes DEF Same, SameCell, SameOwner, SameCount,
        SameEvidence, SameJobs, SameOrphan, Typed, ThreadsType, EvidenceType,
        Recorded, ControlReleases, evidence, bounds
  <2>3. /\ caller'[a] = caller[a]
        /\ Recorded(a) /\ a \notin admitted'
        /\ (Queued(a)' => Queued(a)) /\ (SkipJob(a)' => SkipJob(a))
        /\ SameCell(a)
        /\ SameEvidence(a)
        /\ SameOrphan(a)
    BY <1>0, <1>29, <2>1, ControlTakes DEF SameCell, SameOwner, SameCount,
        SameEvidence, SameJobs, SameOrphan, Typed, ThreadsType, EvidenceType,
        Recorded, ControlReleases, evidence, bounds
  <2>4. /\ Local(a) /\ completions[a] \in Nat
        /\ Recorded(a) <=> completions[a] # 0
    BY <2>1, LocalType
  <2>5. Entering(a)'
    BY <2>1, <2>3, <2>4 DEF Local, Entering, Waiting, Duties, Unfinished, Told,
        CallerDuty, WorkerDuty, OpenIntent, Evident, SameCell, SameOwner, SameCount,
        SameEvidence, SameJobs, SameOrphan
  <2>6. Waiting(a)'
    BY <2>1, <2>3, <2>4 DEF Local, Entering, Waiting, Duties, Unfinished, Told,
        CallerDuty, WorkerDuty, OpenIntent, Evident, SameCell, SameOwner, SameCount,
        SameEvidence, SameJobs, SameOrphan
  <2>7. Duties(a)'
    BY <2>1, <2>3, <2>4 DEF Local, Entering, Waiting, Duties, Unfinished, Told,
        CallerDuty, WorkerDuty, OpenIntent, Evident, SameCell, SameOwner, SameCount,
        SameEvidence, SameJobs, SameOrphan
  <2>8. Unfinished(a)'
    BY <2>1, <2>3, <2>4 DEF Local, Entering, Waiting, Duties, Unfinished, Told,
        CallerDuty, WorkerDuty, OpenIntent, Evident, SameCell, SameOwner, SameCount,
        SameEvidence, SameJobs, SameOrphan
  <2>9. Told(a)'
    BY <2>1, <2>3, <2>4 DEF Local, Entering, Waiting, Duties, Unfinished, Told,
        CallerDuty, WorkerDuty, OpenIntent, Evident, SameCell, SameOwner, SameCount,
        SameEvidence, SameJobs, SameOrphan
  <2>10. Local(a)'
    BY <2>5, <2>6, <2>7, <2>8, <2>9 DEF Local
  <2>11. QED
    BY <1>0, <2>2, <2>10, SameKeeps
<1>30. ASSUME NEW a \in Attempts, CheckLive(a)
      PROVE  \A b \in Attempts : Local(b)'
  <2>1. \A b \in Attempts \ {a} : Same(b)
    BY <1>0, <1>30, QueuesKept DEF Same, SameCell, SameOwner, SameCount, SameEvidence,
        SameJobs, SameOrphan, Typed, ThreadsType, EvidenceType, Recorded, CheckLive,
        cells, queues, evidence, bounds, IsLive
  <2>2. /\ caller'[a] = caller[a]
        /\ marker[a] # "none" /\ a \notin admitted
        /\ SameCell(a)
        /\ SameOwner(a)
        /\ SameEvidence(a)
        /\ SameJobs(a)
    BY <1>0, <1>30, QueuesKept DEF SameCell, SameOwner, SameCount, SameEvidence,
        SameJobs, SameOrphan, Typed, ThreadsType, EvidenceType, Recorded, CheckLive,
        cells, queues, evidence, bounds, IsLive
  <2>3. Local(a)'
    BY <2>2, LocalType DEF Local, Entering, Waiting, Duties, Unfinished, Told,
        CallerDuty, WorkerDuty, OpenIntent, Evident, SameCell, SameOwner, SameCount,
        SameEvidence, SameJobs, SameOrphan
  <2>4. QED
    BY <1>0, <2>1, <2>3, SameKeeps DEF Inv
<1>31. CASE SettleOrphan
  <2>1. PICK a \in Attempts : a = orphan /\ orphan' \notin Attempts
    BY <1>0, <1>31, CaptureAssumption DEF SettleOrphan, Typed, ThreadsType, CaptureAssumption
  <2>2. \A b \in Attempts \ {a} : Same(b)
    <3>1. CASE marker[a] = "intent"
      BY <1>0, <1>31, <2>1, <3>1, CompleteTells, TerminalizeTells, QueuesKept
         DEF Same, SameCell, SameOwner, SameCount, SameEvidence, SameJobs, SameOrphan, Recorded, SettleOrphan, cells
    <3>2. CASE marker[a] = "terminal"
      BY <1>0, <1>31, <2>1, <3>2, TerminalizeTells, QueuesKept
         DEF Same, SameCell, SameOwner, SameCount, SameEvidence, SameJobs, SameOrphan, Recorded, SettleOrphan, cells
    <3>3. CASE marker[a] = "none"
      BY <1>0, <1>31, <2>1, <3>3, QueuesKept
         DEF Same, SameCell, SameOwner, SameCount, SameEvidence, SameJobs, SameOrphan, Recorded, SettleOrphan, cells, evidence
    <3>4. QED
      BY <1>0, <2>1, <3>1, <3>2, <3>3 DEF Typed, EvidenceType
  <2>3. /\ caller'[a] = caller[a]
        /\ SameCell(a) /\ SameOwner(a) /\ SameJobs(a) /\ orphan' # a
        /\ \/ SameEvidence(a)
           \/ /\ \/ SameCount(a) /\ marker[a] = "terminal"
                 \/ marker[a] = "intent" /\ Recorded(a)' /\ (completions[a] = 0 => completions'[a] <= 1)
              /\ Evident(a)' /\ (marker'[a] # "intent" \/ a \in torn')
              /\ (marker'[a] = "intent" => marker[a] = "intent") /\ (a \in torn => a \in torn')
    <3>1. CASE marker[a] = "intent"
      BY <1>0, <1>31, <2>1, <3>1, CompleteTells, TerminalizeTells, QueuesKept
         DEF SameCell, SameOwner, SameCount, SameEvidence, SameJobs, SameOrphan, Recorded, SettleOrphan, cells
    <3>2. CASE marker[a] = "terminal"
      BY <1>0, <1>31, <2>1, <3>2, TerminalizeTells, QueuesKept
         DEF SameCell, SameOwner, SameCount, SameEvidence, SameJobs, SameOrphan, Recorded, SettleOrphan, cells
    <3>3. CASE marker[a] = "none"
      BY <1>0, <1>31, <2>1, <3>3, QueuesKept
         DEF SameCell, SameOwner, SameCount, SameEvidence, SameJobs, SameOrphan, Recorded, SettleOrphan, cells, evidence
    <3>4. QED
      BY <1>0, <2>1, <3>1, <3>2, <3>3 DEF Typed, EvidenceType
  <2>4. orphan = a
    BY <2>1
  <2>5. /\ Local(a) /\ completions[a] \in Nat
        /\ Recorded(a) <=> completions[a] # 0
    BY <2>1, LocalType
  <2>6. Entering(a)'
    BY <2>1, <2>3, <2>4, <2>5 DEF Local, Entering, Waiting, Duties, Unfinished, Told,
        CallerDuty, WorkerDuty, OpenIntent, Evident, SameCell, SameOwner, SameCount,
        SameEvidence, SameJobs, SameOrphan
  <2>7. Waiting(a)'
    BY <2>1, <2>3, <2>4, <2>5 DEF Local, Entering, Waiting, Duties, Unfinished, Told,
        CallerDuty, WorkerDuty, OpenIntent, Evident, SameCell, SameOwner, SameCount,
        SameEvidence, SameJobs, SameOrphan
  <2>8. Duties(a)'
    BY <2>1, <2>3, <2>4, <2>5 DEF Local, Entering, Waiting, Duties, Unfinished, Told,
        CallerDuty, WorkerDuty, OpenIntent, Evident, SameCell, SameOwner, SameCount,
        SameEvidence, SameJobs, SameOrphan
  <2>9. Unfinished(a)'
    BY <2>1, <2>3, <2>4, <2>5 DEF Local, Entering, Waiting, Duties, Unfinished, Told,
        CallerDuty, WorkerDuty, OpenIntent, Evident, SameCell, SameOwner, SameCount,
        SameEvidence, SameJobs, SameOrphan
  <2>10. Told(a)'
    BY <2>1, <2>3, <2>4, <2>5 DEF Local, Entering, Waiting, Duties, Unfinished, Told,
        CallerDuty, WorkerDuty, OpenIntent, Evident, SameCell, SameOwner, SameCount,
        SameEvidence, SameJobs, SameOrphan
  <2>11. Local(a)'
    BY <2>6, <2>7, <2>8, <2>9, <2>10 DEF Local
  <2>12. QED
    BY <1>0, <2>2, <2>11, SameKeeps
<1>32. CASE ProcessDeath
  <2> SUFFICES ASSUME NEW a \in Attempts
               PROVE  Local(a)'
    OBVIOUS
  <2>0. /\ caller'[a] = IF Submitting(a) \/ a \in admitted THEN "dead" ELSE caller[a]
        /\ task'[a] = "none" /\ phase'[a] = phase[a] /\ a \notin admitted'
        /\ orphan' = None /\ SameEvidence(a)
    BY <1>32 DEF ProcessDeath, SameEvidence, SameCount, Recorded, evidence
  <2>1. /\ \/ /\ caller'[a] = caller[a] /\ caller[a] \in {"idle", "skipped", "returned", "dead"}
              /\ a \notin admitted
           \/ caller'[a] = "dead"
        /\ task'[a] = "none" /\ phase'[a] = phase[a] /\ a \notin admitted'
        /\ orphan' # a /\ SameEvidence(a)
    BY <2>0, CaptureAssumption DEF CaptureAssumption, Submitting
  <2>2. ~Queued(a)' /\ ~SkipJob(a)'
    BY <1>32 DEF ProcessDeath, Queued, SkipJob
  <2>3. /\ Local(a) /\ completions[a] \in Nat
        /\ Recorded(a) <=> completions[a] # 0
    BY LocalType
  <2>4. Entering(a)'
    BY <2>1, <2>2, <2>3 DEF Local, Entering, Waiting, Duties, Unfinished, Told,
        CallerDuty, WorkerDuty, OpenIntent, Evident, SameCount, SameEvidence
  <2>5. Waiting(a)'
    BY <2>1, <2>2, <2>3 DEF Local, Entering, Waiting, Duties, Unfinished, Told,
        CallerDuty, WorkerDuty, OpenIntent, Evident, SameCount, SameEvidence
  <2>6. Duties(a)'
    BY <2>1, <2>2, <2>3 DEF Local, Entering, Waiting, Duties, Unfinished, Told,
        CallerDuty, WorkerDuty, OpenIntent, Evident, SameCount, SameEvidence
  <2>7. Unfinished(a)'
    BY <2>1, <2>2, <2>3 DEF Local, Entering, Waiting, Duties, Unfinished, Told,
        CallerDuty, WorkerDuty, OpenIntent, Evident, SameCount, SameEvidence
  <2>8. Told(a)'
    BY <2>1, <2>2, <2>3 DEF Local, Entering, Waiting, Duties, Unfinished, Told,
        CallerDuty, WorkerDuty, OpenIntent, Evident, SameCount, SameEvidence
  <2>9. QED
    BY <2>4, <2>5, <2>6, <2>7, <2>8 DEF Local
<1>40. CASE UNCHANGED vars
  BY <1>0, <1>40, SameKeeps, QueuesKept DEF Same, SameCell, SameOwner, SameCount,
      SameEvidence, SameJobs, SameOrphan, Recorded, vars, cells, evidence
<1>50. QED
  BY <1>1, <1>2, <1>3, <1>4, <1>5, <1>6, <1>7, <1>8, <1>9, <1>10, <1>11, <1>12, <1>13,
      <1>14, <1>15, <1>16, <1>17, <1>18, <1>19, <1>20, <1>21, <1>22, <1>23, <1>24,
      <1>25, <1>26, <1>27, <1>28, <1>29, <1>30, <1>31, <1>32, <1>40 DEF Next,
      CallerStep, WorkerStep, FinisherStep, ControlStep, ReconcileStep

LEMMA OneAdmittedStep ==
    ASSUME Inv, [Next]_vars
    PROVE  OneAdmitted'
<1> USE DEF OneAdmitted
<1>0. /\ admitted \subseteq Attempts
      /\ \A a, b \in admitted : KeyOf[a] = KeyOf[b] => a = b
  BY DEF Inv, Typed, ThreadsType
<1>1. ASSUME NEW a \in Attempts, Admit(a)
      PROVE  OneAdmitted'
  BY <1>0, <1>1 DEF Admit, Owner
<1>2. CASE admitted' \subseteq admitted
  BY <1>0, <1>2
<1>3. QED
  BY <1>1, <1>2 DEF Next, CallerStep, WorkerStep, FinisherStep, ControlStep,
      ReconcileStep, vars, cells, Compute, ClaimSlot, Withdraw, CheckpointSkip,
      OfferSkip, RecordSkip, WriteIntent, Execute, ReceiveInTime, Expire, PublishLate,
      LookAgain, NoteLate, OfferValue, CallerCompletes, CallerReleases,
      CallerDispatches, ReleaseSlot, DoneClaims, WorkerDispatches, WorkerCompletes,
      WorkerReleases, FinisherCompletes, FinisherReleases, ControlNotes, ControlSkips,
      ControlCompletes, ControlReleases, CheckLive, SettleOrphan, ProcessDeath

LEMMA InvInit ==
    ASSUME Init
    PROVE  Inv
<1>1. Typed /\ OneAdmitted
  BY TypedInit DEF Init, OneAdmitted
<1>2. ASSUME NEW a \in Attempts
      PROVE  Local(a)
  BY <1>2, CaptureAssumption
     DEF CaptureAssumption, Init, Local, Entering, Waiting, Duties, Unfinished, Told, CallerDuty, WorkerDuty,
         Recorded, OpenIntent, Queued, SkipJob
<1>3. QED
  BY <1>1, <1>2 DEF Inv

LEMMA InvAlways == Spec => []Inv
<1>1. Init => Inv
  BY InvInit
<1>2. Inv /\ [Next]_vars => Inv'
  <2> SUFFICES ASSUME Inv, [Next]_vars
               PROVE  Inv'
    OBVIOUS
  <2>1. Typed'
    BY ThreadsStep, LanesStep, EvidenceStep DEF Inv, Typed
  <2>2. QED
    BY <2>1, LocalStep, OneAdmittedStep DEF Inv
<1>3. QED
  BY <1>1, <1>2, PTL DEF Spec

(***************************************************************************)
(* Exactly one completion owner (CaptureCoordinator.kt:25): whatever the   *)
(* caller, done(), the two lanes and reconciliation do beside each other,  *)
(* an attempt whose outcome the journal took is recorded once, no          *)
(* completion is lost between the caller and done(), and a skipped slot or *)
(* a recorded outcome leaves evidence.                                     *)
(***************************************************************************)
THEOREM OneOwner == Spec => []OneCompletion
<1>1. ASSUME Inv, NEW a \in Attempts
      PROVE  /\ a \notin torn => completions[a] <= 1
             /\ caller[a] = "returned" /\ task[a] = "over" => Recorded(a) \/ Queued(a)
             /\ caller[a] = "skipped" \/ Recorded(a) =>
                   marker[a] = "terminal" \/ a \in ledger \/ a \in undurable
  BY <1>1, LocalType
     DEF Local, Entering, Waiting, Duties, Unfinished, Told, CallerDuty, WorkerDuty, Evident
<1>2. Inv => OneCompletion
  BY <1>1 DEF OneCompletion
<1>3. QED
  BY <1>2, InvAlways, PTL

(***************************************************************************)
(* An open intent is admitted, and admissions of one capture key exclude   *)
(* each other (AdmissionMap): reconciliation never takes a live attempt    *)
(* for an interrupted one, and two attempts of one key are never under way *)
(* together.                                                               *)
(***************************************************************************)
THEOREM OwnersExclude == Spec => []OneOwnerPerKey
<1>1. Inv => OneOwnerPerKey
  <2> SUFFICES ASSUME Inv, NEW a \in Attempts, NEW b \in Attempts
               PROVE  /\ OpenIntent(a) => a \in admitted
                      /\ a # b /\ KeyOf[a] = KeyOf[b] => ~(OpenIntent(a) /\ OpenIntent(b))
    BY DEF OneOwnerPerKey
  <2>1. (OpenIntent(a) => a \in admitted) /\ (OpenIntent(b) => b \in admitted)
    BY DEF Inv, Local, Told
  <2>2. QED
    BY <2>1 DEF Inv, OneAdmitted
<1>2. QED
  BY <1>1, InvAlways, PTL

=============================================================================
