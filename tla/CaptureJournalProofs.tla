------------------------ MODULE CaptureJournalProofs ------------------------
(***************************************************************************)
(* Theorems about CaptureJournal: whatever dies or is refused in between,  *)
(* the files of an attempt keep bytes and events until another store has   *)
(* them, and what there is to see of its outcome stays visible.            *)
(***************************************************************************)
EXTENDS CaptureJournal, TLAPS

\* More time for a leaf than by default, for slow or busy machines.
USE SMTT(30), ZenonT(30)

LEMMA ConstantsAre ==
    /\ Reconciler \notin Attempts /\ None \notin Attempts
    /\ Expectations \subseteq [ChannelSet -> {"PENDING", "NOT_EXPECTED", "BUILD_FAILED"}]
    /\ Expectations \subseteq [ChannelSet -> ChannelStates]
    /\ None \notin [ChannelSet -> ChannelStates]
    /\ None \notin Expectations
    /\ None \notin Intents
    /\ MaxDeaths \in Nat /\ MaxFaults \in Nat
<1>1. Expectations \subseteq [ChannelSet -> {"PENDING", "NOT_EXPECTED", "BUILD_FAILED"}]
  BY JournalAssumption DEF JournalAssumption
<1>2. {"PENDING", "NOT_EXPECTED", "BUILD_FAILED"} \subseteq ChannelStates
  BY DEF ChannelStates, Settled
<1>3. [ChannelSet -> {"PENDING", "NOT_EXPECTED", "BUILD_FAILED"}]
          \subseteq [ChannelSet -> ChannelStates]
  BY <1>2
<1>4. Expectations \subseteq [ChannelSet -> ChannelStates]
  BY <1>1, <1>3
<1>5. None \notin [ChannelSet -> ChannelStates] /\ None \notin Intents
  BY AbsentAssumption DEF AbsentAssumption
<1>6. QED
  BY <1>1, <1>4, <1>5, JournalAssumption DEF JournalAssumption

-----------------------------------------------------------------------------
(***************************************************************************)
(* Where a thread is.  w is what it works on, an element of the array work.*)
(***************************************************************************)
Places ==
    {"idle", "intent", "report", "computing", "bundle", "built", "fan", "checkpoint", "settle",
     "events", "emit", "witness", "resolve", "complete", "final", "unbundle", "unlink", "mark",
     "tell", "release", "read", "adopt", "restore", "done", "dead"}

Work ==
    [pc : Places, at : Attempts \cup {None},
     states : [ChannelSet -> ChannelStates] \cup {None}, todo : SUBSET ChannelSet,
     durable : BOOLEAN, needs : SUBSET Events, then : Places \cup {"none"},
     event : Events \cup {"none"}, marked : BOOLEAN, clean : BOOLEAN]

Working(w) == w.pc \notin {"idle", "done", "dead"}

\* Before the owner has the answer, and until its bundle is behind it.
Preparing(w) == w.pc \in {"intent", "computing"} \/ (w.pc = "report" /\ w.then = "computing")
Storing(w) == w.pc \in {"bundle", "built"} \/ (w.pc = "report" /\ w.then = "fan")

\* Going through events on the way to another step.
Eventing(w) == w.pc \in {"events", "emit", "witness", "resolve"}

\* The fan-out, the end of the files, and the end of a marker.
Fanning(w) ==
    w.pc \in {"fan", "checkpoint", "settle"} \/ (Eventing(w) /\ w.then \in {"fan", "settle"})
Closing(w) ==
    \/ w.pc \in {"complete", "final", "unbundle", "unlink"}
    \/ Eventing(w) /\ w.then \in {"complete", "final"}
Releasing(w) == w.pc = "release" \/ (Eventing(w) /\ w.then = "release")

(***************************************************************************)
(* The inductive invariant.  Good: what a file or a thread says of the     *)
(* channels of an attempt is so.                                           *)
(***************************************************************************)
Good(a, states) ==
    /\ built[a] # None
    /\ \A c \in ChannelSet :
        /\ states[c] = "ENQUEUED" => <<a, c>> \in taken
        /\ states[c] = "COLLISION_RETAINED" => <<a, c>> \in archived
        /\ states[c] \in {"NOT_EXPECTED", "BUILD_FAILED"} => built[a][c] # "PENDING"

Typed ==
    /\ intent \in [Attempts -> Intents \cup {None}]
    /\ bundle \subseteq Attempts /\ temp \subseteq Attempts /\ completed \subseteq Attempts
    /\ live \subseteq Attempts /\ orphans \subseteq Attempts /\ undurable \subseteq Attempts
    /\ built \in [Attempts -> Expectations \cup {None}] /\ born \in [Attempts -> 0..MaxDeaths]
    /\ taken \subseteq Attempts \X ChannelSet
    /\ outbox \subseteq Attempts \X Events /\ sent \subseteq Attempts \X Events
    /\ replaced \subseteq Attempts \X Events
    /\ archived \subseteq Attempts \X (ChannelSet \cup Events)
    /\ work \in [Threads -> Work]
    /\ deaths \in 0..MaxDeaths /\ faults \in 0..MaxFaults

\* What a file says of its attempt is so: each stage was reached with what it
\* stands for.
Says(a, f) ==
    /\ f.channels # None => Good(a, f.channels)
    /\ f.stage = "BUILT" => f.channels # None
    /\ f.stage = "FINAL" => Handed(a)
    /\ f.stage = "TERMINAL" => f.pending # {} \/ Told(a)

FileTrue(a) ==
    /\ intent[a] # None => Says(a, intent[a])
    /\ a \in bundle => built[a] # None
    /\ a \in completed => Handed(a)
    /\ PC(a) = "done" => Evident(a) \/ a \in undurable

\* What a thread has behind it when it gives a channel up or removes a file.
ThreadTrue(w) ==
    /\ Working(w) => w.at \in Attempts
    /\ Eventing(w) => w.then \in {"fan", "settle", "complete", "final", "release"}
    /\ w.pc = "report" => w.then \in {"computing", "fan"}
    /\ w.pc \in {"emit", "witness", "resolve", "mark", "tell"} => w.event \in Events
    /\ w.pc = "mark" => w.marked = FALSE
    /\ w.pc \in {"adopt", "restore"} => built[w.at] # None
    /\ Fanning(w) => w.states # None /\ Good(w.at, w.states)
    /\ Closing(w) => Handed(w.at)
    /\ w.pc \in {"unbundle", "unlink"} /\ intent[w.at] # None => intent[w.at].pending = {}
    /\ w.pc = "resolve" => <<w.at, w.event>> \in outbox \cup sent \cup archived
    /\ w.pc = "tell" /\ w.marked => Evident(w.at)

\* The owner has the bundle as long as it counts on it, and does not leave
\* the outcome before it is evident.
OwnerTrue(a, w) ==
    /\ w.at = a /\ w.pc \notin {"read", "adopt", "restore"}
    /\ Releasing(w) => Evident(a)
    /\ w.pc = "built" \/ (Fanning(w) /\ w.durable) => a \in bundle

\* Reconciliation keeps off an admitted attempt; without admission only the
\* marker of a skip is written, for an attempt that has nothing.
AdmissionTrue(a, w) ==
    /\ a \in live => Working(w) /\ At(Reconciler) # a
    /\ Working(w) /\ a \notin live => built[a] = None
    /\ Preparing(w) \/ Storing(w) => a \in live
    /\ w.pc = "idle" => At(Reconciler) # a
    /\ w.pc \in {"idle", "intent"} => intent[a] = None
    /\ w.pc = "idle" \/ Preparing(w) => built[a] = None
    /\ Storing(w) => built[a] # None

Inv ==
    /\ Typed
    /\ \A a \in Attempts :
        FileTrue(a) /\ OwnerTrue(a, work[a]) /\ AdmissionTrue(a, work[a])
    /\ \A t \in Threads : ThreadTrue(work[t])

-----------------------------------------------------------------------------
(***************************************************************************)
(* What a thread is left with by the ways the code moves it on.            *)
(***************************************************************************)
Moved(t) ==
    /\ work' \in [Threads -> Work]
    /\ \A u \in Threads \ {t} : work'[u] = work[u]

\* It keeps the attempt, what it knows of the channels and where it goes then.
Carries(v, w) ==
    w.at = v.at /\ w.states = v.states /\ w.durable = v.durable /\ w.then = v.then

LEMMA WorkIs ==
    ASSUME Typed, NEW t \in Threads
    PROVE  work[t] \in Work
  BY DEF Typed

LEMMA StepIs ==
    ASSUME Typed, NEW t \in Threads, NEW w \in Work, Step(t, w)
    PROVE  Moved(t) /\ work'[t] = w
  BY DEF Typed, Step, Moved

LEMMA PutPc ==
    ASSUME NEW v \in Work, NEW x \in Places
    PROVE  [v EXCEPT !.pc = x] \in Work
  BY DEF Work

LEMMA PutAt ==
    ASSUME NEW v \in Work, NEW x \in Attempts \cup {None}
    PROVE  [v EXCEPT !.at = x] \in Work
  BY DEF Work

LEMMA PutStates ==
    ASSUME NEW v \in Work, NEW x \in [ChannelSet -> ChannelStates] \cup {None}
    PROVE  [v EXCEPT !.states = x] \in Work
  BY DEF Work

LEMMA PutTodo ==
    ASSUME NEW v \in Work, NEW x \in SUBSET ChannelSet
    PROVE  [v EXCEPT !.todo = x] \in Work
  BY DEF Work

LEMMA PutDurable ==
    ASSUME NEW v \in Work, NEW x \in BOOLEAN
    PROVE  [v EXCEPT !.durable = x] \in Work
  BY DEF Work

LEMMA PutNeeds ==
    ASSUME NEW v \in Work, NEW x \in SUBSET Events
    PROVE  [v EXCEPT !.needs = x] \in Work
  BY DEF Work

LEMMA PutThen ==
    ASSUME NEW v \in Work, NEW x \in Places \cup {"none"}
    PROVE  [v EXCEPT !.then = x] \in Work
  BY DEF Work

LEMMA PutEvent ==
    ASSUME NEW v \in Work, NEW x \in Events \cup {"none"}
    PROVE  [v EXCEPT !.event = x] \in Work
  BY DEF Work

LEMMA PutMarked ==
    ASSUME NEW v \in Work, NEW x \in BOOLEAN
    PROVE  [v EXCEPT !.marked = x] \in Work
  BY DEF Work

LEMMA PutClean ==
    ASSUME NEW v \in Work, NEW x \in BOOLEAN
    PROVE  [v EXCEPT !.clean = x] \in Work
  BY DEF Work

LEMMA PutWhole ==
    ASSUME NEW v \in Work
    PROVE  [v EXCEPT !.clean = TRUE] \in Work /\ [v EXCEPT !.marked = FALSE] \in Work
  BY DEF Work

LEMMA IdleType == Idle \in Work
<1>1. /\ {} \in SUBSET ChannelSet /\ {} \in SUBSET Events /\ "none" \in Events \cup {"none"}
      /\ "none" \in Places \cup {"none"} /\ "idle" \in Places
      /\ None \in Attempts \cup {None} /\ None \in [ChannelSet -> ChannelStates] \cup {None}
      /\ TRUE \in BOOLEAN /\ FALSE \in BOOLEAN
  BY DEF Places
<1>2. QED
  BY <1>1, Zenon DEF Idle, Work

LEMMA IdleIs == Idle.pc = "idle" /\ Idle.at = None /\ Idle.marked = FALSE
  BY DEF Idle

LEMMA GotoIs ==
    ASSUME Typed, NEW t \in Threads, NEW p \in Places, Goto(t, p)
    PROVE  /\ Moved(t) /\ work'[t].pc = p /\ Carries(work[t], work'[t])
           /\ work'[t].event = work[t].event /\ work'[t].marked = work[t].marked
<1>1. PICK v \in Work : v = work[t]
  BY WorkIs
<1>2. PICK w : w = [v EXCEPT !.pc = p]
  OBVIOUS
<1>3. /\ w \in Work /\ w.pc = p /\ Carries(v, w)
      /\ w.event = v.event /\ w.marked = v.marked
  BY <1>2 DEF Work, Carries
<1>4. Step(t, w)
  BY <1>1, <1>2 DEF Goto
<1>5. QED
  BY <1>1, <1>3, <1>4, StepIs

LEMMA TerminalizeIs ==
    ASSUME Typed, NEW t \in Threads, At(t) \in Attempts, NEW e \in Events,
           Step(t, Terminalize(work[t], e))
    PROVE  /\ Moved(t) /\ work'[t].pc = "mark" /\ work'[t].at = work[t].at
           /\ work'[t].event = e /\ work'[t].marked = FALSE
<1>1. PICK v \in Work : v = work[t]
  BY WorkIs
<1>2. PICK w : w = Terminalize(v, e)
  OBVIOUS
<1>3. v.at \in Attempts
  BY <1>1 DEF At
<1>4. w \in Work
  BY <1>2, <1>3, IdleType, PutAt, PutPc, PutEvent DEF Terminalize, Places
<1>5. w.pc = "mark" /\ w.at = v.at /\ w.event = e /\ w.marked = FALSE
  BY <1>2, IdleIs, IdleType DEF Terminalize, Work
<1>6. QED
  BY <1>1, <1>2, <1>4, <1>5, StepIs

LEMMA FanOutIs ==
    ASSUME Typed, NEW t \in Threads, NEW states \in [ChannelSet -> ChannelStates] \cup {None},
           NEW durable \in BOOLEAN, Step(t, FanOut(work[t], states, durable))
    PROVE  /\ Moved(t) /\ work'[t].pc = "fan" /\ work'[t].at = work[t].at
           /\ work'[t].states = states /\ work'[t].durable = durable
<1>1. PICK v \in Work : v = work[t]
  BY WorkIs
<1>2. PICK w : w = FanOut(v, states, durable)
  OBVIOUS
<1>3. Unresolved(states) \in SUBSET ChannelSet
  BY DEF Unresolved
<1>4. w \in Work
  BY <1>2, <1>3, PutPc, PutStates, PutTodo, PutDurable DEF FanOut, Places
<1>5. w.pc = "fan" /\ w.at = v.at /\ w.states = states /\ w.durable = durable
  BY <1>2 DEF Work, FanOut
<1>6. QED
  BY <1>1, <1>2, <1>4, <1>5, StepIs

LEMMA RequireIs ==
    ASSUME NEW v \in Work, NEW events \in SUBSET Events, NEW then \in Places,
           NEW w, w = Require(v, events, then)
    PROVE  /\ w \in Work /\ w.pc = "events" /\ w.at = v.at /\ w.states = v.states
           /\ w.durable = v.durable /\ w.then = then
<1>1. w \in Work
  BY PutPc, PutNeeds, PutThen, PutWhole DEF Require, Places
<1>2. QED
  BY <1>1 DEF Work, Require

LEMMA EndedIs ==
    ASSUME Typed, NEW t \in Threads, Step(t, Ended(t))
    PROVE  /\ Moved(t)
           /\ work'[t].pc = IF t = Reconciler THEN "idle" ELSE "done"
           /\ work'[t].at = IF t = Reconciler THEN None ELSE t
<1>1. PICK w : w = Ended(t)
  OBVIOUS
<1>2. w \in Work
  BY <1>1, IdleType, PutAt, PutPc DEF Ended, Threads, Places
<1>3. /\ w.pc = (IF t = Reconciler THEN "idle" ELSE "done")
      /\ w.at = IF t = Reconciler THEN None ELSE t
  BY <1>1, IdleIs, IdleType DEF Work, Ended
<1>4. QED
  BY <1>1, <1>2, <1>3, StepIs

LEMMA ReportIs ==
    ASSUME Typed, NEW t \in Threads, NEW next \in Places,
           Step(t, [work[t] EXCEPT !.pc = "report", !.then = next])
    PROVE  /\ Moved(t) /\ work'[t].pc = "report" /\ work'[t].at = work[t].at
           /\ work'[t].then = next
<1>1. PICK v \in Work : v = work[t]
  BY WorkIs
<1>2. PICK w : w = [v EXCEPT !.pc = "report", !.then = next]
  OBVIOUS
<1>3. w \in Work
  BY <1>2, PutPc, PutThen DEF Places
<1>4. w.pc = "report" /\ w.at = v.at /\ w.then = next
  BY <1>2 DEF Work
<1>5. QED
  BY <1>1, <1>2, <1>3, <1>4, StepIs

LEMMA FanIs ==
    ASSUME Typed, NEW t \in Threads, NEW c \in ChannelSet, NEW state \in ChannelStates,
           work[t].states # None,
           Step(t, [work[t] EXCEPT !.states[c] = state, !.todo = @ \ {c},
                                   !.pc = IF work[t].durable THEN "checkpoint" ELSE "fan"])
    PROVE  /\ Moved(t) /\ work'[t].pc \in {"checkpoint", "fan"}
           /\ work'[t].at = work[t].at /\ work'[t].durable = work[t].durable
           /\ work'[t].states = [work[t].states EXCEPT ![c] = state]
           /\ work'[t].states \in [ChannelSet -> ChannelStates]
<1>1. PICK v \in Work : v = work[t]
  BY WorkIs
<1>2. PICK p \in Places : p = IF v.durable THEN "checkpoint" ELSE "fan"
  BY DEF Places
<1>3. PICK s \in [ChannelSet -> ChannelStates] : s = [v.states EXCEPT ![c] = state]
  BY <1>1 DEF Work
<1>4. PICK rest \in SUBSET ChannelSet : rest = v.todo \ {c}
  BY <1>1 DEF Work
<1>5. PICK w : w = [v EXCEPT !.states = s, !.todo = rest, !.pc = p]
  OBVIOUS
<1>6. w \in Work
  BY <1>5, PutPc, PutTodo, PutStates
<1>7. w.pc = p /\ w.at = v.at /\ w.durable = v.durable /\ w.states = s
  BY <1>5 DEF Work
<1>8. Step(t, w)
  BY <1>1, <1>2, <1>3, <1>4, <1>5
<1>9. QED
  BY <1>1, <1>2, <1>3, <1>6, <1>7, <1>8, StepIs

LEMMA EmitIs ==
    ASSUME Typed, NEW t \in Threads, NEW e \in Events, NEW held \in BOOLEAN,
           Step(t, [work[t] EXCEPT !.pc = "emit", !.event = e, !.marked = held,
                                   !.needs = @ \ {e}])
    PROVE  /\ Moved(t) /\ work'[t].pc = "emit" /\ Carries(work[t], work'[t])
           /\ work'[t].event = e
<1>1. PICK v \in Work : v = work[t]
  BY WorkIs
<1>2. PICK rest \in SUBSET Events : rest = v.needs \ {e}
  BY <1>1 DEF Work
<1>3. PICK w : w = [v EXCEPT !.pc = "emit", !.event = e, !.marked = held, !.needs = rest]
  OBVIOUS
<1>4. w \in Work
  BY <1>3, PutPc, PutEvent, PutMarked, PutNeeds DEF Places
<1>5. w.pc = "emit" /\ w.event = e /\ Carries(v, w)
  BY <1>3 DEF Work, Carries
<1>6. Step(t, w)
  BY <1>1, <1>2, <1>3
<1>7. QED
  BY <1>1, <1>4, <1>5, <1>6, StepIs

LEMMA GoneOnIs ==
    ASSUME Typed, NEW t \in Threads, work[t].then \in Places,
           Step(t, [work[t] EXCEPT !.pc = work[t].then, !.then = "none", !.event = "none",
                                   !.marked = FALSE, !.clean = TRUE])
    PROVE  /\ Moved(t) /\ work'[t].pc = work[t].then /\ work'[t].at = work[t].at
           /\ work'[t].states = work[t].states /\ work'[t].durable = work[t].durable
<1>1. PICK v \in Work : v = work[t] /\ v.then \in Places
  BY WorkIs
<1>2. PICK w : w = [v EXCEPT !.pc = v.then, !.then = "none", !.event = "none",
                             !.marked = FALSE, !.clean = TRUE]
  OBVIOUS
<1>3. w \in Work
  BY <1>1, <1>2, PutPc, PutThen, PutEvent, PutWhole
<1>4. w.pc = v.then /\ w.at = v.at /\ w.states = v.states /\ w.durable = v.durable
  BY <1>2 DEF Work
<1>5. QED
  BY <1>1, <1>2, <1>3, <1>4, StepIs

LEMMA RefusedIs ==
    ASSUME Typed, NEW t \in Threads, NEW p \in Places,
           Step(t, [work[t] EXCEPT !.clean = FALSE, !.pc = p])
    PROVE  /\ Moved(t) /\ work'[t].pc = p /\ Carries(work[t], work'[t])
           /\ work'[t].event = work[t].event
<1>1. PICK v \in Work : v = work[t]
  BY WorkIs
<1>2. PICK w : w = [v EXCEPT !.clean = FALSE, !.pc = p]
  OBVIOUS
<1>3. [v EXCEPT !.clean = FALSE] \in Work
  BY DEF Work
<1>4. w \in Work
  BY <1>2, <1>3, PutPc
<1>5. w.pc = p /\ w.event = v.event /\ Carries(v, w)
  BY <1>2 DEF Work, Carries
<1>6. QED
  BY <1>1, <1>2, <1>4, <1>5, StepIs

LEMMA MarkedIs ==
    ASSUME Typed, NEW t \in Threads, Step(t, [work[t] EXCEPT !.pc = "tell", !.marked = TRUE])
    PROVE  /\ Moved(t) /\ work'[t].pc = "tell" /\ work'[t].at = work[t].at
           /\ work'[t].event = work[t].event
<1>1. PICK v \in Work : v = work[t]
  BY WorkIs
<1>2. PICK w : w = [v EXCEPT !.pc = "tell", !.marked = TRUE]
  OBVIOUS
<1>3. [v EXCEPT !.pc = "tell"] \in Work
  BY PutPc DEF Places
<1>4. w \in Work
  BY <1>2, <1>3, PutMarked
<1>5. w.pc = "tell" /\ w.at = v.at /\ w.event = v.event
  BY <1>2 DEF Work
<1>6. QED
  BY <1>1, <1>2, <1>4, <1>5, StepIs

LEMMA ReleasingIs ==
    ASSUME Typed, NEW t \in Threads,
           Step(t, [Require(work[t], {}, "release") EXCEPT !.pc = "resolve"])
    PROVE  /\ Moved(t) /\ work'[t].pc = "resolve" /\ work'[t].at = work[t].at
           /\ work'[t].then = "release" /\ work'[t].event = work[t].event
<1>1. PICK v \in Work : v = work[t]
  BY WorkIs
<1>2. PICK r : r = Require(v, {}, "release")
  OBVIOUS
<1>3. r \in Work /\ r.at = v.at /\ r.then = "release"
  BY <1>2, RequireIs DEF Places
<1>4. r.event = v.event
  BY <1>2 DEF Require, Work
<1>5. PICK w : w = [r EXCEPT !.pc = "resolve"]
  OBVIOUS
<1>6. w \in Work
  BY <1>3, <1>5, PutPc DEF Places
<1>7. w.pc = "resolve" /\ w.at = v.at /\ w.then = "release" /\ w.event = v.event
  BY <1>3, <1>4, <1>5 DEF Work
<1>8. QED
  BY <1>1, <1>2, <1>5, <1>6, <1>7, StepIs

-----------------------------------------------------------------------------
(***************************************************************************)
(* The steps of a thread, and what they may do to the stores.  Nothing     *)
(* that was ever taken, sent or archived is forgotten, and an event leaves *)
(* its outbox only for one of the other two.                               *)
(***************************************************************************)
OwnerActs(a) == Skip(a) \/ Submit(a) \/ Record(a) \/ Fails(a) \/ Build(a)

Reconciles == Read \/ Adopt \/ Restore \/ \E a \in Attempts : Scan(a) \/ ScanOrphan(a)

Acts(t) ==
    \/ t \in Attempts /\ OwnerActs(t)
    \/ t = Reconciler /\ Reconciles
    \/ Advance(t)

LEMMA NextIs ==
    ASSUME [Next]_vars
    PROVE  \/ \E t \in Threads : Acts(t)
           \/ ListOrphans \/ Drain \/ ProcessDies \/ UNCHANGED vars
<1>1. ASSUME NEW a \in Attempts, OwnerActs(a) \/ Advance(a)
      PROVE  \E t \in Threads : Acts(t)
  BY <1>1 DEF Acts, Threads
<1>2. ASSUME Reconciles \/ Advance(Reconciler)
      PROVE  \E t \in Threads : Acts(t)
  BY <1>2 DEF Acts, Threads
<1>3. QED
  BY <1>1, <1>2, Zenon DEF Next, OwnerActs, Reconciles, Reconcile, R

LEMMA InvIs ==
    ASSUME Inv, NEW t \in Threads
    PROVE  /\ Typed /\ work[t] \in Work /\ ThreadTrue(work[t])
           /\ Working(work[t]) => At(t) \in Attempts
           /\ t \in Attempts => At(t) = t /\ OwnerTrue(t, work[t]) /\ AdmissionTrue(t, work[t])
  BY WorkIs DEF Inv, ThreadTrue, OwnerTrue, At

Grow ==
    /\ \A a \in Attempts : built[a] # None => built'[a] = built[a]
    /\ taken \subseteq taken'
    /\ archived \subseteq archived'
    /\ sent \subseteq sent'
    /\ outbox \subseteq outbox' \cup sent \cup archived'

LEMMA GrowKeeps ==
    ASSUME Grow, NEW a \in Attempts
    PROVE  /\ Told(a) => Told(a)'
           /\ Handed(a) => Handed(a)'
           /\ \A s : Good(a, s) => Good(a, s)'
<1>1. Told(a) => Told(a)'
  BY DEF Grow, Told
<1>2. Handed(a) => Handed(a)'
  BY DEF Grow, Handed, Expected
<1>3. ASSUME NEW s, Good(a, s)
      PROVE  Good(a, s)'
  BY <1>3 DEF Grow, Good
<1>4. QED
  BY <1>1, <1>2, <1>3

LEMMA ActsGrow ==
    ASSUME Inv, NEW t \in Threads, Acts(t)
    PROVE  Grow
<1>1. CASE t \in Attempts /\ Skip(t)
  BY <1>1 DEF Grow, Skip, PC, Marks, Refused, outboxes, losses, Terminal, Fine, Fault
<1>2. CASE t \in Attempts /\ Submit(t)
  BY <1>2 DEF Grow, Submit, PC, files, outboxes, losses
<1>3. CASE t \in Attempts /\ Build(t)
  <2>1. built[t] = None
    BY <1>3, InvIs DEF Build, PC, AdmissionTrue, Preparing
  <2>2. \A a \in Attempts \ {t} : built'[a] = built[a]
    BY <1>3, InvIs DEF Build, Typed
  <2>3. QED
    BY <1>3, <2>1, <2>2 DEF Build, Grow, outboxes
<1>4. CASE t \in Attempts /\ Report(t)
  BY <1>4 DEF Grow, Report, PC, Takes, Fault, files, facts, losses, Fine
<1>5. CASE Enqueue(t)
  BY <1>5 DEF Grow, Enqueue, PC, At, Fine, Fault, files, facts, losses
<1>6. CASE Emit(t)
  BY <1>6 DEF Grow, Emit, PC, Takes, At, Fault, files, facts, losses, Fine
<1>7. CASE Tell(t)
  BY <1>7 DEF Grow, Tell, PC, Takes, At, Fault, files, facts, Fine
<1>8. CASE UNCHANGED <<facts, outboxes>>
  BY <1>8 DEF Grow, facts, outboxes
<1>9. QED
  BY <1>1, <1>2, <1>3, <1>4, <1>5, <1>6, <1>7, <1>8, ZenonT(60) DEF Acts, OwnerActs,
      Record, Reconciles, Advance, WriteIntent, WriteBundle, MarkBuilt, Fails, Read,
      Adopt, Restore, Scan, ScanOrphan, Checkpoint, FannedOut, NextEvent, EventsDone,
      Witness, Resolve, Settle, Complete, MarkFinal, DeleteBundle, DeleteIntent, Mark,
      Release, Undurably

LEMMA DrainGrows ==
    ASSUME NEW item \in outbox, Upload(item) \/ Acknowledged(item) \/ Rejected(item)
    PROVE  Grow
  BY DEF Upload, Acknowledged, Rejected, Grow, facts, Fault

LEMMA GrowStep ==
    ASSUME Inv, [Next]_vars
    PROVE  Grow
<1>1. ASSUME NEW t \in Threads, Acts(t)
      PROVE  Grow
  BY <1>1, ActsGrow
<1>2. CASE Drain
  BY <1>2, DrainGrows DEF Drain
<1>3. CASE ListOrphans \/ ProcessDies \/ UNCHANGED vars
  BY <1>3 DEF ListOrphans, ProcessDies, vars, facts, outboxes, Grow
<1>4. QED
  BY <1>1, <1>2, <1>3, NextIs

-----------------------------------------------------------------------------
(***************************************************************************)
(* The file of an attempt.  A step that writes it keeps what it says true  *)
(* and its events, or finds them elsewhere; a step that removes it has     *)
(* seen that nothing is pending and the outcome can be seen.               *)
(***************************************************************************)
Kept(a) ==
    \/ /\ intent'[a] = None
       /\ intent[a] # None => intent[a].pending = {} /\ (Handed(a) \/ Told(a))
    \/ /\ intent'[a] # None /\ Says(a, intent[a])'
       /\ intent[a] # None =>
            \A e \in intent[a].pending :
                e \in intent'[a].pending \/ <<a, e>> \in outbox \cup sent \cup archived \cup replaced'

OthersKeptAs(a) == \A b \in Attempts \ {a} : intent'[b] = intent[b]

FileMoves(a) ==
    /\ intent' \in [Attempts -> Intents \cup {None}]
    /\ OthersKeptAs(a)
    /\ Kept(a)

LEMMA FileIs ==
    ASSUME Inv, NEW a \in Attempts, intent[a] # None
    PROVE  intent[a] \in Intents /\ Says(a, intent[a])
  BY DEF Inv, Typed, FileTrue

LEMMA SaysStays ==
    ASSUME Grow, NEW a \in Attempts, NEW f \in Intents, Says(a, f)
    PROVE  Says(a, f)'
  BY GrowKeeps DEF Says

LEMMA SameFile ==
    ASSUME Inv, Grow, NEW a \in Attempts, intent'[a] = intent[a]
    PROVE  Kept(a)
<1>1. CASE intent[a] = None
  BY <1>1 DEF Kept
<1>2. CASE intent[a] # None
  <2>1. PICK f \in Intents : f = intent[a]
    BY <1>2, FileIs
  <2>2. Says(a, f)'
    BY <1>2, <2>1, FileIs, SaysStays
  <2>3. intent'[a] = f
    BY <2>1
  <2>4. Says(a, intent[a])'
    BY <2>2, <2>3 DEF Says
  <2>5. QED
    BY <1>2, <2>4 DEF Kept
<1>3. QED
  BY <1>1, <1>2

LEMMA Written ==
    ASSUME Inv, NEW a \in Attempts, NEW f \in Intents, intent' = [intent EXCEPT ![a] = f],
           Says(a, f)',
           intent[a] # None =>
             \A e \in intent[a].pending :
                e \in f.pending \/ <<a, e>> \in outbox \cup sent \cup archived \cup replaced'
    PROVE  FileMoves(a)
<1>1. intent \in [Attempts -> Intents \cup {None}]
  BY DEF Inv, Typed
<1>2. /\ intent' \in [Attempts -> Intents \cup {None}] /\ OthersKeptAs(a)
      /\ intent'[a] = f
  BY <1>1 DEF OthersKeptAs
<1>3. Says(a, intent[a])' /\ f # None
  BY <1>2, ConstantsAre DEF Says
<1>4. QED
  BY <1>2, <1>3 DEF FileMoves, Kept

LEMMA Removed ==
    ASSUME Inv, NEW a \in Attempts, intent' = [intent EXCEPT ![a] = None],
           intent[a] # None => intent[a].pending = {} /\ (Handed(a) \/ Told(a))
    PROVE  FileMoves(a)
<1>1. intent \in [Attempts -> Intents \cup {None}]
  BY DEF Inv, Typed
<1>2. /\ intent' \in [Attempts -> Intents \cup {None}] /\ OthersKeptAs(a)
      /\ intent'[a] = None
  BY <1>1 DEF OthersKeptAs
<1>3. QED
  BY <1>2 DEF FileMoves, Kept

\* An event joins the file (addPendingEvent, markTerminal).
LEMMA AddIs ==
    ASSUME NEW f \in Intents, NEW e \in Events, NEW g,
           g = [f EXCEPT !.pending = @ \cup {e}]
    PROVE  /\ g \in Intents /\ g.stage = f.stage /\ g.channels = f.channels
           /\ g.pending = f.pending \cup {e}
  BY DEF Intents

LEMMA Adds ==
    ASSUME Inv, Grow, NEW a \in Attempts, NEW e \in Events, intent[a] # None,
           intent' = [intent EXCEPT ![a] = [intent[a] EXCEPT !.pending = @ \cup {e}]]
    PROVE  FileMoves(a)
<1>1. PICK f \in Intents : f = intent[a] /\ Says(a, f)
  BY FileIs
<1>2. PICK g : g = [f EXCEPT !.pending = @ \cup {e}]
  OBVIOUS
<1>3. /\ g \in Intents /\ g.stage = f.stage /\ g.channels = f.channels
      /\ g.pending = f.pending \cup {e}
  BY <1>2, AddIs
<1>4. Says(a, f)'
  BY <1>1, SaysStays
<1>5. Says(a, g)'
  BY <1>3, <1>4 DEF Says
<1>6. intent' = [intent EXCEPT ![a] = g]
  BY <1>1, <1>2
<1>7. QED
  BY <1>1, <1>3, <1>5, <1>6, Written

LEMMA TerminalIs ==
    ASSUME NEW a \in Attempts, NEW e \in Events, intent[a] \in Intents \cup {None},
           NEW g, g = Terminal(a, e)
    PROVE  /\ g \in Intents /\ g.stage = "TERMINAL" /\ e \in g.pending
           /\ intent[a] = None => g.channels = None
           /\ intent[a] # None =>
                g.channels = intent[a].channels /\ intent[a].pending \subseteq g.pending
<1>1. CASE intent[a] = None
  BY <1>1 DEF Terminal, Intents
<1>2. CASE intent[a] # None
  <2>1. PICK f \in Intents : f = intent[a]
    BY <1>2
  <2>2. PICK h : h = [f EXCEPT !.stage = "TERMINAL"]
    OBVIOUS
  <2>3. /\ h \in Intents /\ h.stage = "TERMINAL" /\ h.channels = f.channels
        /\ h.pending = f.pending
    BY <2>2 DEF Intents
  <2>4. g = [h EXCEPT !.pending = @ \cup {e}]
    BY <1>2, <2>1, <2>2, <2>3 DEF Terminal
  <2>5. QED
    BY <1>2, <2>1, <2>3, <2>4, AddIs
<1>3. QED
  BY <1>1, <1>2

LEMMA MarksMoves ==
    ASSUME Inv, Grow, NEW a \in Attempts, NEW e \in Events, Marks(a, e)
    PROVE  FileMoves(a) /\ intent'[a] # None
<1>1. intent[a] \in Intents \cup {None} /\ intent \in [Attempts -> Intents \cup {None}]
  BY DEF Inv, Typed
<1>2. PICK g : g = Terminal(a, e)
  OBVIOUS
<1>3. /\ g \in Intents /\ g.stage = "TERMINAL" /\ e \in g.pending
      /\ intent[a] = None => g.channels = None
      /\ intent[a] # None =>
           g.channels = intent[a].channels /\ intent[a].pending \subseteq g.pending
  BY <1>1, <1>2, TerminalIs
<1>4. Says(a, g)'
  <2>1. CASE intent[a] = None
    BY <1>3, <2>1 DEF Says
  <2>2. CASE intent[a] # None
    <3>1. PICK f \in Intents : f = intent[a] /\ Says(a, f)
      BY <2>2, FileIs
    <3>2. Says(a, f)' /\ g.channels = f.channels
      BY <1>3, <2>2, <3>1, SaysStays
    <3>3. QED
      BY <1>3, <3>2 DEF Says
  <2>3. QED
    BY <2>1, <2>2
<1>5. intent' = [intent EXCEPT ![a] = g]
  BY <1>2 DEF Marks
<1>6. intent'[a] = g /\ g # None
  BY <1>1, <1>3, <1>5, ConstantsAre
<1>7. QED
  BY <1>3, <1>4, <1>5, <1>6, Written

\* An event leaves the file when the outbox has had it (resolvePendingEvent).
LEMMA Drops ==
    ASSUME Inv, Grow, NEW a \in Attempts, NEW e \in Events, intent[a] # None,
           <<a, e>> \in outbox \cup sent \cup archived,
           intent' = [intent EXCEPT ![a] = [intent[a] EXCEPT !.pending = @ \ {e}]]
    PROVE  FileMoves(a)
<1>1. PICK f \in Intents : f = intent[a] /\ Says(a, f)
  BY FileIs
<1>2. PICK g : g = [f EXCEPT !.pending = @ \ {e}]
  OBVIOUS
<1>3. /\ g \in Intents /\ g.stage = f.stage /\ g.channels = f.channels
      /\ g.pending = f.pending \ {e}
  BY <1>2 DEF Intents
<1>4. Says(a, f)' /\ Told(a)'
  BY <1>1, SaysStays, GrowKeeps DEF Told
<1>5. Says(a, g)'
  BY <1>3, <1>4 DEF Says
<1>6. intent' = [intent EXCEPT ![a] = g]
  BY <1>1, <1>2
<1>7. QED
  BY <1>1, <1>3, <1>5, <1>6, Written

\* The file takes the channels: what build expected of them, or what became of them.
LEMMA BuiltIsGood ==
    ASSUME Inv, NEW a \in Attempts, built[a] # None
    PROVE  /\ Good(a, built[a]) /\ built[a] \in [ChannelSet -> ChannelStates]
           /\ built[a] # None
  BY ConstantsAre DEF Inv, Typed, Good

LEMMA Builds ==
    ASSUME Inv, Grow, NEW a \in Attempts, built[a] # None, intent[a] # None,
           intent' = [intent EXCEPT ![a] = [intent[a] EXCEPT !.stage = "BUILT",
                                                             !.channels = built[a]]]
    PROVE  FileMoves(a)
<1>1. PICK f \in Intents : f = intent[a] /\ Says(a, f)
  BY FileIs
<1>2. PICK s \in [ChannelSet -> ChannelStates] : s = built[a] /\ Good(a, s) /\ s # None
  BY BuiltIsGood
<1>3. PICK h : h = [f EXCEPT !.stage = "BUILT"]
  OBVIOUS
<1>4. h \in Intents /\ h.stage = "BUILT" /\ h.pending = f.pending
  BY <1>3 DEF Intents
<1>5. PICK g : g = [h EXCEPT !.channels = s]
  OBVIOUS
<1>6. g \in Intents /\ g.stage = "BUILT" /\ g.channels = s /\ g.pending = f.pending
  BY <1>4, <1>5 DEF Intents
<1>7. Good(a, s)'
  BY <1>2, GrowKeeps
<1>8. Says(a, g)'
  BY <1>2, <1>6, <1>7 DEF Says
<1>9. intent' = [intent EXCEPT ![a] = g]
  BY <1>1, <1>2, <1>3, <1>5
<1>10. QED
  BY <1>1, <1>6, <1>8, <1>9, Written

LEMMA Checks ==
    ASSUME Inv, Grow, NEW a \in Attempts, NEW s \in [ChannelSet -> ChannelStates], Good(a, s),
           intent[a] # None, intent' = [intent EXCEPT ![a] = [intent[a] EXCEPT !.channels = s]]
    PROVE  FileMoves(a)
<1>1. PICK f \in Intents : f = intent[a] /\ Says(a, f)
  BY FileIs
<1>2. PICK g : g = [f EXCEPT !.channels = s]
  OBVIOUS
<1>3. /\ g \in Intents /\ g.stage = f.stage /\ g.channels = s /\ g.pending = f.pending
      /\ s # None
  BY <1>2, ConstantsAre DEF Intents
<1>4. Good(a, s)' /\ Says(a, f)'
  BY <1>1, GrowKeeps, SaysStays
<1>5. Says(a, g)'
  BY <1>3, <1>4 DEF Says
<1>6. intent' = [intent EXCEPT ![a] = g]
  BY <1>1, <1>2
<1>7. QED
  BY <1>1, <1>3, <1>5, <1>6, Written

LEMMA Finals ==
    ASSUME Inv, Grow, NEW a \in Attempts, intent[a] # None, intent[a].pending = {}, Handed(a),
           intent' = [intent EXCEPT ![a] = [intent[a] EXCEPT !.stage = "FINAL"]]
    PROVE  FileMoves(a) /\ intent'[a].pending = {}
<1>1. PICK f \in Intents : f = intent[a] /\ Says(a, f) /\ f.pending = {}
  BY FileIs
<1>2. PICK g : g = [f EXCEPT !.stage = "FINAL"]
  OBVIOUS
<1>3. /\ g \in Intents /\ g.stage = "FINAL" /\ g.channels = f.channels
      /\ g.pending = {}
  BY <1>1, <1>2 DEF Intents
<1>4. Handed(a)' /\ Says(a, f)'
  BY <1>1, GrowKeeps, SaysStays
<1>5. Says(a, g)'
  BY <1>3, <1>4 DEF Says
<1>6. intent' = [intent EXCEPT ![a] = g] /\ intent \in [Attempts -> Intents \cup {None}]
  BY <1>1, <1>2 DEF Inv, Typed
<1>7. intent'[a] = g
  BY <1>6
<1>8. FileMoves(a)
  BY <1>1, <1>3, <1>5, <1>6, Written
<1>9. QED
  BY <1>3, <1>7, <1>8

LEMMA Creates ==
    ASSUME Inv, Grow, NEW a \in Attempts, intent[a] = None,
           intent' = [intent EXCEPT ![a] = [stage |-> "INTENT", channels |-> None, pending |-> {}]]
    PROVE  FileMoves(a)
<1>1. PICK g : g = [stage |-> "INTENT", channels |-> None, pending |-> {}]
  OBVIOUS
<1>2. g \in Intents /\ g.stage = "INTENT" /\ g.channels = None
  BY <1>1 DEF Intents
<1>3. Says(a, g)'
  BY <1>2 DEF Says
<1>4. QED
  BY <1>1, <1>2, <1>3, Written

LEMMA Restores ==
    ASSUME Inv, Grow, NEW a \in Attempts, built[a] # None,
           intent' = [intent EXCEPT ![a] = [stage |-> "BUILT", channels |-> built[a],
                                            pending |-> {}]],
           intent[a] # None => \A e \in intent[a].pending : <<a, e>> \in replaced'
    PROVE  FileMoves(a)
<1>1. PICK s \in [ChannelSet -> ChannelStates] : s = built[a] /\ Good(a, s) /\ s # None
  BY BuiltIsGood
<1>2. PICK g : g = [stage |-> "BUILT", channels |-> s, pending |-> {}]
  OBVIOUS
<1>3. g \in Intents /\ g.stage = "BUILT" /\ g.channels = s
  BY <1>2 DEF Intents
<1>4. Good(a, s)'
  BY <1>1, GrowKeeps
<1>5. Says(a, g)'
  BY <1>1, <1>3, <1>4 DEF Says
<1>6. intent' = [intent EXCEPT ![a] = g]
  BY <1>1, <1>2
<1>7. QED
  BY <1>3, <1>5, <1>6, Written

FileStep(t) == UNCHANGED intent \/ (At(t) \in Attempts /\ FileMoves(At(t)))

LEMMA FilesKept ==
    ASSUME Inv, Grow, NEW t \in Threads, Acts(t)
    PROVE  FileStep(t)
<1>1. CASE t \in Attempts /\ Skip(t)
  <2>1. At(t) = t /\ t \in Attempts
    BY <1>1, InvIs
  <2>2. QED
    BY <1>1, <2>1, MarksMoves DEF Skip, Refused, Events, FileStep
<1>2. CASE t \in Attempts /\ WriteIntent(t)
  <2>1. At(t) = t /\ t \in Attempts /\ intent[t] = None
    BY <1>2, InvIs DEF WriteIntent, PC, AdmissionTrue
  <2>2. QED
    BY <1>2, <2>1, Creates DEF WriteIntent, Refused, FileStep
<1>3. CASE t \in Attempts /\ MarkBuilt(t)
  <2>1. At(t) = t /\ t \in Attempts /\ built[t] # None
    BY <1>3, InvIs DEF MarkBuilt, PC, AdmissionTrue, Storing
  <2>2. QED
    BY <1>3, <2>1, Builds DEF MarkBuilt, Refused, Absent, Rewrites, FileStep
<1>4. CASE Checkpoint(t)
  <2>1. At(t) \in Attempts /\ ThreadTrue(work[t]) /\ work[t].pc = "checkpoint"
    BY <1>4, InvIs DEF Checkpoint, PC, Working
  <2>2. work[t].states \in [ChannelSet -> ChannelStates] /\ Good(At(t), work[t].states)
    BY <2>1, InvIs DEF Work, ThreadTrue, Fanning, At
  <2>3. QED
    BY <1>4, <2>1, <2>2, Checks DEF Checkpoint, Refused, Absent, Rewrites, FileStep
<1>5. CASE NextEvent(t)
  <2>1. At(t) \in Attempts /\ ThreadTrue(work[t]) /\ work[t].pc = "events"
    BY <1>5, InvIs DEF NextEvent, PC, Working
  <2>2. work[t].needs \subseteq Events
    BY InvIs DEF Work
  <2>3. QED
    BY <1>5, <2>1, <2>2, Adds DEF NextEvent, Refused, Absent, Rewrites, FileStep
<1>6. CASE Witness(t)
  <2>1. At(t) \in Attempts /\ ThreadTrue(work[t]) /\ work[t].pc = "witness"
    BY <1>6, InvIs DEF Witness, PC, Working
  <2>2. work[t].event \in Events
    BY <2>1 DEF ThreadTrue
  <2>3. QED
    BY <1>6, <2>1, <2>2, MarksMoves DEF Witness, Refused, FileStep
<1>7. CASE Resolve(t)
  <2>1. At(t) \in Attempts /\ ThreadTrue(work[t]) /\ work[t].pc = "resolve"
    BY <1>7, InvIs DEF Resolve, PC, Working
  <2>2. work[t].event \in Events /\ <<At(t), work[t].event>> \in outbox \cup sent \cup archived
    BY <2>1 DEF ThreadTrue, At
  <2>3. QED
    BY <1>7, <2>1, <2>2, Drops DEF Resolve, Refused, Absent, Rewrites, FileStep
<1>8. CASE MarkFinal(t)
  <2>1. At(t) \in Attempts /\ ThreadTrue(work[t]) /\ work[t].pc = "final"
    BY <1>8, InvIs DEF MarkFinal, PC, Working
  <2>2. Handed(At(t))
    BY <2>1 DEF ThreadTrue, Closing, At
  <2>3. QED
    BY <1>8, <2>1, <2>2, Finals DEF MarkFinal, Refused, Rewrites, FileStep
<1>9. CASE DeleteIntent(t)
  <2>1. At(t) \in Attempts /\ ThreadTrue(work[t]) /\ work[t].pc = "unlink"
    BY <1>9, InvIs DEF DeleteIntent, PC, Working
  <2>2. Handed(At(t)) /\ (intent[At(t)] # None => intent[At(t)].pending = {})
    BY <2>1 DEF ThreadTrue, Closing, At
  <2>3. QED
    BY <1>9, <2>1, <2>2, Removed DEF DeleteIntent, Refused, FileStep
<1>10. CASE Mark(t)
  <2>1. At(t) \in Attempts /\ ThreadTrue(work[t]) /\ work[t].pc = "mark"
    BY <1>10, InvIs DEF Mark, PC, Working
  <2>2. work[t].event \in Events
    BY <2>1 DEF ThreadTrue
  <2>3. QED
    BY <1>10, <2>1, <2>2, MarksMoves DEF Mark, Refused, FileStep
<1>11. CASE Release(t)
  <2>1. At(t) \in Attempts /\ ThreadTrue(work[t]) /\ work[t].pc = "release"
    BY <1>11, InvIs DEF Release, PC, Working
  <2>2. Releasable(intent[At(t)]) => Told(At(t)) /\ intent[At(t)].pending = {}
    BY <2>1, FileIs DEF Releasable, Says
  <2>3. QED
    BY <1>11, <2>1, <2>2, Removed DEF Release, Refused, FileStep
<1>12. CASE t = Reconciler /\ Adopt
  <2>1. At(t) \in Attempts /\ built[At(t)] # None /\ At(R) = At(t)
    BY <1>12, InvIs DEF Adopt, PC, Working, ThreadTrue, At, R
  <2>2. QED
    BY <1>12, <2>1, Builds DEF Adopt, Refused, Rewrites, FileStep
<1>13. CASE t = Reconciler /\ Restore
  <2>1. At(t) \in Attempts /\ built[At(t)] # None /\ At(R) = At(t)
    BY <1>13, InvIs DEF Restore, PC, Working, ThreadTrue, At, R
  <2>2. intent[At(t)] # None /\ intent' # intent =>
          \A e \in intent[At(t)].pending : <<At(t), e>> \in replaced'
    BY <1>13, <2>1 DEF Restore, Refused
  <2>3. QED
    BY <1>13, <2>1, <2>2, Restores DEF Restore, Refused, FileStep
<1>14. CASE UNCHANGED intent
  BY <1>14 DEF FileStep
<1>15. CASE UNCHANGED files
  BY <1>15 DEF FileStep, files
<1>16. QED
  BY <1>1, <1>2, <1>3, <1>4, <1>5, <1>6, <1>7, <1>8, <1>9, <1>10, <1>11, <1>12, <1>13,
      <1>14, <1>15, ZenonT(60) DEF Acts, OwnerActs, Record, Reconciles, Advance,
      Submit, Report, WriteBundle, Fails, Build, Read, Scan, ScanOrphan, Enqueue,
      FannedOut, EventsDone, Emit, Settle, Complete, DeleteBundle, Tell

LEMMA FilesAre ==
    ASSUME Inv, Grow, NEW t \in Threads, FileStep(t)
    PROVE  /\ intent' \in [Attempts -> Intents \cup {None}]
           /\ \A a \in Attempts : Kept(a) /\ (a # At(t) => intent'[a] = intent[a])
<1>1. intent \in [Attempts -> Intents \cup {None}]
  BY DEF Inv, Typed
<1>2. CASE UNCHANGED intent
  BY <1>1, <1>2, SameFile
<1>3. CASE At(t) \in Attempts /\ FileMoves(At(t))
  BY <1>3, SameFile DEF FileMoves, OthersKeptAs
<1>4. QED
  BY <1>2, <1>3 DEF FileStep

-----------------------------------------------------------------------------
(***************************************************************************)
(* Bundles, completed keys and what can be seen of an outcome.             *)
(***************************************************************************)
BundleStep(t) ==
    /\ bundle' \subseteq Attempts
    /\ \A a \in Attempts :
        /\ a # At(t) => (a \in bundle' <=> a \in bundle)
        /\ a \in bundle' => built'[a] # None
        /\ a \in bundle /\ a \notin bundle' => Handed(a)

CompletedStep ==
    /\ completed' \subseteq Attempts
    /\ \A a \in completed' : Handed(a)'

EvidentStep == \A a \in Attempts : Evident(a) => Evident(a)'

LEMMA BundleSame ==
    ASSUME Inv, Grow, NEW t \in Threads, UNCHANGED bundle
    PROVE  BundleStep(t)
  BY DEF Inv, Typed, FileTrue, Grow, BundleStep

LEMMA CompletedSame ==
    ASSUME Inv, Grow, UNCHANGED completed
    PROVE  CompletedStep
  BY GrowKeeps DEF Inv, Typed, FileTrue, CompletedStep

\* A thread whose channels are settled has handed every byte over.
LEMMA GoodIsHanded ==
    ASSUME NEW a \in Attempts, NEW s \in [ChannelSet -> ChannelStates], Good(a, s),
           \A c \in ChannelSet : s[c] \in Settled
    PROVE  Handed(a)
  BY DEF Good, Settled, Handed, Expected

LEMMA SettledIsHanded ==
    ASSUME Inv, NEW t \in Threads, PC(t) = "settle",
           \A c \in ChannelSet : work[t].states[c] \in Settled
    PROVE  Handed(At(t))
  BY InvIs, GoodIsHanded DEF PC, At, Work, Working, ThreadTrue, Fanning

LEMMA BundlesKept ==
    ASSUME Inv, Grow, NEW t \in Threads, Acts(t)
    PROVE  BundleStep(t)
<1>1. CASE t \in Attempts /\ WriteBundle(t)
  <2>1. At(t) = t /\ t \in Attempts /\ built[t] # None
    BY <1>1, InvIs DEF WriteBundle, PC, AdmissionTrue, Storing
  <2>2. CASE bundle' = bundle \cup {t}
    BY <2>1, <2>2 DEF Inv, Typed, FileTrue, Grow, BundleStep
  <2>3. QED
    BY <1>1, <2>2, BundleSame DEF WriteBundle
<1>2. CASE DeleteBundle(t)
  <2>1. Handed(At(t))
    BY <1>2, InvIs DEF DeleteBundle, PC, ThreadTrue, Closing, At
  <2>2. CASE bundle' = bundle \ {At(t)}
    BY <2>1, <2>2 DEF Inv, Typed, FileTrue, Grow, BundleStep
  <2>3. QED
    BY <1>2, <2>2, BundleSame DEF DeleteBundle
<1>3. CASE UNCHANGED bundle
  BY <1>3, BundleSame
<1>4. CASE UNCHANGED files
  BY <1>4, BundleSame DEF files
<1>5. QED
  BY <1>1, <1>2, <1>3, <1>4, ZenonT(60) DEF Acts, OwnerActs, Record, Reconciles,
      Advance, Skip, Submit, WriteIntent, Report, MarkBuilt, Fails, Build, Read,
      Adopt, Restore, Scan, ScanOrphan, Enqueue, Checkpoint, FannedOut, NextEvent,
      EventsDone, Emit, Witness, Resolve, Settle, Complete, MarkFinal, DeleteIntent,
      Mark, Tell, Release

LEMMA CompletedKept ==
    ASSUME Inv, Grow, NEW t \in Threads, Acts(t)
    PROVE  CompletedStep
<1>1. CASE Settle(t)
  <2>1. At(t) \in Attempts
    BY <1>1, InvIs DEF Settle, PC, Working
  <2>2. CASE completed' = completed \cup {At(t)} /\ \A c \in ChannelSet : work[t].states[c] \in Settled
    <3>1. Handed(At(t))
      BY <1>1, <2>2, SettledIsHanded DEF Settle
    <3>2. \A a \in completed' : a \in Attempts /\ Handed(a)
      BY <2>1, <2>2, <3>1 DEF Inv, Typed, FileTrue
    <3>3. QED
      BY <3>2, GrowKeeps DEF CompletedStep
  <2>3. QED
    BY <1>1, <2>2, CompletedSame DEF Settle
<1>2. CASE Complete(t)
  <2>1. At(t) \in Attempts /\ Handed(At(t))
    BY <1>2, InvIs DEF Complete, PC, Working, ThreadTrue, Closing, At
  <2>2. CASE completed' = completed \cup {At(t)}
    <3>1. \A a \in completed' : a \in Attempts /\ Handed(a)
      BY <2>1, <2>2 DEF Inv, Typed, FileTrue
    <3>2. QED
      BY <3>1, GrowKeeps DEF CompletedStep
  <2>3. QED
    BY <1>2, <2>2, CompletedSame DEF Complete
<1>3. CASE UNCHANGED completed
  BY <1>3, CompletedSame
<1>4. CASE UNCHANGED files
  BY <1>4, CompletedSame DEF files
<1>5. QED
  BY <1>1, <1>2, <1>3, <1>4, ZenonT(60) DEF Acts, OwnerActs, Record, Reconciles,
      Advance, Skip, Submit, WriteIntent, Report, WriteBundle, MarkBuilt, Fails,
      Build, Read, Adopt, Restore, Scan, ScanOrphan, Enqueue, Checkpoint, FannedOut,
      NextEvent, EventsDone, Emit, Witness, Resolve, MarkFinal, DeleteBundle,
      DeleteIntent, Mark, Tell, Release

LEMMA EvidentKept ==
    ASSUME Inv, Grow, NEW a \in Attempts, Kept(a), Evident(a),
           a \in bundle /\ a \notin bundle' => Handed(a)
    PROVE  Evident(a)'
<1>1. CASE intent'[a] # None
  BY <1>1 DEF Evident
<1>2. CASE intent'[a] = None /\ intent[a] # None
  BY <1>2, GrowKeeps DEF Evident, Kept
<1>3. CASE intent'[a] = None /\ intent[a] = None
  BY <1>3, GrowKeeps DEF Evident
<1>4. QED
  BY <1>1, <1>2, <1>3

LEMMA ActsEvident ==
    ASSUME Inv, Grow, NEW t \in Threads, FileStep(t), BundleStep(t)
    PROVE  EvidentStep
  BY FilesAre, EvidentKept DEF BundleStep, EvidentStep

-----------------------------------------------------------------------------
(***************************************************************************)
(* The thread that acts keeps its part of the invariant, whichever of the  *)
(* steps of the code it takes.                                             *)
(***************************************************************************)
LiveStep(t) ==
    /\ live' \subseteq Attempts
    /\ \A a \in Attempts \ {t} : a \in live' <=> a \in live

LEMMA LiveKept ==
    ASSUME Inv, NEW t \in Threads, Acts(t)
    PROVE  LiveStep(t)
<1>1. CASE t \in Attempts /\ Submit(t)
  BY <1>1 DEF Submit, Onward, Finish, LiveStep, Inv, Typed
<1>2. CASE EventsDone(t)
  BY <1>2 DEF EventsDone, Onward, Finish, LiveStep, Inv, Typed
<1>3. CASE Settle(t)
  BY <1>3 DEF Settle, Onward, Finish, LiveStep, Inv, Typed
<1>4. CASE MarkFinal(t)
  BY <1>4 DEF MarkFinal, Onward, Finish, LiveStep, Inv, Typed
<1>5. CASE DeleteBundle(t)
  BY <1>5 DEF DeleteBundle, Onward, Finish, LiveStep, Inv, Typed
<1>6. CASE DeleteIntent(t)
  BY <1>6 DEF DeleteIntent, Onward, Finish, LiveStep, Inv, Typed
<1>7. CASE Tell(t)
  BY <1>7 DEF Tell, Onward, Finish, LiveStep, Inv, Typed
<1>8. CASE Release(t)
  BY <1>8 DEF Release, Onward, Finish, LiveStep, Inv, Typed
<1>9. CASE UNCHANGED live
  BY <1>9 DEF Inv, Typed, LiveStep
<1>10. QED
  BY <1>1, <1>2, <1>3, <1>4, <1>5, <1>6, <1>7, <1>8, <1>9, ZenonT(60) DEF Acts,
      OwnerActs, Record, Reconciles, Advance, Skip, WriteIntent, Report, WriteBundle,
      MarkBuilt, Fails, Build, Read, Adopt, Restore, Scan, ScanOrphan, Enqueue,
      Checkpoint, FannedOut, NextEvent, Emit, Witness, Resolve, Complete, Mark,
      Onward, Undurably

\* Where reconciliation turns to, nobody is at work.
Free(a) == a \notin live /\ PC(a) # "idle"

Fits(t) ==
    /\ Moved(t)
    /\ ThreadTrue(work[t])'
    /\ t \in Attempts =>
        /\ OwnerTrue(t, work[t])' /\ AdmissionTrue(t, work[t])'
        /\ PC(t)' = "done" => Evident(t)' \/ t \in undurable'
    /\ t = Reconciler =>
        At(t)' \in {At(t), None} \cup {a \in Attempts : Free(a)}

\* Steps of both threads that are neither the first of an owner nor the last.
Common ==
    {"fan", "checkpoint", "settle", "events", "emit", "witness", "resolve", "complete", "final",
     "unbundle", "unlink", "mark", "tell", "release"}

LEMMA ReconcilerApart ==
    ASSUME NEW t \in Threads, Moved(t)
    PROVE  /\ Reconciler \in Threads
           /\ t \in Attempts => t # Reconciler /\ work'[Reconciler] = work[Reconciler]
           /\ t \notin Attempts => t = Reconciler
  BY ConstantsAre DEF Threads, Moved

LEMMA Ends ==
    ASSUME Inv, NEW t \in Threads, Finish(t),
           t \in Attempts => Evident(t)' \/ t \in undurable'
    PROVE  Fits(t)
<1>1. /\ Moved(t)
      /\ work'[t].pc = IF t = Reconciler THEN "idle" ELSE "done"
      /\ work'[t].at = IF t = Reconciler THEN None ELSE t
  BY InvIs, EndedIs DEF Finish
<1>2. ThreadTrue(work[t])'
  BY <1>1 DEF ThreadTrue, Working, Eventing, Fanning, Closing
<1>3. t \in Attempts => t # Reconciler /\ t \notin live'
  BY <1>1, ReconcilerApart DEF Finish
<1>4. t \in Attempts => OwnerTrue(t, work[t])' /\ AdmissionTrue(t, work[t])'
  BY <1>1, <1>3 DEF OwnerTrue, AdmissionTrue, Releasing, Fanning, Eventing, Working, Preparing,
      Storing
<1>5. t = Reconciler => At(t)' = None
  BY <1>1 DEF At
<1>6. QED
  BY <1>1, <1>2, <1>4, <1>5 DEF Fits

LEMMA Goes ==
    ASSUME Inv, NEW t \in Threads, Moved(t), UNCHANGED <<live, built>>,
           Working(work[t]), work'[t].at = At(t), work'[t].pc \in Common,
           ThreadTrue(work[t])',
           t \in Attempts /\ Releasing(work[t])' => Evident(t)',
           t \in Attempts /\ Fanning(work[t])' /\ work'[t].durable => t \in bundle'
    PROVE  Fits(t)
<1>1. t \in Attempts => OwnerTrue(t, work[t])'
  BY InvIs DEF OwnerTrue, Common, Fanning, Releasing, Eventing
<1>2. ASSUME t \in Attempts
      PROVE  AdmissionTrue(t, work[t])'
  <2>1. AdmissionTrue(t, work[t]) /\ At(Reconciler)' = At(Reconciler)
    BY <1>2, InvIs, ReconcilerApart DEF At
  <2>2. QED
    BY <1>2, <2>1 DEF AdmissionTrue, Common, Working, Preparing, Storing
<1>3. QED
  BY <1>1, <1>2 DEF Fits, Common, PC, At

LEMMA FanGoes ==
    ASSUME Inv, NEW t \in Threads, Moved(t), UNCHANGED <<live, built>>,
           Working(work[t]), At(t) \in Attempts, work'[t].at = At(t),
           \/ work'[t].pc \in {"fan", "checkpoint", "settle"}
           \/ work'[t].pc = "events" /\ work'[t].then \in {"fan", "settle"},
           work'[t].states # None, Good(work[t].at, work[t].states)',
           t \in Attempts /\ work'[t].durable => t \in bundle'
    PROVE  Fits(t)
<1>1. ThreadTrue(work[t])'
  BY DEF ThreadTrue, Working, Eventing, Fanning, Closing
<1>2. work'[t].pc \in Common /\ ~Releasing(work[t])'
  BY DEF Common, Releasing, Eventing
<1>3. QED
  BY <1>1, <1>2, Goes

LEMMA CloseGoes ==
    ASSUME Inv, NEW t \in Threads, Moved(t), UNCHANGED <<live, built>>,
           Working(work[t]), At(t) \in Attempts, work'[t].at = At(t),
           \/ work'[t].pc \in {"complete", "final", "unbundle", "unlink"}
           \/ work'[t].pc = "events" /\ work'[t].then \in {"complete", "final"},
           Handed(At(t))',
           work'[t].pc \in {"unbundle", "unlink"} /\ intent'[At(t)] # None =>
               intent'[At(t)].pending = {}
    PROVE  Fits(t)
<1>1. Handed(work[t].at)'
  BY DEF At
<1>2. ThreadTrue(work[t])'
  BY <1>1 DEF ThreadTrue, Working, Eventing, Fanning, Closing
<1>3. work'[t].pc \in Common /\ ~Releasing(work[t])' /\ ~Fanning(work[t])'
  BY DEF Common, Releasing, Fanning, Eventing
<1>4. QED
  BY <1>2, <1>3, Goes

LEMMA ReleaseGoes ==
    ASSUME Inv, NEW t \in Threads, Moved(t), UNCHANGED <<live, built>>,
           Working(work[t]), At(t) \in Attempts, work'[t].at = At(t),
           \/ work'[t].pc = "release"
           \/ work'[t].pc = "events" /\ work'[t].then = "release"
           \/ /\ work'[t].pc = "resolve" /\ work'[t].then = "release"
              /\ work'[t].event \in Events
              /\ <<At(t), work'[t].event>> \in outbox' \cup sent' \cup archived',
           t \in Attempts => Evident(t)'
    PROVE  Fits(t)
<1>1. ThreadTrue(work[t])'
  BY DEF ThreadTrue, Working, Eventing, Fanning, Closing
<1>2. work'[t].pc \in Common /\ ~Fanning(work[t])'
  BY DEF Common, Fanning, Eventing
<1>3. QED
  BY <1>1, <1>2, Goes

LEMMA MarkGoes ==
    ASSUME Inv, NEW t \in Threads, Moved(t), UNCHANGED <<live, built>>,
           Working(work[t]), At(t) \in Attempts, work'[t].at = At(t),
           work'[t].pc \in {"mark", "tell"}, work'[t].event \in Events,
           work'[t].pc = "mark" => work'[t].marked = FALSE,
           work'[t].pc = "tell" /\ work'[t].marked => Evident(At(t))'
    PROVE  Fits(t)
<1>1. work'[t].pc = "tell" /\ work'[t].marked => Evident(work[t].at)'
  BY DEF At
<1>2. ThreadTrue(work[t])'
  BY <1>1 DEF ThreadTrue, Working, Eventing, Fanning, Closing
<1>3. work'[t].pc \in Common /\ ~Releasing(work[t])' /\ ~Fanning(work[t])'
  BY DEF Common, Releasing, Fanning, Eventing
<1>4. QED
  BY <1>2, <1>3, Goes

\* Among the events, on the way to the same step as before.
LEMMA EventGoes ==
    ASSUME Inv, Grow, EvidentStep, NEW t \in Threads, Moved(t), UNCHANGED <<live, built, bundle>>,
           Eventing(work[t]), Eventing(work[t])', Carries(work[t], work'[t]),
           work'[t].pc # "events" => work'[t].event \in Events,
           work'[t].pc = "resolve" =>
               <<At(t), work'[t].event>> \in outbox' \cup sent' \cup archived'
    PROVE  Fits(t)
<1>1. /\ At(t) \in Attempts /\ work'[t].at = At(t) /\ Working(work[t])
      /\ ThreadTrue(work[t])
  BY InvIs DEF Working, Eventing, Carries, At
<1>2. Fanning(work[t])' => work'[t].states # None /\ Good(work[t].at, work[t].states)'
  <2>1. Fanning(work[t])' =>
          Fanning(work[t]) /\ work[t].states # None /\ Good(At(t), work[t].states)
    BY <1>1 DEF Fanning, Eventing, Carries, ThreadTrue, At
  <2>2. PICK a \in Attempts, s \in {work[t].states} : a = At(t)
    BY <1>1
  <2>3. Good(a, s) => Good(a, s)'
    BY GrowKeeps
  <2>4. work'[t].states = s /\ work'[t].at = a
    BY <1>1, <2>2 DEF Carries
  <2>5. Good(a, s)' => Good(work[t].at, work[t].states)'
    BY <2>4 DEF Good
  <2>6. QED
    BY <2>1, <2>2, <2>3, <2>4, <2>5
<1>3. Closing(work[t])' => Handed(work[t].at)'
  <2>1. Closing(work[t])' => Handed(At(t))
    BY <1>1 DEF Closing, Eventing, Carries, ThreadTrue, At
  <2>2. QED
    BY <1>1, <2>1, GrowKeeps DEF At
<1>4. ThreadTrue(work[t])'
  BY <1>1, <1>2, <1>3 DEF ThreadTrue, Working, Eventing, Carries, At
<1>5. t \in Attempts => OwnerTrue(t, work[t])
  BY InvIs
<1>6. t \in Attempts /\ Releasing(work[t])' => Evident(t)'
  BY <1>5 DEF OwnerTrue, Releasing, Eventing, Carries, EvidentStep
<1>7. t \in Attempts /\ Fanning(work[t])' /\ work'[t].durable => t \in bundle'
  BY <1>5 DEF OwnerTrue, Fanning, Eventing, Carries
<1>8. work'[t].pc \in Common
  BY DEF Common, Eventing
<1>9. QED
  BY <1>1, <1>4, <1>6, <1>7, <1>8, Goes

-----------------------------------------------------------------------------
(***************************************************************************)
(* The fan-out and the events.                                             *)
(***************************************************************************)
LEMMA KnowsFan ==
    ASSUME Inv, NEW t \in Threads, Fanning(work[t])
    PROVE  /\ At(t) \in Attempts /\ Working(work[t])
           /\ work[t].states \in [ChannelSet -> ChannelStates] /\ work[t].states # None
           /\ Good(At(t), work[t].states)
           /\ t \in Attempts /\ work[t].durable => t \in bundle
<1>1. Working(work[t])
  BY DEF Fanning, Eventing, Working
<1>2. At(t) \in Attempts /\ work[t] \in Work /\ ThreadTrue(work[t])
  BY <1>1, InvIs
<1>3. work[t].states # None /\ Good(At(t), work[t].states)
  BY <1>2 DEF ThreadTrue, At
<1>4. t \in Attempts /\ work[t].durable => t \in bundle
  BY InvIs DEF OwnerTrue
<1>5. QED
  BY <1>1, <1>2, <1>3, <1>4 DEF Work

LEMMA KnowsClose ==
    ASSUME Inv, NEW t \in Threads, Closing(work[t])
    PROVE  /\ At(t) \in Attempts /\ Working(work[t]) /\ Handed(At(t))
           /\ t \in Attempts => At(t) = t /\ Evident(t)
<1>1. Working(work[t])
  BY DEF Closing, Eventing, Working
<1>2. At(t) \in Attempts /\ ThreadTrue(work[t])
  BY <1>1, InvIs
<1>3. Handed(At(t))
  BY <1>2 DEF ThreadTrue, At
<1>4. t \in Attempts => At(t) = t
  BY InvIs
<1>5. QED
  BY <1>1, <1>2, <1>3, <1>4 DEF Evident

LEMMA KnowsRelease ==
    ASSUME Inv, NEW t \in Threads, Releasing(work[t])
    PROVE  /\ At(t) \in Attempts /\ Working(work[t])
           /\ t \in Attempts => Evident(t)
<1>1. Working(work[t])
  BY DEF Releasing, Eventing, Working
<1>2. QED
  BY <1>1, InvIs DEF OwnerTrue

LEMMA StillGood ==
    ASSUME Grow, NEW t \in Threads, At(t) \in Attempts, Good(At(t), work[t].states),
           work'[t].at = At(t), work'[t].states = work[t].states
    PROVE  Good(work[t].at, work[t].states)'
<1>1. PICK a \in Attempts, s \in {work[t].states} : a = At(t)
  OBVIOUS
<1>2. Good(a, s)'
  BY <1>1, GrowKeeps
<1>3. work'[t].at = a /\ work'[t].states = s
  BY <1>1
<1>4. QED
  BY <1>2, <1>3 DEF Good

LEMMA StillHanded ==
    ASSUME Grow, NEW t \in Threads, At(t) \in Attempts, Handed(At(t)), work'[t].at = At(t)
    PROVE  Handed(At(t))'
<1>1. PICK a \in Attempts : a = At(t)
  OBVIOUS
<1>2. Handed(a)' /\ work'[t].at = a
  BY <1>1, GrowKeeps
<1>3. QED
  BY <1>2 DEF At

LEMMA EnqueueFits ==
    ASSUME Inv, Grow, NEW t \in Threads, Enqueue(t)
    PROVE  Fits(t)
<1>1. Fanning(work[t])
  BY DEF Enqueue, PC, Fanning
<1>2. PICK a \in Attempts, s \in [ChannelSet -> ChannelStates] :
          a = At(t) /\ s = work[t].states /\ Good(a, s) /\ s # None
  BY <1>1, KnowsFan
<1>3. work[t].todo \subseteq ChannelSet
  BY InvIs DEF Work
<1>4. PICK c \in ChannelSet, state \in {"ENQUEUED", "COLLISION_RETAINED", "FAILED_RETRYABLE"} :
          /\ Onward(t, [work[t] EXCEPT !.states[c] = state, !.todo = @ \ {c},
                                       !.pc = IF work[t].durable THEN "checkpoint" ELSE "fan"])
          /\ state = "ENQUEUED" => <<a, c>> \in taken'
          /\ state = "COLLISION_RETAINED" => <<a, c>> \in archived'
  <2>1. PICK c \in ChannelSet :
          \/ /\ taken' = taken \cup {<<a, c>>}
             /\ Onward(t, [work[t] EXCEPT !.states[c] = "ENQUEUED", !.todo = @ \ {c},
                                          !.pc = IF work[t].durable THEN "checkpoint" ELSE "fan"])
          \/ /\ archived' = archived \cup {<<a, c>>}
             /\ Onward(t, [work[t] EXCEPT !.states[c] = "COLLISION_RETAINED", !.todo = @ \ {c},
                                          !.pc = IF work[t].durable THEN "checkpoint" ELSE "fan"])
          \/ Onward(t, [work[t] EXCEPT !.states[c] = "FAILED_RETRYABLE", !.todo = @ \ {c},
                                       !.pc = IF work[t].durable THEN "checkpoint" ELSE "fan"])
    BY <1>2, <1>3 DEF Enqueue
  <2>2. QED
    BY <2>1
<1>5. state \in ChannelStates
  BY DEF ChannelStates, Settled
<1>6. /\ Moved(t) /\ work'[t].pc \in {"checkpoint", "fan"}
      /\ work'[t].at = work[t].at /\ work'[t].durable = work[t].durable
      /\ work'[t].states = [s EXCEPT ![c] = state]
      /\ work'[t].states \in [ChannelSet -> ChannelStates]
  <2>1. Step(t, [work[t] EXCEPT !.states[c] = state, !.todo = @ \ {c},
                                !.pc = IF work[t].durable THEN "checkpoint" ELSE "fan"])
    BY <1>4 DEF Onward
  <2>2. Typed /\ work[t].states # None
    BY <1>2, InvIs
  <2>3. /\ Moved(t) /\ work'[t].pc \in {"checkpoint", "fan"}
        /\ work'[t].at = work[t].at /\ work'[t].durable = work[t].durable
        /\ work'[t].states = [work[t].states EXCEPT ![c] = state]
        /\ work'[t].states \in [ChannelSet -> ChannelStates]
    BY <1>5, <2>1, <2>2, FanIs, Zenon
  <2>4. QED
    BY <1>2, <2>3
<1>7. Good(a, s)'
  BY <1>2, GrowKeeps
<1>8. Good(a, [s EXCEPT ![c] = state])'
  BY <1>4, <1>7 DEF Good
<1>9. Good(work[t].at, work[t].states)'
  BY <1>2, <1>6, <1>8 DEF Good, At
<1>10. UNCHANGED <<live, built, bundle>>
  BY <1>4 DEF Enqueue, Onward, files, facts
<1>11. work'[t].states # None /\ work'[t].at = At(t)
  BY <1>6, ConstantsAre DEF At
<1>12. QED
  BY <1>1, <1>6, <1>9, <1>10, <1>11, KnowsFan, FanGoes

LEMMA CheckpointFits ==
    ASSUME Inv, Grow, NEW t \in Threads, Checkpoint(t)
    PROVE  Fits(t)
<1>1. Fanning(work[t]) /\ Goto(t, "fan") /\ UNCHANGED <<live, built, bundle>>
  BY DEF Checkpoint, PC, Fanning, facts
<1>2. Moved(t) /\ work'[t].pc = "fan" /\ Carries(work[t], work'[t])
  BY <1>1, InvIs, GotoIs DEF Places
<1>3. /\ work'[t].at = At(t) /\ work'[t].states = work[t].states
      /\ work'[t].durable = work[t].durable
  BY <1>2 DEF Carries, At
<1>4. QED
  BY <1>1, <1>2, <1>3, KnowsFan, StillGood, FanGoes

LEMMA FannedOutFits ==
    ASSUME Inv, Grow, NEW t \in Threads, FannedOut(t)
    PROVE  Fits(t)
<1>1. Fanning(work[t]) /\ UNCHANGED <<live, built, bundle>>
  BY DEF FannedOut, PC, Fanning, Onward, facts, files
<1>2. PICK v \in Work : v = work[t]
  BY InvIs
<1>3. PICK w : w = Require(v, Outcomes(v.states), "settle")
  OBVIOUS
<1>4. Outcomes(v.states) \in SUBSET Events
  BY DEF Outcomes, Events
<1>5. /\ w \in Work /\ w.pc = "events" /\ w.at = v.at /\ w.states = v.states
      /\ w.durable = v.durable /\ w.then = "settle"
  BY <1>3, <1>4, RequireIs DEF Places
<1>6. Moved(t) /\ work'[t] = w
  BY <1>2, <1>3, <1>5, InvIs, StepIs DEF FannedOut, Onward
<1>7. /\ work'[t].at = At(t) /\ work'[t].states = work[t].states
      /\ work'[t].durable = work[t].durable
  BY <1>2, <1>5, <1>6 DEF At
<1>8. QED
  BY <1>1, <1>5, <1>6, <1>7, KnowsFan, StillGood, FanGoes

LEMMA NextEventFits ==
    ASSUME Inv, Grow, EvidentStep, NEW t \in Threads, NextEvent(t)
    PROVE  Fits(t)
<1>1. Eventing(work[t]) /\ UNCHANGED <<built, bundle>>
  BY DEF NextEvent, PC, Eventing, facts
<1>2. work[t].needs \subseteq Events
  BY InvIs DEF Work
<1>3. PICK e \in Events, held \in BOOLEAN :
          Onward(t, [work[t] EXCEPT !.pc = "emit", !.event = e, !.marked = held,
                                    !.needs = @ \ {e}])
  BY <1>2 DEF NextEvent
<1>4. Moved(t) /\ work'[t].pc = "emit" /\ Carries(work[t], work'[t]) /\ work'[t].event = e
  BY <1>3, InvIs, EmitIs DEF Onward
<1>5. Eventing(work[t])' /\ UNCHANGED live
  BY <1>3, <1>4 DEF Eventing, Onward
<1>6. QED
  BY <1>1, <1>4, <1>5, EventGoes

LEMMA EventsDoneFits ==
    ASSUME Inv, Grow, EvidentStep, NEW t \in Threads, EventsDone(t)
    PROVE  Fits(t)
<1>1. /\ Eventing(work[t]) /\ work[t].pc = "events" /\ UNCHANGED <<built, bundle>>
      /\ work[t].then \in {"fan", "settle", "complete", "final", "release"}
  BY InvIs DEF EventsDone, PC, Eventing, facts, files, ThreadTrue
<1>2. CASE Finish(t)
  <2>1. CASE t \in Attempts
    <3>1. work[t].then \in {"complete", "final", "release"} \/ UNCHANGED live
      BY <1>1 DEF EventsDone, Requiring, Onward
    <3>2. CASE work[t].then \in {"complete", "final", "release"}
      <4>1. Closing(work[t]) \/ Releasing(work[t])
        BY <1>1, <3>2 DEF Closing, Releasing
      <4>2. Evident(t)
        BY <2>1, <4>1, KnowsClose, KnowsRelease
      <4>3. QED
        BY <1>2, <2>1, <4>2, Ends DEF EvidentStep
    <3>3. CASE work[t].then \in {"fan", "settle"}
      <4>1. UNCHANGED live /\ Onward(t, [work[t] EXCEPT !.pc = work[t].then, !.then = "none",
                                      !.event = "none", !.marked = FALSE, !.clean = TRUE])
        BY <3>3 DEF EventsDone, Requiring, Onward
      <4>2. work[t].then \in Places
        BY <3>3 DEF Places
      <4>3. work'[t].pc = work[t].then
        BY <4>1, <4>2, InvIs, GoneOnIs DEF Onward
      <4>4. work'[t].pc \in {"idle", "done"}
        BY <1>2, InvIs, EndedIs DEF Finish
      <4>5. QED
        BY <3>3, <4>3, <4>4
    <3>4. QED
      BY <1>1, <3>2, <3>3
  <2>2. CASE t \notin Attempts
    BY <1>2, <2>2, Ends
  <2>3. QED
    BY <2>1, <2>2
<1>3. CASE Onward(t, [work[t] EXCEPT !.pc = work[t].then, !.then = "none", !.event = "none",
                                     !.marked = FALSE, !.clean = TRUE])
  <2>1. work[t].then \in Places
    BY <1>1 DEF Places
  <2>2. /\ Moved(t) /\ work'[t].pc = work[t].then /\ work'[t].at = At(t)
        /\ work'[t].states = work[t].states /\ work'[t].durable = work[t].durable
        /\ UNCHANGED live
    BY <1>3, <2>1, InvIs, GoneOnIs DEF Onward, At
  <2>3. CASE work[t].then \in {"fan", "settle"}
    <3>1. Fanning(work[t])
      BY <1>1, <2>3 DEF Fanning
    <3>2. QED
      BY <1>1, <2>2, <2>3, <3>1, KnowsFan, StillGood, FanGoes
  <2>4. CASE work[t].then \in {"complete", "final"}
    <3>1. Closing(work[t])
      BY <1>1, <2>4 DEF Closing
    <3>2. QED
      BY <1>1, <2>2, <2>4, <3>1, KnowsClose, StillHanded, CloseGoes
  <2>5. CASE work[t].then = "release"
    <3>1. Releasing(work[t])
      BY <1>1, <2>5 DEF Releasing
    <3>2. t \in Attempts => Evident(t)'
      BY <3>1, KnowsRelease DEF EvidentStep
    <3>3. QED
      BY <1>1, <2>2, <2>5, <3>1, <3>2, KnowsRelease, ReleaseGoes
  <2>6. QED
    BY <1>1, <2>3, <2>4, <2>5
<1>4. QED
  BY <1>2, <1>3 DEF EventsDone

LEMMA EmitFits ==
    ASSUME Inv, Grow, EvidentStep, NEW t \in Threads, Emit(t)
    PROVE  Fits(t)
<1>1. Eventing(work[t]) /\ work[t].pc = "emit" /\ UNCHANGED <<live, built, bundle>>
  BY DEF Emit, PC, Eventing, facts, files
<1>2. work[t].event \in Events
  BY <1>1, InvIs DEF ThreadTrue
<1>3. CASE Takes(At(t), work[t].event) /\ Goto(t, IF work[t].marked THEN "resolve" ELSE "events")
  <2>1. PICK p \in {"resolve", "events"} : Goto(t, p)
    BY <1>3
  <2>2. /\ Moved(t) /\ work'[t].pc = p /\ Carries(work[t], work'[t])
        /\ work'[t].event = work[t].event
    BY <2>1, InvIs, GotoIs DEF Places
  <2>3. <<At(t), work'[t].event>> \in outbox'
    BY <1>3, <2>2 DEF Takes
  <2>4. Eventing(work[t])'
    BY <2>2 DEF Eventing
  <2>5. QED
    BY <1>1, <1>2, <2>2, <2>3, <2>4, EventGoes
<1>4. CASE Step(t, [work[t] EXCEPT !.clean = FALSE,
                                   !.pc = IF work[t].marked THEN "events" ELSE "witness"])
  <2>1. PICK p \in {"events", "witness"} : Step(t, [work[t] EXCEPT !.clean = FALSE, !.pc = p])
    BY <1>4
  <2>2. /\ Moved(t) /\ work'[t].pc = p /\ Carries(work[t], work'[t])
        /\ work'[t].event = work[t].event
    BY <2>1, InvIs, RefusedIs DEF Places
  <2>3. Eventing(work[t])'
    BY <2>2 DEF Eventing
  <2>4. QED
    BY <1>1, <1>2, <2>2, <2>3, EventGoes
<1>5. QED
  BY <1>3, <1>4 DEF Emit

LEMMA WitnessFits ==
    ASSUME Inv, Grow, EvidentStep, NEW t \in Threads, Witness(t) \/ Resolve(t)
    PROVE  Fits(t)
<1>1. Eventing(work[t]) /\ Goto(t, "events") /\ UNCHANGED <<live, built, bundle>>
  BY DEF Witness, Resolve, PC, Eventing, facts
<1>2. Moved(t) /\ work'[t].pc = "events" /\ Carries(work[t], work'[t])
  BY <1>1, InvIs, GotoIs DEF Places
<1>3. Eventing(work[t])'
  BY <1>2 DEF Eventing
<1>4. QED
  BY <1>1, <1>2, <1>3, EventGoes

-----------------------------------------------------------------------------
(***************************************************************************)
(* The end of the files, and terminal outcomes.                            *)
(***************************************************************************)
LEMMA EndsEvident ==
    ASSUME Inv, EvidentStep, NEW t \in Threads, Finish(t), t \in Attempts => Evident(t)
    PROVE  Fits(t)
  BY Ends DEF EvidentStep

LEMMA SettleFits ==
    ASSUME Inv, Grow, EvidentStep, NEW t \in Threads, Settle(t)
    PROVE  Fits(t)
<1>1. Fanning(work[t]) /\ PC(t) = "settle" /\ UNCHANGED <<built, bundle>>
  BY DEF Settle, PC, Fanning, facts
<1>2. At(t) \in Attempts /\ Working(work[t]) /\ (t \in Attempts => At(t) = t)
  BY <1>1, KnowsFan, InvIs
<1>3. CASE work[t].durable /\ Finish(t)
  <2>1. t \in Attempts => Evident(t)
    BY <1>1, <1>3, KnowsFan DEF Evident
  <2>2. QED
    BY <1>3, <2>1, EndsEvident
<1>4. CASE Onward(t, Terminalize(work[t], "CHANNEL_LOST"))
  <2>1. "CHANNEL_LOST" \in Events
    BY DEF Events
  <2>2. /\ Moved(t) /\ work'[t].pc = "mark" /\ work'[t].at = work[t].at
        /\ work'[t].event = "CHANNEL_LOST" /\ work'[t].marked = FALSE
    BY <1>2, <1>4, <2>1, InvIs, TerminalizeIs DEF Onward
  <2>3. work'[t].at = At(t) /\ UNCHANGED live
    BY <1>4, <2>2 DEF At, Onward
  <2>4. QED
    BY <1>1, <1>2, <2>1, <2>2, <2>3, MarkGoes
<1>5. ASSUME \A c \in ChannelSet : work[t].states[c] \in Settled
      PROVE  Handed(At(t)) /\ (t \in Attempts => Evident(t))
  BY <1>1, <1>2, <1>5, SettledIsHanded DEF Evident
<1>6. CASE Finish(t) /\ \A c \in ChannelSet : work[t].states[c] \in Settled
  BY <1>5, <1>6, EndsEvident
<1>7. CASE /\ \A c \in ChannelSet : work[t].states[c] \in Settled
           /\ intent[At(t)] # None
           /\ Onward(t, Require([Idle EXCEPT !.at = At(t)], intent[At(t)].pending, "complete"))
  <2>1. PICK pending \in SUBSET Events : pending = intent[At(t)].pending
    BY <1>2, <1>7, FileIs DEF Intents
  <2>2. PICK v : v = [Idle EXCEPT !.at = At(t)]
    OBVIOUS
  <2>3. v \in Work /\ v.at = At(t)
    BY <1>2, <2>2, IdleType, PutAt DEF Work
  <2>4. PICK w : w = Require(v, pending, "complete")
    OBVIOUS
  <2>5. w \in Work /\ w.pc = "events" /\ w.at = v.at /\ w.then = "complete"
    BY <2>3, <2>4, RequireIs DEF Places
  <2>6. Moved(t) /\ work'[t] = w
    BY <1>7, <2>1, <2>2, <2>4, <2>5, InvIs, StepIs DEF Onward
  <2>7. work'[t].at = At(t) /\ UNCHANGED live /\ Handed(At(t))
    BY <1>5, <1>7, <2>3, <2>5, <2>6 DEF Onward
  <2>8. QED
    BY <1>1, <1>2, <2>5, <2>6, <2>7, StillHanded, CloseGoes
<1>8. QED
  BY <1>3, <1>4, <1>6, <1>7 DEF Settle

LEMMA CompleteFits ==
    ASSUME Inv, Grow, EvidentStep, NEW t \in Threads, Complete(t)
    PROVE  Fits(t)
<1>1. Closing(work[t]) /\ UNCHANGED <<live, built, bundle>>
  BY DEF Complete, PC, Closing, facts
<1>2. PICK p \in {"release", "final"} : Goto(t, p)
  BY DEF Complete
<1>3. Moved(t) /\ work'[t].pc = p /\ Carries(work[t], work'[t])
  BY <1>2, InvIs, GotoIs DEF Places
<1>4. work'[t].at = At(t)
  BY <1>3 DEF Carries, At
<1>5. t \in Attempts => Evident(t)'
  BY <1>1, KnowsClose DEF EvidentStep
<1>6. CASE p = "release"
  BY <1>1, <1>3, <1>4, <1>5, <1>6, KnowsClose, ReleaseGoes
<1>7. CASE p = "final"
  BY <1>1, <1>3, <1>4, <1>7, KnowsClose, StillHanded, CloseGoes
<1>8. QED
  BY <1>6, <1>7

LEMMA MarkFinalFits ==
    ASSUME Inv, Grow, EvidentStep, NEW t \in Threads, MarkFinal(t)
    PROVE  Fits(t)
<1>1. Closing(work[t]) /\ UNCHANGED <<built, bundle>>
  BY DEF MarkFinal, PC, Closing, facts
<1>2. CASE Finish(t)
  BY <1>1, <1>2, KnowsClose, EndsEvident
<1>3. CASE /\ intent[At(t)].pending = {}
           /\ Rewrites(At(t), [intent[At(t)] EXCEPT !.stage = "FINAL"])
           /\ Onward(t, [work[t] EXCEPT !.pc = "unbundle"])
  <2>1. Goto(t, "unbundle") /\ UNCHANGED live
    BY <1>3 DEF Onward, Goto
  <2>2. Moved(t) /\ work'[t].pc = "unbundle" /\ Carries(work[t], work'[t])
    BY <2>1, InvIs, GotoIs DEF Places
  <2>3. work'[t].at = At(t)
    BY <2>2 DEF Carries, At
  <2>4. intent'[At(t)].pending = {}
    BY <1>1, <1>3, KnowsClose, Finals DEF Rewrites
  <2>5. QED
    BY <1>1, <2>1, <2>2, <2>3, <2>4, KnowsClose, StillHanded, CloseGoes
<1>4. QED
  BY <1>2, <1>3 DEF MarkFinal

LEMMA DeleteBundleFits ==
    ASSUME Inv, Grow, EvidentStep, NEW t \in Threads, DeleteBundle(t)
    PROVE  Fits(t)
<1>1. /\ Closing(work[t]) /\ work[t].pc = "unbundle" /\ UNCHANGED <<built, intent>>
      /\ At(t) = work[t].at
  BY DEF DeleteBundle, PC, Closing, facts, At
<1>2. CASE Finish(t)
  BY <1>1, <1>2, KnowsClose, EndsEvident
<1>3. CASE Onward(t, [work[t] EXCEPT !.pc = "unlink"])
  <2>1. Goto(t, "unlink") /\ UNCHANGED live
    BY <1>3 DEF Onward, Goto
  <2>2. Moved(t) /\ work'[t].pc = "unlink" /\ Carries(work[t], work'[t])
    BY <2>1, InvIs, GotoIs DEF Places
  <2>3. work'[t].at = At(t)
    BY <2>2 DEF Carries, At
  <2>4. intent'[At(t)] # None => intent'[At(t)].pending = {}
    BY <1>1, InvIs DEF ThreadTrue
  <2>5. QED
    BY <1>1, <2>1, <2>2, <2>3, <2>4, KnowsClose, StillHanded, CloseGoes
<1>4. QED
  BY <1>2, <1>3 DEF DeleteBundle

LEMMA DeleteIntentFits ==
    ASSUME Inv, Grow, EvidentStep, NEW t \in Threads, DeleteIntent(t)
    PROVE  Fits(t)
  BY KnowsClose, EndsEvident DEF DeleteIntent, PC, Closing

LEMMA ReleaseFits ==
    ASSUME Inv, Grow, EvidentStep, NEW t \in Threads, Release(t)
    PROVE  Fits(t)
  BY KnowsRelease, EndsEvident DEF Release, PC, Releasing

LEMMA MarkFits ==
    ASSUME Inv, Grow, EvidentStep, NEW t \in Threads, Mark(t)
    PROVE  Fits(t)
<1>1. /\ work[t].pc = "mark" /\ Working(work[t]) /\ UNCHANGED <<built, bundle>>
      /\ At(t) \in Attempts /\ work[t].event \in Events /\ work[t].marked = FALSE
  BY InvIs DEF Mark, PC, Working, facts, ThreadTrue
<1>2. CASE /\ Marks(At(t), work[t].event)
           /\ Onward(t, [work[t] EXCEPT !.pc = "tell", !.marked = TRUE])
  <2>1. /\ Moved(t) /\ work'[t].pc = "tell" /\ work'[t].at = At(t)
        /\ work'[t].event = work[t].event /\ UNCHANGED live
    BY <1>2, InvIs, MarkedIs DEF Onward, At
  <2>2. intent'[At(t)] # None
    BY <1>1, <1>2, MarksMoves
  <2>3. Evident(At(t))'
    BY <2>1, <2>2 DEF Evident, At
  <2>4. QED
    BY <1>1, <2>1, <2>3, MarkGoes
<1>3. CASE Onward(t, [work[t] EXCEPT !.pc = "tell"])
  <2>1. Goto(t, "tell") /\ UNCHANGED live
    BY <1>3 DEF Onward, Goto
  <2>2. /\ Moved(t) /\ work'[t].pc = "tell" /\ Carries(work[t], work'[t])
        /\ work'[t].event = work[t].event /\ work'[t].marked = FALSE
    BY <1>1, <2>1, InvIs, GotoIs DEF Places
  <2>3. work'[t].at = At(t)
    BY <2>2 DEF Carries, At
  <2>4. QED
    BY <1>1, <2>1, <2>2, <2>3, MarkGoes
<1>4. QED
  BY <1>2, <1>3 DEF Mark

LEMMA TellFits ==
    ASSUME Inv, Grow, EvidentStep, NEW t \in Threads, Tell(t)
    PROVE  Fits(t)
<1>1. /\ work[t].pc = "tell" /\ Working(work[t]) /\ UNCHANGED <<built, bundle>>
      /\ At(t) \in Attempts /\ work[t].event \in Events
      /\ work[t].marked => Evident(At(t))
      /\ t \in Attempts => At(t) = t
  BY InvIs DEF Tell, PC, Working, facts, files, ThreadTrue, At
<1>2. CASE Takes(At(t), work[t].event)
  <2>1. <<At(t), work[t].event>> \in outbox'
    BY <1>2 DEF Takes
  <2>2. t \in Attempts => Evident(t)'
    BY <1>1, <2>1 DEF Evident, Told
  <2>3. CASE Onward(t, [Require(work[t], {}, "release") EXCEPT !.pc = "resolve"])
    <3>1. /\ Moved(t) /\ work'[t].pc = "resolve" /\ work'[t].at = At(t)
          /\ work'[t].then = "release" /\ work'[t].event = work[t].event
          /\ UNCHANGED live
      BY <2>3, InvIs, ReleasingIs DEF Onward, At
    <3>2. <<At(t), work'[t].event>> \in outbox'
      BY <2>1, <3>1
    <3>3. QED
      BY <1>1, <2>2, <3>1, <3>2, ReleaseGoes
  <2>4. CASE Finish(t)
    BY <2>2, <2>4, Ends
  <2>5. CASE Fault /\ UNCHANGED outbox /\ Finish(t)
    BY <2>4, <2>5
  <2>6. QED
    BY <2>3, <2>4, <2>5 DEF Tell
<1>3. CASE /\ Finish(t)
           /\ undurable' = IF work[t].marked THEN undurable ELSE undurable \cup {At(t)}
  <2>1. t \in Attempts => Evident(t)' \/ t \in undurable'
    BY <1>1, <1>3 DEF EvidentStep
  <2>2. QED
    BY <1>3, <2>1, Ends
<1>4. QED
  BY <1>2, <1>3 DEF Tell

LEMMA AdvanceFits ==
    ASSUME Inv, Grow, EvidentStep, NEW t \in Threads, Advance(t)
    PROVE  Fits(t)
  BY EnqueueFits, CheckpointFits, FannedOutFits, NextEventFits, EventsDoneFits, EmitFits,
     WitnessFits, SettleFits, CompleteFits, MarkFinalFits, DeleteBundleFits, DeleteIntentFits,
     MarkFits, TellFits, ReleaseFits DEF Advance

-----------------------------------------------------------------------------
(***************************************************************************)
(* The owner until the fan-out.                                            *)
(***************************************************************************)
LEMMA KnowsOwner ==
    ASSUME Inv, NEW t \in Attempts
    PROVE  /\ t \in Threads /\ t # Reconciler /\ Reconciler \in Threads
           /\ At(t) = t /\ Typed /\ work[t] \in Work
           /\ ThreadTrue(work[t]) /\ OwnerTrue(t, work[t]) /\ AdmissionTrue(t, work[t])
<1>1. t \in Threads /\ t # Reconciler /\ Reconciler \in Threads
  BY ConstantsAre DEF Threads
<1>2. QED
  BY <1>1, InvIs

\* Before the fan-out only the admission and the answer count.
LEMMA OwnerFits ==
    ASSUME Inv, NEW t \in Attempts, Moved(t), work'[t].at = t,
           \/ work'[t].pc \in {"intent", "computing", "bundle", "built"}
           \/ work'[t].pc = "report" /\ work'[t].then \in {"computing", "fan"},
           t \in live', At(Reconciler) # t,
           work'[t].pc = "intent" => intent'[t] = None,
           Preparing(work[t])' => built'[t] = None,
           Storing(work[t])' => built'[t] # None,
           work'[t].pc = "built" => t \in bundle'
    PROVE  Fits(t)
<1>1. t \in Threads /\ t # Reconciler /\ At(Reconciler)' = At(Reconciler)
  BY KnowsOwner, ReconcilerApart DEF At
<1>2. ThreadTrue(work[t])'
  BY DEF ThreadTrue, Working, Eventing, Fanning, Closing
<1>3. OwnerTrue(t, work[t])'
  BY DEF OwnerTrue, Releasing, Fanning, Eventing
<1>4. AdmissionTrue(t, work[t])'
  BY <1>1 DEF AdmissionTrue, Working
<1>5. PC(t)' # "done"
  BY DEF PC
<1>6. QED
  BY <1>1, <1>2, <1>3, <1>4, <1>5 DEF Fits

LEMMA SkipFits ==
    ASSUME Inv, NEW t \in Attempts, Skip(t)
    PROVE  Fits(t)
<1>1. /\ work[t].pc = "idle" /\ UNCHANGED <<live, built>>
      /\ Step(t, Terminalize(work[t], "SKIPPED"))
  BY DEF Skip, PC, Onward
<1>2. /\ t \in Threads /\ t # Reconciler /\ At(t) = t /\ Typed
      /\ AdmissionTrue(t, work[t])
  BY KnowsOwner
<1>3. "SKIPPED" \in Events
  BY DEF Events
<1>4. /\ Moved(t) /\ work'[t].pc = "mark" /\ work'[t].at = t
      /\ work'[t].event = "SKIPPED" /\ work'[t].marked = FALSE
  BY <1>1, <1>2, <1>3, TerminalizeIs DEF At
<1>5. ThreadTrue(work[t])'
  BY <1>3, <1>4 DEF ThreadTrue, Working, Eventing, Fanning, Closing
<1>6. OwnerTrue(t, work[t])'
  BY <1>4 DEF OwnerTrue, Releasing, Fanning, Eventing
<1>7. t \notin live /\ built[t] = None
  BY <1>1, <1>2 DEF AdmissionTrue, Working
<1>8. AdmissionTrue(t, work[t])'
  BY <1>1, <1>4, <1>7 DEF AdmissionTrue, Preparing, Storing
<1>9. PC(t)' # "done"
  BY <1>4 DEF PC
<1>10. QED
  BY <1>2, <1>4, <1>5, <1>6, <1>8, <1>9 DEF Fits

LEMMA SubmitFits ==
    ASSUME Inv, NEW t \in Attempts, Submit(t)
    PROVE  Fits(t)
<1>1. /\ work[t].pc = "idle" /\ t \in live' /\ Goto(t, "intent")
      /\ UNCHANGED <<intent, built>>
  BY DEF Submit, PC, files
<1>2. Moved(t) /\ work'[t].pc = "intent" /\ Carries(work[t], work'[t])
  BY <1>1, KnowsOwner, GotoIs DEF Places
<1>3. work'[t].at = t
  BY <1>2, KnowsOwner DEF Carries, At
<1>4. At(Reconciler) # t /\ intent[t] = None /\ built[t] = None
  BY <1>1, KnowsOwner DEF AdmissionTrue
<1>5. ~Storing(work[t])'
  BY <1>2 DEF Storing
<1>6. QED
  BY <1>1, <1>2, <1>3, <1>4, <1>5, OwnerFits

\* An owner that has not finished its preparations or its files is admitted.
LEMMA KnowsAdmitted ==
    ASSUME Inv, NEW t \in Attempts, Preparing(work[t]) \/ Storing(work[t])
    PROVE  /\ t \in live /\ At(Reconciler) # t /\ Working(work[t])
           /\ Preparing(work[t]) => built[t] = None
           /\ Storing(work[t]) => built[t] # None
  BY KnowsOwner DEF AdmissionTrue

LEMMA WriteIntentFits ==
    ASSUME Inv, NEW t \in Attempts, WriteIntent(t)
    PROVE  Fits(t)
<1>1. Preparing(work[t]) /\ UNCHANGED <<live, built>>
  BY DEF WriteIntent, Preparing, PC, facts, Onward
<1>2. CASE Step(t, [work[t] EXCEPT !.pc = "computing"])
  <2>1. Moved(t) /\ work'[t].pc = "computing" /\ Carries(work[t], work'[t])
    BY <1>2, KnowsOwner, GotoIs DEF Places, Goto
  <2>2. work'[t].at = t
    BY <2>1, KnowsOwner DEF Carries, At
  <2>3. ~Storing(work[t])'
    BY <2>1 DEF Storing
  <2>4. QED
    BY <1>1, <2>1, <2>2, <2>3, KnowsAdmitted, OwnerFits
<1>3. CASE Step(t, [work[t] EXCEPT !.pc = "report", !.then = "computing"])
  <2>1. /\ Moved(t) /\ work'[t].pc = "report" /\ work'[t].at = work[t].at
        /\ work'[t].then = "computing"
    BY <1>3, KnowsOwner, ReportIs DEF Places
  <2>2. work'[t].at = t
    BY <2>1, KnowsOwner DEF At
  <2>3. ~Storing(work[t])'
    BY <2>1 DEF Storing
  <2>4. QED
    BY <1>1, <2>1, <2>2, <2>3, KnowsAdmitted, OwnerFits
<1>4. QED
  BY <1>2, <1>3 DEF WriteIntent, Onward

LEMMA UndurablyFits ==
    ASSUME Inv, NEW t \in Attempts, Storing(work[t]), Undurably(t), UNCHANGED built
    PROVE  Fits(t)
<1>1. Step(t, [work[t] EXCEPT !.pc = "report", !.then = "fan"]) /\ UNCHANGED live
  BY DEF Undurably, Onward
<1>2. /\ Moved(t) /\ work'[t].pc = "report" /\ work'[t].at = work[t].at
      /\ work'[t].then = "fan"
  BY <1>1, KnowsOwner, ReportIs DEF Places
<1>3. work'[t].at = t
  BY <1>2, KnowsOwner DEF At
<1>4. ~Preparing(work[t])'
  BY <1>2 DEF Preparing
<1>5. QED
  BY <1>1, <1>2, <1>3, <1>4, KnowsAdmitted, OwnerFits

\* The fan-out of what build expected.
LEMMA BeginsFan ==
    ASSUME Inv, Grow, NEW t \in Attempts, Storing(work[t]), NEW durable \in BOOLEAN,
           Onward(t, FanOut(work[t], built[t], durable)), UNCHANGED <<built, bundle>>,
           durable => t \in bundle
    PROVE  Fits(t)
<1>1. Step(t, FanOut(work[t], built[t], durable)) /\ UNCHANGED live
  BY DEF Onward
<1>2. PICK s \in [ChannelSet -> ChannelStates] : s = built[t] /\ Good(t, s) /\ s # None
  BY KnowsAdmitted, BuiltIsGood
<1>3. /\ Moved(t) /\ work'[t].pc = "fan" /\ work'[t].at = work[t].at
      /\ work'[t].states = s /\ work'[t].durable = durable
  BY <1>1, <1>2, KnowsOwner, FanOutIs
<1>4. Good(t, s)'
  BY <1>2, GrowKeeps
<1>5. At(t) = t /\ work'[t].at = t
  BY <1>3, KnowsOwner DEF At
<1>6. Good(work[t].at, work[t].states)'
  BY <1>3, <1>4, <1>5 DEF Good
<1>7. QED
  BY <1>1, <1>2, <1>3, <1>5, <1>6, KnowsOwner, KnowsAdmitted, FanGoes

LEMMA ReportFits ==
    ASSUME Inv, Grow, NEW t \in Attempts, Report(t)
    PROVE  Fits(t)
<1>1. /\ work[t].pc = "report" /\ UNCHANGED <<live, built, bundle>>
      /\ work[t].then \in {"computing", "fan"}
  BY KnowsOwner DEF Report, PC, facts, files, Onward, ThreadTrue
<1>2. CASE work[t].then = "fan"
  <2>1. Storing(work[t]) /\ Onward(t, FanOut(work[t], built[t], FALSE))
    BY <1>1, <1>2 DEF Storing, Report
  <2>2. QED
    BY <1>1, <2>1, BeginsFan
<1>3. CASE work[t].then = "computing"
  <2>1. /\ Preparing(work[t])
        /\ Step(t, [work[t] EXCEPT !.pc = "computing", !.then = "none"])
    BY <1>1, <1>3 DEF Preparing, Report, Onward
  <2>2. PICK v \in Work : v = work[t]
    BY KnowsOwner
  <2>3. PICK w : w = [v EXCEPT !.pc = "computing", !.then = "none"]
    OBVIOUS
  <2>4. w \in Work
    BY <2>3, PutPc, PutThen DEF Places
  <2>5. w.pc = "computing" /\ w.at = v.at
    BY <2>3 DEF Work
  <2>6. Moved(t) /\ work'[t] = w
    BY <2>1, <2>2, <2>3, <2>4, KnowsOwner, StepIs
  <2>7. work'[t].at = t /\ work'[t].pc = "computing"
    BY <2>2, <2>5, <2>6, KnowsOwner DEF At
  <2>8. ~Storing(work[t])'
    BY <2>7 DEF Storing
  <2>9. QED
    BY <1>1, <2>1, <2>6, <2>7, <2>8, KnowsAdmitted, OwnerFits
<1>4. QED
  BY <1>1, <1>2, <1>3

LEMMA FailsFits ==
    ASSUME Inv, NEW t \in Attempts, Fails(t)
    PROVE  Fits(t)
<1>1. /\ work[t].pc = "computing" /\ UNCHANGED <<live, built>>
      /\ Step(t, Terminalize(work[t], "FAILED"))
  BY DEF Fails, PC, Onward, facts
<1>2. "FAILED" \in Events /\ Working(work[t])
  BY <1>1 DEF Events, Working
<1>3. /\ Moved(t) /\ work'[t].pc = "mark" /\ work'[t].at = work[t].at
      /\ work'[t].event = "FAILED" /\ work'[t].marked = FALSE
  BY <1>1, <1>2, KnowsOwner, TerminalizeIs
<1>4. work'[t].at = At(t)
  BY <1>3 DEF At
<1>5. QED
  BY <1>1, <1>2, <1>3, <1>4, KnowsOwner, MarkGoes

LEMMA BuildFits ==
    ASSUME Inv, NEW t \in Attempts, Build(t)
    PROVE  Fits(t)
<1>1. Preparing(work[t]) /\ Goto(t, "bundle") /\ UNCHANGED live
  BY DEF Build, PC, Preparing
<1>2. Moved(t) /\ work'[t].pc = "bundle" /\ Carries(work[t], work'[t])
  BY <1>1, KnowsOwner, GotoIs DEF Places
<1>3. work'[t].at = t
  BY <1>2, KnowsOwner DEF Carries, At
<1>4. built'[t] # None
  BY KnowsOwner, ConstantsAre DEF Build, Typed
<1>5. ~Preparing(work[t])'
  BY <1>2 DEF Preparing
<1>6. QED
  BY <1>1, <1>2, <1>3, <1>4, <1>5, KnowsAdmitted, OwnerFits

LEMMA WriteBundleFits ==
    ASSUME Inv, NEW t \in Attempts, WriteBundle(t)
    PROVE  Fits(t)
<1>1. Storing(work[t]) /\ UNCHANGED built
  BY DEF WriteBundle, PC, Storing, facts
<1>2. CASE bundle' = bundle \cup {t} /\ Goto(t, "built") /\ UNCHANGED live
  <2>1. Moved(t) /\ work'[t].pc = "built" /\ Carries(work[t], work'[t])
    BY <1>2, KnowsOwner, GotoIs DEF Places
  <2>2. work'[t].at = t
    BY <2>1, KnowsOwner DEF Carries, At
  <2>3. ~Preparing(work[t])'
    BY <2>1 DEF Preparing
  <2>4. QED
    BY <1>1, <1>2, <2>1, <2>2, <2>3, KnowsAdmitted, OwnerFits
<1>3. QED
  BY <1>1, <1>2, UndurablyFits DEF WriteBundle

LEMMA MarkBuiltFits ==
    ASSUME Inv, Grow, NEW t \in Attempts, MarkBuilt(t)
    PROVE  Fits(t)
<1>1. Storing(work[t]) /\ UNCHANGED <<built, bundle>> /\ work[t].pc = "built"
  BY DEF MarkBuilt, PC, Storing, facts
<1>2. t \in bundle
  BY <1>1, KnowsOwner DEF OwnerTrue
<1>3. QED
  BY <1>1, <1>2, BeginsFan, UndurablyFits DEF MarkBuilt

LEMMA OwnerActsFit ==
    ASSUME Inv, Grow, NEW t \in Attempts, OwnerActs(t)
    PROVE  Fits(t)
  BY SkipFits, SubmitFits, WriteIntentFits, ReportFits, WriteBundleFits, MarkBuiltFits,
     FailsFits, BuildFits DEF OwnerActs, Record

-----------------------------------------------------------------------------
(***************************************************************************)
(* Reconciliation, by what it finds.                                       *)
(***************************************************************************)
LEMMA ReconcilerKnows ==
    ASSUME Inv
    PROVE  /\ Reconciler \in Threads /\ Reconciler \notin Attempts
           /\ Typed /\ work[Reconciler] \in Work /\ ThreadTrue(work[Reconciler])
<1>1. Reconciler \in Threads /\ Reconciler \notin Attempts
  BY ConstantsAre DEF Threads
<1>2. QED
  BY <1>1, InvIs

LEMMA ReconcilerFits ==
    ASSUME Inv, Moved(Reconciler), ThreadTrue(work[Reconciler])',
           At(Reconciler)' \in {At(Reconciler), None} \cup {a \in Attempts : Free(a)}
    PROVE  Fits(Reconciler)
  BY ReconcilerKnows DEF Fits

\* The channels are resumed, the event of it first.
LEMMA ResumedFits ==
    ASSUME Inv, Grow, Working(work[Reconciler]), NEW a \in Attempts, a = At(Reconciler),
           NEW s \in [ChannelSet -> ChannelStates], Good(a, s),
           \/ Onward(Reconciler, FanOut(work[Reconciler], s, TRUE))
           \/ Onward(Reconciler, Require(FanOut(work[Reconciler], s, TRUE), {"RESUMED"}, "fan")),
           UNCHANGED built
    PROVE  Fits(Reconciler)
<1>1. PICK v \in Work : v = work[Reconciler]
  BY ReconcilerKnows
<1>2. PICK f : f = FanOut(v, s, TRUE)
  OBVIOUS
<1>3. Unresolved(s) \in SUBSET ChannelSet
  BY DEF Unresolved
<1>4. f \in Work
  BY <1>2, <1>3, PutPc, PutStates, PutTodo, PutDurable DEF FanOut, Places
<1>5. f.pc = "fan" /\ f.at = v.at /\ f.states = s
  BY <1>2 DEF Work, FanOut
<1>6. PICK r : r = Require(f, {"RESUMED"}, "fan")
  OBVIOUS
<1>7. {"RESUMED"} \in SUBSET Events
  BY DEF Events
<1>8. /\ r \in Work /\ r.pc = "events" /\ r.at = f.at /\ r.states = f.states
      /\ r.then = "fan"
  BY <1>4, <1>6, <1>7, RequireIs DEF Places
<1>9. UNCHANGED live /\ (Step(Reconciler, f) \/ Step(Reconciler, r))
  BY <1>1, <1>2, <1>6 DEF Onward
<1>10. Moved(Reconciler) /\ (work'[Reconciler] = f \/ work'[Reconciler] = r)
  BY <1>4, <1>8, <1>9, ReconcilerKnows, StepIs
<1>11. /\ work'[Reconciler].at = a /\ work'[Reconciler].states = s
       /\ \/ work'[Reconciler].pc = "fan"
          \/ work'[Reconciler].pc = "events" /\ work'[Reconciler].then = "fan"
  BY <1>1, <1>5, <1>8, <1>10 DEF At
<1>12. Good(a, s)' /\ s # None
  BY GrowKeeps, ConstantsAre
<1>13. Good(work[Reconciler].at, work[Reconciler].states)'
  BY <1>11, <1>12 DEF Good
<1>14. QED
  BY <1>9, <1>10, <1>11, <1>12, <1>13, ReconcilerKnows, FanGoes

LEMMA ReadFits ==
    ASSUME Inv, Grow, Read
    PROVE  Fits(Reconciler)
<1>1. /\ work[Reconciler].pc = "read" /\ Working(work[Reconciler])
      /\ At(Reconciler) \in Attempts
      /\ Onward(Reconciler, Resumption(At(Reconciler)))
      /\ UNCHANGED <<built, bundle, intent>>
  BY ReconcilerKnows, InvIs DEF Read, PC, R, Working, facts, files
<1>2. UNCHANGED live /\ Step(Reconciler, Resumption(At(Reconciler)))
  BY <1>1 DEF Onward
<1>3. PICK a \in Attempts : a = At(Reconciler)
  BY <1>1
<1>4. PICK v \in Work : v = work[Reconciler]
  BY ReconcilerKnows
<1>5. CASE intent[a] = None
  <2>1. Step(Reconciler, Idle)
    BY <1>2, <1>3, <1>5 DEF Resumption
  <2>2. Moved(Reconciler) /\ work'[Reconciler] = Idle
    BY <2>1, IdleType, ReconcilerKnows, StepIs
  <2>3. ThreadTrue(work[Reconciler])'
    BY <2>2, IdleIs DEF ThreadTrue, Working, Eventing, Fanning, Closing
  <2>4. At(Reconciler)' = None
    BY <2>2, IdleIs DEF At
  <2>5. QED
    BY <2>2, <2>3, <2>4, ReconcilerFits
<1>6. ASSUME intent[a] # None
      PROVE  Fits(Reconciler)
  <2>1. PICK f \in Intents : f = intent[a] /\ Says(a, f)
    BY <1>6, FileIs
  <2>2. f.pending \in SUBSET Events /\ f.stage \in {"INTENT", "BUILT", "FINAL", "TERMINAL"}
        /\ f.channels \in [ChannelSet -> ChannelStates] \cup {None}
    BY <2>1 DEF Intents
  <2>3. f # None
    BY <1>6, <2>1
  <2>4. CASE f.stage = "FINAL"
    <3>1. PICK w : w = Require(v, f.pending, "final")
      OBVIOUS
    <3>2. w \in Work /\ w.pc = "events" /\ w.at = v.at /\ w.then = "final"
      BY <2>2, <3>1, RequireIs DEF Places
    <3>3. Step(Reconciler, w)
      BY <1>2, <1>3, <1>4, <2>1, <2>3, <2>4, <3>1 DEF Resumption, R
    <3>4. Moved(Reconciler) /\ work'[Reconciler] = w
      BY <3>2, <3>3, ReconcilerKnows, StepIs
    <3>5. Handed(a) /\ work'[Reconciler].at = At(Reconciler)
      BY <1>4, <2>1, <2>4, <3>2, <3>4 DEF Says, At
    <3>6. QED
      BY <1>1, <1>2, <1>3, <3>2, <3>4, <3>5, ReconcilerKnows, StillHanded, CloseGoes
  <2>5. CASE f.stage = "TERMINAL"
    <3>1. PICK w : w = Require(v, f.pending, "release")
      OBVIOUS
    <3>2. w \in Work /\ w.pc = "events" /\ w.at = v.at /\ w.then = "release"
      BY <2>2, <3>1, RequireIs DEF Places
    <3>3. Step(Reconciler, w)
      BY <1>2, <1>3, <1>4, <2>1, <2>3, <2>5, <3>1 DEF Resumption, R
    <3>4. Moved(Reconciler) /\ work'[Reconciler] = w
      BY <3>2, <3>3, ReconcilerKnows, StepIs
    <3>5. work'[Reconciler].at = At(Reconciler)
      BY <1>4, <3>2, <3>4 DEF At
    <3>6. QED
      BY <1>1, <1>2, <3>2, <3>4, <3>5, ReconcilerKnows, ReleaseGoes
  <2>6. CASE f.stage = "BUILT"
    <3>1. PICK s \in [ChannelSet -> ChannelStates] : s = f.channels /\ Good(a, s)
      BY <2>1, <2>2, <2>6 DEF Says
    <3>2. \/ Onward(Reconciler, FanOut(work[Reconciler], s, TRUE))
          \/ Onward(Reconciler, Require(FanOut(work[Reconciler], s, TRUE), {"RESUMED"}, "fan"))
      BY <1>2, <1>3, <2>1, <2>3, <2>6, <3>1 DEF Resumption, R, Onward
    <3>3. QED
      BY <1>1, <1>3, <3>1, <3>2, ResumedFits
  <2>7. CASE f.stage = "INTENT" /\ a \in bundle
    <3>1. Goto(Reconciler, "adopt")
      BY <1>2, <1>3, <2>1, <2>3, <2>7 DEF Resumption, R, Goto
    <3>2. Moved(Reconciler) /\ work'[Reconciler].pc = "adopt" /\ work'[Reconciler].at = a
      BY <1>3, <3>1, ReconcilerKnows, GotoIs DEF Places, Carries, At
    <3>3. built'[a] # None
      BY <1>1, <2>7 DEF Inv, FileTrue
    <3>4. ThreadTrue(work[Reconciler])'
      BY <3>2, <3>3 DEF ThreadTrue, Working, Eventing, Fanning, Closing
    <3>5. At(Reconciler)' = At(Reconciler)
      BY <1>3, <3>2 DEF At
    <3>6. QED
      BY <3>2, <3>4, <3>5, ReconcilerFits
  <2>8. CASE f.stage = "INTENT" /\ a \notin bundle
    <3>1. PICK e \in {"UNCERTAIN", "LOST"} :
             Step(Reconciler, Terminalize(work[Reconciler], e))
      BY <1>2, <1>3, <2>1, <2>3, <2>8 DEF Resumption, R
    <3>2. e \in Events
      BY DEF Events
    <3>3. /\ Moved(Reconciler) /\ work'[Reconciler].pc = "mark"
          /\ work'[Reconciler].at = work[Reconciler].at
          /\ work'[Reconciler].event = e /\ work'[Reconciler].marked = FALSE
      BY <1>1, <3>1, <3>2, ReconcilerKnows, TerminalizeIs
    <3>4. work'[Reconciler].at = At(Reconciler)
      BY <3>3 DEF At
    <3>5. QED
      BY <1>1, <1>2, <3>2, <3>3, <3>4, ReconcilerKnows, MarkGoes
  <2>9. QED
    BY <2>2, <2>4, <2>5, <2>6, <2>7, <2>8
<1>7. QED
  BY <1>5, <1>6

LEMMA ResumesFit ==
    ASSUME Inv, Grow, Adopt \/ Restore
    PROVE  Fits(Reconciler)
<1>1. /\ Working(work[Reconciler]) /\ UNCHANGED built
      /\ work[Reconciler].pc \in {"adopt", "restore"}
      /\ Onward(Reconciler, Resumed(At(Reconciler)))
  BY DEF Adopt, Restore, PC, R, Working, facts
<1>2. At(Reconciler) \in Attempts /\ built[At(Reconciler)] # None
  BY <1>1, ReconcilerKnows DEF ThreadTrue, At
<1>3. PICK a \in Attempts : a = At(Reconciler)
  BY <1>2
<1>4. PICK s \in [ChannelSet -> ChannelStates] : s = built[a] /\ Good(a, s)
  BY <1>2, <1>3, BuiltIsGood
<1>5. Onward(Reconciler, Require(FanOut(work[Reconciler], s, TRUE), {"RESUMED"}, "fan"))
  BY <1>1, <1>3, <1>4 DEF Resumed, R
<1>6. QED
  BY <1>1, <1>3, <1>4, <1>5, ResumedFits

\* Reconciliation turns to an attempt that is not admitted and has left a file.
LEMMA TurnsFit ==
    ASSUME Inv, NEW a \in Attempts, a \notin live, intent[a] # None \/ built[a] # None,
           NEW p \in {"read", "restore"}, p = "restore" => built'[a] # None,
           Step(Reconciler, [Idle EXCEPT !.pc = p, !.at = a])
    PROVE  Fits(Reconciler)
<1>1. PICK w : w = [Idle EXCEPT !.pc = p, !.at = a]
  OBVIOUS
<1>2. w \in Work
  BY <1>1, IdleType, PutPc, PutAt DEF Places
<1>3. w.pc = p /\ w.at = a
  BY <1>1, IdleType DEF Work
<1>4. Moved(Reconciler) /\ work'[Reconciler] = w
  BY <1>1, <1>2, ReconcilerKnows, StepIs
<1>5. ThreadTrue(work[Reconciler])'
  BY <1>3, <1>4 DEF ThreadTrue, Working, Eventing, Fanning, Closing
<1>6. Free(a)
  BY KnowsOwner DEF Free, PC, AdmissionTrue
<1>7. QED
  BY <1>3, <1>4, <1>5, <1>6, ReconcilerFits DEF At

LEMMA ScansFit ==
    ASSUME Inv, NEW a \in Attempts, Scan(a) \/ ScanOrphan(a)
    PROVE  Fits(Reconciler)
<1>1. CASE Scan(a)
  <2>1. /\ intent[a] # None /\ a \notin live
        /\ Step(Reconciler, [Idle EXCEPT !.pc = "read", !.at = a])
    BY <1>1 DEF Scan, R, Onward
  <2>2. QED
    BY <2>1, TurnsFit
<1>2. CASE ScanOrphan(a) /\ a \notin live /\ a \in bundle
  <2>1. Step(Reconciler, [Idle EXCEPT !.pc = "restore", !.at = a]) /\ UNCHANGED built
    BY <1>2 DEF ScanOrphan, R, facts
  <2>2. built[a] # None
    BY <1>2 DEF Inv, FileTrue
  <2>3. QED
    BY <1>2, <2>1, <2>2, TurnsFit
<1>3. CASE ScanOrphan(a) /\ (a \in live \/ a \notin bundle)
  <2>1. Step(Reconciler, Idle)
    BY <1>3 DEF ScanOrphan, R
  <2>2. Moved(Reconciler) /\ work'[Reconciler] = Idle
    BY <2>1, IdleType, ReconcilerKnows, StepIs
  <2>3. ThreadTrue(work[Reconciler])'
    BY <2>2, IdleIs DEF ThreadTrue, Working, Eventing, Fanning, Closing
  <2>4. At(Reconciler)' = None
    BY <2>2, IdleIs DEF At
  <2>5. QED
    BY <2>2, <2>3, <2>4, ReconcilerFits
<1>4. QED
  BY <1>1, <1>2, <1>3

LEMMA ActsFit ==
    ASSUME Inv, Grow, EvidentStep, NEW t \in Threads, Acts(t)
    PROVE  Fits(t)
<1>1. CASE t = Reconciler /\ Reconciles
  BY <1>1, ReadFits, ResumesFit, ScansFit DEF Reconciles
<1>2. QED
  BY <1>1, OwnerActsFit, AdvanceFits DEF Acts

-----------------------------------------------------------------------------
(***************************************************************************)
(* What the acting thread leaves alone, and the type of what it changes.   *)
(***************************************************************************)
LEMMA FaultsCounted ==
    ASSUME NEW t \in Threads, Acts(t)
    PROVE  (Fault \/ UNCHANGED faults) /\ UNCHANGED <<temp, deaths>>
<1>1. CASE t \in Attempts /\ Skip(t)
  BY <1>1 DEF Skip, Fine, Refused, Marks
<1>2. CASE t \in Attempts /\ Submit(t)
  BY <1>2 DEF Submit, files
<1>3. CASE t \in Attempts /\ WriteIntent(t)
  BY <1>3 DEF WriteIntent, Fine, Refused
<1>4. CASE t \in Attempts /\ Report(t)
  BY <1>4 DEF Report, Fine, Takes, files
<1>5. CASE t \in Attempts /\ WriteBundle(t)
  BY <1>5 DEF WriteBundle, Fine
<1>6. CASE t \in Attempts /\ MarkBuilt(t)
  BY <1>6 DEF MarkBuilt, Fine, Refused, Rewrites, Absent
<1>7. CASE t \in Attempts /\ Fails(t)
  BY <1>7 DEF Fails, files
<1>8. CASE t \in Attempts /\ Build(t)
  BY <1>8 DEF Build, files
<1>9. CASE t = Reconciler /\ Read
  BY <1>9 DEF Read, files
<1>10. CASE t = Reconciler /\ Adopt
  BY <1>10 DEF Adopt, Fine, Refused, Rewrites
<1>11. CASE t = Reconciler /\ Restore
  BY <1>11 DEF Restore, Fine, Refused
<1>12. ASSUME t = Reconciler, NEW b \in Attempts, Scan(b)
      PROVE  (Fault \/ UNCHANGED faults) /\ UNCHANGED <<temp, deaths>>
  BY <1>12 DEF Scan, files
<1>13. ASSUME t = Reconciler, NEW b \in Attempts, ScanOrphan(b)
      PROVE  (Fault \/ UNCHANGED faults) /\ UNCHANGED <<temp, deaths>>
  BY <1>13 DEF ScanOrphan, files
<1>14. CASE Enqueue(t)
  BY <1>14 DEF Enqueue, Fine, files
<1>15. CASE Checkpoint(t)
  BY <1>15 DEF Checkpoint, Fine, Refused, Rewrites, Absent
<1>16. CASE FannedOut(t)
  BY <1>16 DEF FannedOut, files
<1>17. CASE NextEvent(t)
  BY <1>17 DEF NextEvent, Fine, Refused, Rewrites, Absent
<1>18. CASE EventsDone(t)
  BY <1>18 DEF EventsDone, files
<1>19. CASE Emit(t)
  BY <1>19 DEF Emit, Fine, Takes, files
<1>20. CASE Witness(t)
  BY <1>20 DEF Witness, Fine, Refused, Marks
<1>21. CASE Resolve(t)
  BY <1>21 DEF Resolve, Fine, Refused, Rewrites, Absent
<1>22. CASE Settle(t)
  BY <1>22 DEF Settle, Fine
<1>23. CASE Complete(t)
  BY <1>23 DEF Complete, Fine
<1>24. CASE MarkFinal(t)
  BY <1>24 DEF MarkFinal, Fine, Refused, Rewrites
<1>25. CASE DeleteBundle(t)
  BY <1>25 DEF DeleteBundle, Fine
<1>26. CASE DeleteIntent(t)
  BY <1>26 DEF DeleteIntent, Fine, Refused
<1>27. CASE Mark(t)
  BY <1>27 DEF Mark, Fine, Refused, Marks
<1>28. CASE Tell(t)
  BY <1>28 DEF Tell, Fine, Takes, files
<1>29. CASE Release(t)
  BY <1>29 DEF Release, Fine, Refused
<1>30. QED
  BY <1>1, <1>2, <1>3, <1>4, <1>5, <1>6, <1>7, <1>8, <1>9, <1>10, <1>11, <1>12, <1>13,
      <1>14, <1>15, <1>16, <1>17, <1>18, <1>19, <1>20, <1>21, <1>22, <1>23, <1>24,
      <1>25, <1>26, <1>27, <1>28, <1>29, ZenonT(60) DEF Acts, OwnerActs, Record,
      Reconciles, Advance

\* Other attempts are built by their own owners.
FactsStep(t) ==
    /\ built' \in [Attempts -> Expectations \cup {None}]
    /\ born' \in [Attempts -> 0..MaxDeaths]
    /\ \A a \in Attempts \ {t} : built'[a] = built[a]

LEMMA FactsKept ==
    ASSUME Inv, NEW t \in Threads, Acts(t)
    PROVE  FactsStep(t)
<1>1. CASE t \in Attempts /\ (Skip(t) \/ Submit(t))
  BY <1>1 DEF Skip, Submit, Inv, Typed, FactsStep
<1>2. CASE t \in Attempts /\ Build(t)
  BY <1>2 DEF Build, Inv, Typed, FactsStep
<1>3. CASE UNCHANGED facts
  BY <1>3 DEF facts, Inv, Typed, FactsStep
<1>4. QED
  BY <1>1, <1>2, <1>3, ZenonT(60) DEF Acts, OwnerActs, Record, Reconciles, Advance,
      WriteIntent, Report, WriteBundle, MarkBuilt, Fails, Read, Adopt, Restore, Scan,
      ScanOrphan, Enqueue, Checkpoint, FannedOut, NextEvent, EventsDone, Emit,
      Witness, Resolve, Settle, Complete, MarkFinal, DeleteBundle, DeleteIntent, Mark,
      Tell, Release

OutboxStep ==
    /\ taken' \subseteq Attempts \X ChannelSet
    /\ outbox' \subseteq Attempts \X Events /\ sent' \subseteq Attempts \X Events
    /\ archived' \subseteq Attempts \X (ChannelSet \cup Events)

LEMMA OutboxesKept ==
    ASSUME Inv, NEW t \in Threads, Acts(t)
    PROVE  OutboxStep
<1>1. CASE t \in Attempts /\ Report(t)
  BY <1>1 DEF Report, Takes, Events, Inv, Typed, OutboxStep
<1>2. CASE Enqueue(t)
  <2>1. At(t) \in Attempts /\ work[t].todo \subseteq ChannelSet
    BY <1>2, InvIs DEF Enqueue, PC, Working, Work
  <2>2. QED
    BY <1>2, <2>1 DEF Enqueue, Inv, Typed, OutboxStep
<1>3. CASE Emit(t)
  <2>1. At(t) \in Attempts /\ work[t].event \in Events
    BY <1>3, InvIs DEF Emit, PC, Working, ThreadTrue
  <2>2. QED
    BY <1>3, <2>1 DEF Emit, Takes, Inv, Typed, OutboxStep
<1>4. CASE Tell(t)
  <2>1. At(t) \in Attempts /\ work[t].event \in Events
    BY <1>4, InvIs DEF Tell, PC, Working, ThreadTrue
  <2>2. QED
    BY <1>4, <2>1 DEF Tell, Takes, Inv, Typed, OutboxStep
<1>5. CASE UNCHANGED outboxes
  BY <1>5 DEF outboxes, Inv, Typed, OutboxStep
<1>6. QED
  BY <1>1, <1>2, <1>3, <1>4, <1>5, ZenonT(60) DEF Acts, OwnerActs, Record, Reconciles,
      Advance, Skip, Submit, WriteIntent, WriteBundle, MarkBuilt, Fails, Build, Read,
      Adopt, Restore, Scan, ScanOrphan, Checkpoint, FannedOut, NextEvent, EventsDone,
      Witness, Resolve, Settle, Complete, MarkFinal, DeleteBundle, DeleteIntent, Mark,
      Release

LossStep ==
    /\ undurable' \subseteq Attempts /\ undurable \subseteq undurable'
    /\ replaced' \subseteq Attempts \X Events /\ replaced \subseteq replaced'
    /\ orphans' \subseteq Attempts

LEMMA LossesKept ==
    ASSUME Inv, NEW t \in Threads, Acts(t)
    PROVE  LossStep
<1>1. CASE Tell(t)
  <2>1. At(t) \in Attempts
    BY <1>1, InvIs DEF Tell, PC, Working
  <2>2. QED
    BY <1>1, <2>1 DEF Tell, Inv, Typed, LossStep
<1>2. CASE t = Reconciler /\ Restore
  <2>1. At(R) \in Attempts /\ (intent[At(R)] # None => intent[At(R)].pending \subseteq Events)
    BY <1>2, InvIs, FileIs DEF Restore, PC, R, Working, Intents
  <2>2. QED
    BY <1>2, <2>1 DEF Restore, Inv, Typed, LossStep
<1>3. CASE UNCHANGED <<orphans, losses>>
  BY <1>3 DEF losses, Inv, Typed, LossStep
<1>4. ASSUME NEW b \in Attempts, ScanOrphan(b)
      PROVE  LossStep
  BY <1>4 DEF ScanOrphan, losses, Inv, Typed, LossStep
<1>5. QED
  BY <1>1, <1>2, <1>3, <1>4, ZenonT(60) DEF Acts, OwnerActs, Record, Reconciles,
      Advance, Skip, Submit, WriteIntent, Report, WriteBundle, MarkBuilt, Fails,
      Build, Read, Adopt, Scan, Enqueue, Checkpoint, FannedOut, NextEvent, EventsDone,
      Emit, Witness, Resolve, Settle, Complete, MarkFinal, DeleteBundle, DeleteIntent,
      Mark, Release

LEMMA TypedStep ==
    ASSUME Inv, Grow, NEW t \in Threads, Acts(t), Moved(t), FileStep(t), BundleStep(t),
           CompletedStep, LiveStep(t)
    PROVE  Typed'
<1>1. intent' \in [Attempts -> Intents \cup {None}]
  BY FilesAre
<1>2. faults' \in 0..MaxFaults /\ deaths' \in 0..MaxDeaths /\ temp' \subseteq Attempts
  BY FaultsCounted, ConstantsAre DEF Fault, Inv, Typed
<1>3. FactsStep(t) /\ OutboxStep /\ LossStep
  BY FactsKept, OutboxesKept, LossesKept
<1>4. bundle' \subseteq Attempts /\ completed' \subseteq Attempts /\ live' \subseteq Attempts
  BY DEF BundleStep, CompletedStep, LiveStep
<1>5. QED
  BY <1>1, <1>2, <1>3, <1>4 DEF Typed, Moved, FactsStep, OutboxStep, LossStep

-----------------------------------------------------------------------------
(***************************************************************************)
(* The other threads.  Two threads are at one attempt only while a skipped *)
(* slot, which never has a bundle, is recorded beside reconciliation: what *)
(* a thread counts on is left alone by the one that acts.                  *)
(***************************************************************************)
LEMMA ActsAwake ==
    ASSUME NEW t \in Threads, Acts(t), t \in Attempts
    PROVE  Working(work[t]) \/ work[t].pc = "idle"
<1>1. t # Reconciler
  BY ConstantsAre
<1>2. CASE Skip(t)
  BY <1>2 DEF Skip, PC, Working
<1>3. CASE Submit(t)
  BY <1>3 DEF Submit, PC, Working
<1>4. CASE WriteIntent(t)
  BY <1>4 DEF WriteIntent, PC, Working
<1>5. CASE Report(t)
  BY <1>5 DEF Report, PC, Working
<1>6. CASE WriteBundle(t)
  BY <1>6 DEF WriteBundle, PC, Working
<1>7. CASE MarkBuilt(t)
  BY <1>7 DEF MarkBuilt, PC, Working
<1>8. CASE Fails(t)
  BY <1>8 DEF Fails, PC, Working
<1>9. CASE Build(t)
  BY <1>9 DEF Build, PC, Working
<1>10. CASE Enqueue(t)
  BY <1>10 DEF Enqueue, PC, Working
<1>11. CASE Checkpoint(t)
  BY <1>11 DEF Checkpoint, PC, Working
<1>12. CASE FannedOut(t)
  BY <1>12 DEF FannedOut, PC, Working
<1>13. CASE NextEvent(t)
  BY <1>13 DEF NextEvent, PC, Working
<1>14. CASE EventsDone(t)
  BY <1>14 DEF EventsDone, PC, Working
<1>15. CASE Emit(t)
  BY <1>15 DEF Emit, PC, Working
<1>16. CASE Witness(t)
  BY <1>16 DEF Witness, PC, Working
<1>17. CASE Resolve(t)
  BY <1>17 DEF Resolve, PC, Working
<1>18. CASE Settle(t)
  BY <1>18 DEF Settle, PC, Working
<1>19. CASE Complete(t)
  BY <1>19 DEF Complete, PC, Working
<1>20. CASE MarkFinal(t)
  BY <1>20 DEF MarkFinal, PC, Working
<1>21. CASE DeleteBundle(t)
  BY <1>21 DEF DeleteBundle, PC, Working
<1>22. CASE DeleteIntent(t)
  BY <1>22 DEF DeleteIntent, PC, Working
<1>23. CASE Mark(t)
  BY <1>23 DEF Mark, PC, Working
<1>24. CASE Tell(t)
  BY <1>24 DEF Tell, PC, Working
<1>25. CASE Release(t)
  BY <1>25 DEF Release, PC, Working
<1>26. QED
  BY <1>1, <1>2, <1>3, <1>4, <1>5, <1>6, <1>7, <1>8, <1>9, <1>10, <1>11, <1>12, <1>13,
      <1>14, <1>15, <1>16, <1>17, <1>18, <1>19, <1>20, <1>21, <1>22, <1>23, <1>24,
      <1>25, ZenonT(60) DEF Acts, OwnerActs, Record, Advance

LEMMA Alone ==
    ASSUME Inv, NEW t \in Threads, Acts(t), NEW u \in Threads, u # t,
           Working(work[u]), built[At(u)] # None
    PROVE  At(t) # At(u)
<1>1. At(u) \in Attempts
  BY InvIs
<1>2. CASE u \in Attempts
  <2>1. At(u) = u /\ At(Reconciler) # u
    BY <1>2, KnowsOwner DEF AdmissionTrue
  <2>2. t \in Attempts => At(t) = t
    BY KnowsOwner
  <2>3. QED
    BY <2>1, <2>2 DEF Threads
<1>3. CASE u = Reconciler
  <2>1. t \in Attempts /\ At(t) = t
    BY <1>3, KnowsOwner DEF Threads
  <2>2. Working(work[t]) \/ work[t].pc = "idle"
    BY <2>1, ActsAwake
  <2>3. SUFFICES ASSUME At(Reconciler) = t
                 PROVE  FALSE
    BY <1>3, <2>1
  <2>4. built[t] # None
    BY <1>3, <2>3
  <2>5. QED
    BY <2>1, <2>2, <2>3, <2>4, KnowsOwner DEF AdmissionTrue
<1>4. QED
  BY <1>2, <1>3 DEF Threads

Around(t) ==
    /\ Grow /\ EvidentStep /\ FileStep(t) /\ BundleStep(t) /\ LiveStep(t) /\ Fits(t)
    /\ FactsStep(t) /\ undurable \subseteq undurable'

\* What a thread that does not act counts on stays, as long as the file it is
\* about to remove is left alone.
LEMMA ThreadStays ==
    ASSUME Grow, EvidentStep, NEW v \in Work, ThreadTrue(v),
           v.pc \in {"unbundle", "unlink"} => intent'[v.at] = intent[v.at]
    PROVE  ThreadTrue(v)'
<1>1. Working(v) => v.at \in Attempts
  BY DEF ThreadTrue
<1>2. Fanning(v) => v.states # None /\ Good(v.at, v.states)'
  <2>1. Fanning(v) => Working(v) /\ v.states # None /\ Good(v.at, v.states)
    BY DEF ThreadTrue, Fanning, Eventing, Working
  <2>2. QED
    BY <1>1, <2>1, GrowKeeps
<1>3. Closing(v) => Handed(v.at)'
  <2>1. Closing(v) => Working(v) /\ Handed(v.at)
    BY DEF ThreadTrue, Closing, Eventing, Working
  <2>2. QED
    BY <1>1, <2>1, GrowKeeps
<1>4. v.pc \in {"adopt", "restore"} => built'[v.at] # None
  BY <1>1 DEF ThreadTrue, Grow, Working
<1>5. v.pc \in {"unbundle", "unlink"} /\ intent'[v.at] # None => intent'[v.at].pending = {}
  BY DEF ThreadTrue
<1>6. v.pc = "resolve" => <<v.at, v.event>> \in outbox' \cup sent' \cup archived'
  BY DEF ThreadTrue, Grow
<1>7. v.pc = "tell" /\ v.marked => Evident(v.at)'
  BY <1>1 DEF ThreadTrue, Working, EvidentStep
<1>8. QED
  BY <1>1, <1>2, <1>3, <1>4, <1>5, <1>6, <1>7 DEF ThreadTrue

LEMMA OtherThread ==
    ASSUME Inv, NEW t \in Threads, Acts(t), Around(t), NEW u \in Threads, u # t
    PROVE  ThreadTrue(work[u])'
<1>1. PICK v \in Work : v = work[u] /\ ThreadTrue(v) /\ work'[u] = v
  BY InvIs DEF Around, Fits, Moved
<1>2. ASSUME v.pc \in {"unbundle", "unlink"}
      PROVE  intent'[v.at] = intent[v.at]
  <2>1. Working(v) /\ Closing(v)
    BY <1>2 DEF Working, Closing
  <2>2. v.at \in Attempts /\ Handed(v.at)
    BY <1>1, <2>1 DEF ThreadTrue
  <2>3. At(u) = v.at /\ built[v.at] # None
    BY <1>1, <2>2 DEF At, Handed
  <2>4. At(t) # v.at
    BY <1>1, <2>1, <2>3, Alone
  <2>5. QED
    BY <2>2, <2>4, FilesAre DEF Around
<1>3. ThreadTrue(v)'
  BY <1>1, <1>2, ThreadStays DEF Around
<1>4. QED
  BY <1>1, <1>3

LEMMA ReconcilerNear ==
    ASSUME Inv, NEW t \in Threads, Fits(t), NEW a \in Attempts, At(Reconciler) # a,
           a \in live \/ PC(a) = "idle"
    PROVE  At(Reconciler)' # a
<1>1. CASE t = Reconciler
  BY <1>1, ConstantsAre DEF Fits, Free
<1>2. CASE t # Reconciler
  BY <1>2, ReconcilerKnows DEF Fits, Moved, At
<1>3. QED
  BY <1>1, <1>2

LEMMA OtherOwner ==
    ASSUME Inv, NEW t \in Threads, Acts(t), Around(t), NEW a \in Attempts, a # t
    PROVE  OwnerTrue(a, work[a])' /\ AdmissionTrue(a, work[a])'
<1>1. a \in Threads /\ At(a) = a
  BY KnowsOwner
<1>2. PICK v \in Work : /\ v = work[a] /\ ThreadTrue(v) /\ work'[a] = v
                        /\ OwnerTrue(a, v) /\ AdmissionTrue(a, v)
  BY <1>1, KnowsOwner DEF Around, Fits, Moved
<1>3. Grow /\ EvidentStep /\ built'[a] = built[a] /\ (a \in live' <=> a \in live)
  BY DEF Around, FactsStep, LiveStep
<1>4. OwnerTrue(a, v)'
  <2>1. Releasing(v) => Evident(a)'
    BY <1>2, <1>3 DEF OwnerTrue, EvidentStep
  <2>2. ASSUME v.pc = "built" \/ (Fanning(v) /\ v.durable)
        PROVE  a \in bundle'
    <3>1. a \in bundle
      BY <1>2, <2>2 DEF OwnerTrue
    <3>2. built[a] # None
      BY <3>1 DEF Inv, FileTrue
    <3>3. Working(v)
      BY <2>2 DEF Working, Fanning, Eventing
    <3>4. At(t) # a
      BY <1>1, <1>2, <3>2, <3>3, Alone
    <3>5. QED
      BY <3>1, <3>4 DEF Around, BundleStep
  <2>3. v.at = a /\ v.pc \notin {"read", "adopt", "restore"}
    BY <1>2 DEF OwnerTrue
  <2>4. QED
    BY <2>1, <2>2, <2>3 DEF OwnerTrue
<1>5. AdmissionTrue(a, v)'
  <2>1. a \in live \/ v.pc = "idle" => At(Reconciler) # a
    BY <1>2 DEF AdmissionTrue
  <2>2. a \in live \/ v.pc = "idle" => At(Reconciler)' # a
    BY <1>2, <2>1, ReconcilerNear DEF Around, PC
  <2>3. v.pc \in {"idle", "intent"} => intent'[a] = None
    <3>1. v.pc \in {"idle", "intent"} => intent[a] = None /\ (a \in live \/ v.pc = "idle")
      BY <1>2 DEF AdmissionTrue, Preparing
    <3>2. v.pc \in {"idle", "intent"} => At(t) # a
      BY <2>1, <3>1, KnowsOwner DEF Threads
    <3>3. QED
      BY <3>1, <3>2, FilesAre DEF Around
  <2>4. QED
    BY <1>2, <1>3, <2>2, <2>3 DEF AdmissionTrue
<1>6. QED
  BY <1>2, <1>4, <1>5

LEMMA OtherFiles ==
    ASSUME Inv, NEW t \in Threads, Acts(t), Around(t), CompletedStep, NEW a \in Attempts
    PROVE  FileTrue(a)'
<1>1. intent'[a] # None => Says(a, intent[a])'
  BY FilesAre DEF Around, Kept
<1>2. a \in bundle' => built'[a] # None
  BY DEF Around, BundleStep
<1>3. a \in completed' => Handed(a)'
  BY DEF CompletedStep
<1>4. PC(a)' = "done" => Evident(a)' \/ a \in undurable'
  <2>1. CASE a = t
    BY <2>1 DEF Around, Fits
  <2>2. CASE a # t
    <3>1. PC(a)' = PC(a)
      BY <2>2, KnowsOwner DEF Around, Fits, Moved, PC
    <3>2. PC(a) = "done" => Evident(a) \/ a \in undurable
      BY DEF Inv, FileTrue
    <3>3. QED
      BY <3>1, <3>2 DEF Around, EvidentStep
  <2>3. QED
    BY <2>1, <2>2
<1>5. QED
  BY <1>1, <1>2, <1>3, <1>4 DEF FileTrue

LEMMA ActsKeep ==
    ASSUME Inv, NEW t \in Threads, Acts(t)
    PROVE  Inv'
<1>1. Grow
  BY ActsGrow
<1>2. FileStep(t) /\ BundleStep(t) /\ CompletedStep /\ LiveStep(t) /\ FactsStep(t) /\ LossStep
  BY <1>1, FilesKept, BundlesKept, CompletedKept, LiveKept, FactsKept, LossesKept
<1>3. EvidentStep
  BY <1>1, <1>2, ActsEvident
<1>4. Fits(t)
  BY <1>1, <1>3, ActsFit
<1>5. Around(t) /\ Moved(t)
  BY <1>1, <1>2, <1>3, <1>4 DEF Around, LossStep, Fits
<1>6. Typed'
  BY <1>1, <1>2, <1>5, TypedStep
<1>7. ASSUME NEW u \in Threads
      PROVE  ThreadTrue(work[u])'
  BY <1>4, <1>5, OtherThread DEF Fits
<1>8. ASSUME NEW a \in Attempts
      PROVE  OwnerTrue(a, work[a])' /\ AdmissionTrue(a, work[a])'
  BY <1>4, <1>5, OtherOwner DEF Fits
<1>9. ASSUME NEW a \in Attempts
      PROVE  FileTrue(a)'
  BY <1>2, <1>5, OtherFiles
<1>10. QED
  BY <1>6, <1>7, <1>8, <1>9 DEF Inv

-----------------------------------------------------------------------------
(***************************************************************************)
(* The steps of nobody's thread.                                           *)
(***************************************************************************)
\* No thread moves and no file is touched: the outbox drains, orphans are listed.
LEMMA QuietKeeps ==
    ASSUME Inv, Grow, Typed', UNCHANGED <<files, facts, live, work, undurable>>
    PROVE  Inv'
<1>1. \A a \in Attempts : Kept(a)
  BY SameFile DEF files
<1>2. EvidentStep
  BY <1>1, EvidentKept DEF EvidentStep, files
<1>3. ASSUME NEW t \in Threads
      PROVE  ThreadTrue(work[t])'
  <2>1. PICK v \in Work : v = work[t] /\ ThreadTrue(v) /\ work'[t] = v
    BY InvIs
  <2>2. ThreadTrue(v)'
    BY <1>2, <2>1, ThreadStays DEF files
  <2>3. QED
    BY <2>1, <2>2
<1>4. ASSUME NEW a \in Attempts
      PROVE  OwnerTrue(a, work[a])' /\ AdmissionTrue(a, work[a])'
  <2>1. PICK v \in Work : v = work[a] /\ OwnerTrue(a, v) /\ AdmissionTrue(a, v) /\ work'[a] = v
    BY KnowsOwner
  <2>2. OwnerTrue(a, v)'
    BY <1>2, <2>1 DEF OwnerTrue, EvidentStep, files
  <2>3. AdmissionTrue(a, v)'
    BY <2>1 DEF AdmissionTrue, At, files, facts
  <2>4. QED
    BY <2>1, <2>2, <2>3
<1>5. ASSUME NEW a \in Attempts
      PROVE  FileTrue(a)'
  <2>1. FileTrue(a)
    BY DEF Inv
  <2>2. intent'[a] # None => Says(a, intent[a])'
    BY <1>1 DEF Kept
  <2>3. a \in bundle' => built'[a] # None
    BY <2>1 DEF FileTrue, files, facts
  <2>4. a \in completed' => Handed(a)'
    BY <2>1, GrowKeeps DEF FileTrue, files
  <2>5. PC(a)' = "done" => Evident(a)' \/ a \in undurable'
    BY <1>2, <2>1 DEF FileTrue, EvidentStep, PC
  <2>6. QED
    BY <2>2, <2>3, <2>4, <2>5 DEF FileTrue
<1>6. QED
  BY <1>3, <1>4, <1>5 DEF Inv

LEMMA ListOrphansKeeps ==
    ASSUME Inv, ListOrphans
    PROVE  Inv'
<1>1. /\ UNCHANGED <<files, facts, outboxes, live, work, losses, deaths, faults>>
      /\ orphans' \subseteq bundle
  BY DEF ListOrphans
<1>2. Grow
  BY <1>1 DEF Grow, facts, outboxes
<1>3. Typed'
  BY <1>1 DEF Inv, Typed, files, facts, outboxes, losses
<1>4. QED
  BY <1>1, <1>2, <1>3, QuietKeeps DEF losses

LEMMA DrainKeeps ==
    ASSUME Inv, Drain
    PROVE  Inv'
<1>1. PICK item \in outbox : Upload(item) \/ Acknowledged(item) \/ Rejected(item)
  BY DEF Drain
<1>2. Grow
  BY <1>1, DrainGrows
<1>3. UNCHANGED <<files, facts, taken, live, work, orphans, losses, deaths>>
  BY <1>1 DEF Upload, Acknowledged, Rejected
<1>4. faults' \in 0..MaxFaults
  BY <1>1, ConstantsAre DEF Upload, Acknowledged, Rejected, Fault, Inv, Typed
<1>5. item \in Attempts \X Events /\ item \in Attempts \X (ChannelSet \cup Events)
  BY DEF Inv, Typed
<1>6. /\ outbox' \subseteq outbox /\ sent' \subseteq sent \cup {item}
      /\ archived' \subseteq archived \cup {item}
  BY <1>1 DEF Upload, Acknowledged, Rejected
<1>7. OutboxStep
  BY <1>3, <1>5, <1>6 DEF OutboxStep, Inv, Typed
<1>8. Typed'
  BY <1>3, <1>4, <1>7 DEF Inv, Typed, OutboxStep, files, facts, losses
<1>9. QED
  BY <1>2, <1>3, <1>8, QuietKeeps DEF losses

\* A process dies: what is left is in the files and the outboxes.
LEMMA ProcessDiesKeeps ==
    ASSUME Inv, ProcessDies
    PROVE  Inv'
<1>1. /\ UNCHANGED <<intent, bundle, completed, facts, outboxes, losses, faults>>
      /\ live' = {} /\ orphans' = {} /\ deaths' \in 0..MaxDeaths
      /\ temp' \subseteq Attempts
  <2>1. temp' \subseteq Attempts
    <3>1. PICK started \in SUBSET {a \in Attempts : PC(a) = "bundle"} : temp' = temp \cup started
      BY DEF ProcessDies
    <3>2. QED
      BY <3>1 DEF Inv, Typed
  <2>2. deaths' \in 0..MaxDeaths
    <3>1. deaths < MaxDeaths /\ deaths' = deaths + 1
      BY DEF ProcessDies
    <3>2. deaths \in 0..MaxDeaths /\ MaxDeaths \in Nat
      BY ConstantsAre DEF Inv, Typed
    <3>3. QED
      BY <3>1, <3>2
  <2>3. QED
    BY <2>1, <2>2 DEF ProcessDies
<1>2. Grow
  BY <1>1 DEF Grow, facts, outboxes
<1>3. ASSUME NEW t \in Threads
      PROVE  /\ work'[t] \in Work /\ ~Working(work'[t])
             /\ \/ t = Reconciler /\ work'[t].pc = "idle" /\ work'[t].at = None
                \/ t # Reconciler /\ work'[t] = work[t]
                \/ t # Reconciler /\ work'[t].pc = "dead" /\ work'[t].at = t
  <2>1. CASE t = Reconciler
    <3>1. work'[t] = Idle
      BY <2>1 DEF ProcessDies
    <3>2. QED
      BY <2>1, <3>1, IdleIs, IdleType DEF Working
  <2>2. CASE t # Reconciler /\ PC(t) \in {"idle", "done"}
    <3>1. work'[t] = work[t]
      BY <2>2 DEF ProcessDies
    <3>2. QED
      BY <2>2, <3>1, InvIs DEF Working, PC
  <2>3. CASE t # Reconciler /\ PC(t) \notin {"idle", "done"}
    <3>1. PICK w : w = [Idle EXCEPT !.at = t, !.pc = "dead"]
      OBVIOUS
    <3>2. work'[t] = w
      BY <2>3, <3>1 DEF ProcessDies
    <3>3. w \in Work
      BY <2>3, <3>1, IdleType, PutAt, PutPc DEF Places, Threads
    <3>4. w.pc = "dead" /\ w.at = t
      BY <3>1, IdleType DEF Work
    <3>5. QED
      BY <2>3, <3>2, <3>3, <3>4 DEF Working
  <2>4. QED
    BY <2>1, <2>2, <2>3
<1>4. work' \in [Threads -> Work]
  <2>1. work' = [t \in Threads |-> work'[t]]
    BY DEF ProcessDies
  <2>2. QED
    BY <1>3, <2>1
<1>5. Typed'
  BY <1>1, <1>4 DEF Inv, Typed, facts, outboxes, losses
<1>6. EvidentStep
  BY <1>1, SameFile, EvidentKept, <1>2 DEF EvidentStep
<1>7. ASSUME NEW t \in Threads
      PROVE  ThreadTrue(work[t])'
  <2>1. ~Working(work'[t])
    BY <1>3
  <2>2. QED
    BY <2>1 DEF ThreadTrue, Working, Eventing, Fanning, Closing
<1>8. At(Reconciler)' = None
  BY <1>3, ReconcilerKnows DEF At
<1>9. ASSUME NEW a \in Attempts
      PROVE  OwnerTrue(a, work[a])' /\ AdmissionTrue(a, work[a])'
  <2>1. a \in Threads /\ a # Reconciler /\ None # a
    BY KnowsOwner, ConstantsAre
  <2>2. OwnerTrue(a, work[a]) /\ AdmissionTrue(a, work[a])
    BY KnowsOwner
  <2>3. ~Working(work'[a]) /\ (work'[a] = work[a] \/ (work'[a].pc = "dead" /\ work'[a].at = a))
    BY <1>3, <2>1
  <2>4. OwnerTrue(a, work[a])'
    BY <2>2, <2>3 DEF OwnerTrue, Working, Releasing, Fanning, Eventing
  <2>5. AdmissionTrue(a, work[a])'
    BY <1>1, <1>8, <2>1, <2>2, <2>3 DEF AdmissionTrue, Working, Preparing, Storing, facts
  <2>6. QED
    BY <2>4, <2>5
<1>10. ASSUME NEW a \in Attempts
       PROVE  FileTrue(a)'
  <2>1. FileTrue(a)
    BY DEF Inv
  <2>2. intent'[a] # None => Says(a, intent[a])'
    BY <1>1, <1>2, SameFile DEF Kept
  <2>3. a \in bundle' => built'[a] # None
    BY <1>1, <2>1 DEF FileTrue, facts
  <2>4. a \in completed' => Handed(a)'
    BY <1>1, <1>2, <2>1, GrowKeeps DEF FileTrue
  <2>5. PC(a)' = "done" => PC(a) = "done"
    <3>1. a \in Threads /\ a # Reconciler
      BY KnowsOwner
    <3>2. QED
      BY <1>3, <3>1 DEF PC
  <2>6. PC(a)' = "done" => Evident(a)' \/ a \in undurable'
    BY <1>1, <1>6, <2>1, <2>5 DEF FileTrue, EvidentStep, losses
  <2>7. QED
    BY <2>2, <2>3, <2>4, <2>6 DEF FileTrue
<1>11. QED
  BY <1>5, <1>7, <1>9, <1>10 DEF Inv

LEMMA InvInit ==
    ASSUME Init
    PROVE  Inv
<1>1. ASSUME NEW t \in Threads
      PROVE  /\ work[t] \in Work /\ work[t].pc = "idle"
             /\ work[t].at = IF t = Reconciler THEN None ELSE t
  <2>1. CASE t = Reconciler
    BY <2>1, IdleType, IdleIs DEF Init
  <2>2. CASE t # Reconciler
    <3>1. PICK w : w = [Idle EXCEPT !.at = t]
      OBVIOUS
    <3>2. w \in Work /\ w.at = t /\ w.pc = "idle"
      BY <2>2, <3>1, IdleType, IdleIs, PutAt DEF Threads, Work
    <3>3. QED
      BY <2>2, <3>1, <3>2 DEF Init
  <2>3. QED
    BY <2>1, <2>2
<1>2. work \in [Threads -> Work]
  <2>1. work = [t \in Threads |-> work[t]]
    BY DEF Init
  <2>2. QED
    BY <1>1, <2>1
<1>3. Typed
  BY <1>2, ConstantsAre DEF Init, Typed
<1>4. ASSUME NEW t \in Threads
      PROVE  ThreadTrue(work[t])
  <2>1. work[t].pc = "idle"
    BY <1>1
  <2>2. QED
    BY <2>1 DEF ThreadTrue, Working, Eventing, Fanning, Closing
<1>5. ASSUME NEW a \in Attempts
      PROVE  FileTrue(a) /\ OwnerTrue(a, work[a]) /\ AdmissionTrue(a, work[a])
  <2>1. a \in Threads /\ a # Reconciler /\ a # None /\ Reconciler \in Threads
    BY ConstantsAre DEF Threads
  <2>2. work[a].pc = "idle" /\ work[a].at = a /\ At(Reconciler) = None
    BY <1>1, <2>1 DEF At
  <2>3. intent[a] = None /\ built[a] = None /\ bundle = {} /\ completed = {} /\ live = {}
    BY DEF Init
  <2>4. FileTrue(a)
    BY <2>2, <2>3 DEF FileTrue, PC
  <2>5. OwnerTrue(a, work[a])
    BY <2>2 DEF OwnerTrue, Releasing, Fanning, Eventing
  <2>6. AdmissionTrue(a, work[a])
    BY <2>1, <2>2, <2>3 DEF AdmissionTrue, Working, Preparing, Storing
  <2>7. QED
    BY <2>4, <2>5, <2>6
<1>6. QED
  BY <1>3, <1>4, <1>5 DEF Inv

LEMMA InvStep ==
    ASSUME Inv, [Next]_vars
    PROVE  Inv'
<1>1. ASSUME NEW t \in Threads, Acts(t)
      PROVE  Inv'
  BY <1>1, ActsKeep
<1>2. CASE UNCHANGED vars
  <2>1. /\ UNCHANGED <<files, facts, outboxes, live, work, losses, deaths, faults>>
        /\ orphans' = orphans
    BY <1>2 DEF vars
  <2>2. Grow
    BY <2>1 DEF Grow, facts, outboxes
  <2>3. Typed'
    BY <2>1 DEF Inv, Typed, files, facts, outboxes, losses
  <2>4. QED
    BY <2>1, <2>2, <2>3, QuietKeeps DEF losses
<1>3. QED
  BY <1>1, <1>2, NextIs, ListOrphansKeeps, DrainKeeps, ProcessDiesKeeps

LEMMA InvAlways == Spec => []Inv
<1>1. Init => Inv
  BY InvInit
<1>2. Inv /\ [Next]_vars => Inv'
  BY InvStep
<1>3. QED
  BY <1>1, <1>2, PTL DEF Spec

-----------------------------------------------------------------------------
(***************************************************************************)
(* The type invariant: a file that says BUILT has its channels, a bundle   *)
(* what build expected of them, and a thread that works an attempt.        *)
(***************************************************************************)
THEOREM TypeCorrect == Spec => []TypeOK
<1>1. ASSUME Inv
      PROVE  TypeOK
  <2>1. Typed
    BY <1>1, InvIs DEF Inv
  <2>2. \A a \in Attempts : intent[a] # None /\ intent[a].stage = "BUILT" => intent[a].channels # None
    BY <1>1, FileIs DEF Says
  <2>3. \A a \in Attempts : a \in bundle => built[a] # None
    BY <1>1 DEF Inv, FileTrue
  <2>4. \A t \in Threads : PC(t) \notin {"idle", "done", "dead"} => At(t) \in Attempts
    BY <1>1, InvIs DEF PC, Working
  <2>5. QED
    BY <2>1, <2>2, <2>3, <2>4 DEF TypeOK, Typed
<1>2. QED
  BY <1>1, InvAlways, PTL

(***************************************************************************)
(* The files and outboxes implement the evidence ledger.                   *)
(***************************************************************************)
Forwards == UNCHANGED <<taken, sent>> \/ UNCHANGED <<intent, bundle, built, outbox, archived, replaced>>

LEMMA ActsForward ==
    ASSUME NEW t \in Threads, Acts(t)
    PROVE  Forwards
<1>1. CASE Enqueue(t)
  BY <1>1 DEF Enqueue, Forwards, files, facts, losses
<1>2. CASE UNCHANGED <<taken, sent>>
  BY <1>2 DEF Forwards
<1>3. CASE UNCHANGED outboxes
  BY <1>3 DEF Forwards, outboxes
<1>4. QED
  BY <1>1, <1>2, <1>3, ZenonT(60) DEF Acts, OwnerActs, Record, Reconciles, Advance, Skip,
      Submit, WriteIntent, Report, WriteBundle, MarkBuilt, Fails, Build, Read, Adopt,
      Restore, Scan, ScanOrphan, Checkpoint, FannedOut, NextEvent, EventsDone, Emit,
      Witness, Resolve, Settle, Complete, MarkFinal, DeleteBundle, DeleteIntent, Mark,
      Tell, Release

LEMMA LedgerRewrite ==
    ASSUME Inv, Grow, UNCHANGED <<taken, sent>>, replaced \subseteq replaced',
           \A a \in Attempts : Kept(a) /\ (a \in bundle /\ a \notin bundle' => Handed(a))
    PROVE  Ledger!Rewrite
<1>1. ASSUME NEW a \in Attempts, NEW c \in Expected(a), a \in bundle
      PROVE  <<a, c>> \in Bundled' \cup taken \cup archived'
  <2>1. CASE a \in bundle'
    <3>1. built'[a] = built[a]
      BY <1>1 DEF Inv, FileTrue, Grow
    <3>2. c \in Expected(a)'
      BY <3>1 DEF Expected
    <3>3. QED
      BY <2>1, <3>2 DEF Bundled
  <2>2. CASE a \notin bundle'
    BY <1>1, <2>2 DEF Handed, Grow
  <2>3. QED
    BY <2>1, <2>2
<1>2. Bundled \subseteq Bundled' \cup taken \cup archived'
  BY <1>1 DEF Bundled, Inv, Typed
<1>3. outbox \subseteq outbox' \cup sent \cup archived'
  BY DEF Grow
<1>4. ASSUME NEW a \in Attempts, intent[a] # None, NEW e \in intent[a].pending
      PROVE  <<a, e>> \in Held' \cup outbox' \cup sent \cup archived' \cup replaced'
  <2>1. /\ intent'[a] # None
        /\ e \in intent'[a].pending \/ <<a, e>> \in outbox \cup sent \cup archived \cup replaced'
    BY <1>4 DEF Kept
  <2>2. CASE e \in intent'[a].pending
    BY <2>1, <2>2 DEF Held
  <2>3. CASE <<a, e>> \in outbox \cup sent \cup archived \cup replaced'
    BY <1>3, <2>3 DEF Grow
  <2>4. QED
    BY <2>1, <2>2, <2>3
<1>5. Held \subseteq Held' \cup outbox' \cup sent \cup archived' \cup replaced'
  BY <1>4 DEF Held
<1>6. archived \subseteq archived'
  BY DEF Grow
<1>7. QED
  BY <1>2, <1>3, <1>5, <1>6 DEF Ledger!Rewrite

LEMMA LedgerStep ==
    ASSUME Inv, [Next]_vars
    PROVE  [Ledger!Next]_Ledger!ledger
<1>1. Grow
  BY GrowStep
<1>2. ASSUME UNCHANGED <<intent, bundle, built, outbox, archived, replaced>>
      PROVE  Ledger!Deliver
  <2>1. UNCHANGED <<Bundled, Held>>
    BY <1>2 DEF Bundled, Held, Expected
  <2>2. taken \subseteq taken' /\ sent \subseteq sent'
    BY <1>1 DEF Grow
  <2>3. QED
    BY <1>2, <2>1, <2>2 DEF Ledger!Deliver
<1>3. ASSUME NEW t \in Threads, Acts(t)
      PROVE  Ledger!Next
  <2>1. FileStep(t) /\ BundleStep(t) /\ LossStep
    BY <1>1, <1>3, FilesKept, BundlesKept, LossesKept
  <2>2. \A a \in Attempts : Kept(a) /\ (a \in bundle /\ a \notin bundle' => Handed(a))
    BY <1>1, <2>1, FilesAre DEF BundleStep
  <2>3. UNCHANGED <<taken, sent>> => Ledger!Rewrite
    BY <1>1, <2>1, <2>2, LedgerRewrite DEF LossStep
  <2>4. QED
    BY <1>2, <1>3, <2>3, ActsForward DEF Forwards, Ledger!Next
<1>4. ASSUME UNCHANGED <<intent, bundle, taken, sent, replaced>>
      PROVE  Ledger!Rewrite
  <2>1. \A a \in Attempts : Kept(a)
    BY <1>1, <1>4, SameFile
  <2>2. QED
    BY <1>1, <1>4, <2>1, LedgerRewrite
<1>5. CASE Drain
  <2>1. PICK item \in outbox : Upload(item) \/ Acknowledged(item) \/ Rejected(item)
    BY <1>5 DEF Drain
  <2>2. CASE Upload(item)
    BY <1>2, <2>2 DEF Upload, files, facts, losses, Ledger!Next
  <2>3. CASE Acknowledged(item) \/ Rejected(item)
    BY <1>4, <2>3 DEF Acknowledged, Rejected, files, losses, Ledger!Next
  <2>4. QED
    BY <2>1, <2>2, <2>3
<1>6. CASE ListOrphans \/ ProcessDies \/ UNCHANGED vars
  BY <1>4, <1>6 DEF ListOrphans, ProcessDies, vars, files, outboxes, losses, Ledger!Next
<1>7. QED
  BY <1>3, <1>5, <1>6, NextIs

(***************************************************************************)
(* Whatever is refused and wherever processes die, channel bytes leave the *)
(* bundle only for an outbox or an archive, and an event leaves its intent *)
(* only for the event outbox, the server, or, when a restored intent       *)
(* replaces the marker, the count of what was given up.                    *)
(***************************************************************************)
THEOREM EvidenceIsDurable == Spec => DurableEvidence
<1>1. Init => Ledger!Init
  <2> SUFFICES ASSUME Init PROVE Ledger!Init
    OBVIOUS
  <2>1. /\ bundle = {} /\ outbox = {} /\ taken = {} /\ sent = {} /\ archived = {} /\ replaced = {}
        /\ \A a \in Attempts : intent[a] = None
    BY DEF Init
  <2>2. Bundled = {} /\ Held = {}
    BY <2>1 DEF Bundled, Held
  <2>3. QED
    BY <2>1, <2>2 DEF Ledger!Init
<1>2. Inv /\ [Next]_vars => [Ledger!Next]_Ledger!ledger
  BY LedgerStep
<1>3. QED
  BY <1>1, <1>2, InvAlways, PTL DEF Spec, DurableEvidence, Ledger!Spec

(***************************************************************************)
(* Once the bytes of a channel or an event of a capture are in a file, an  *)
(* outbox, an archive or on the server, one of these has them forever, in  *)
(* every process that follows, or the event was given up when a restored   *)
(* intent replaced the marker that held it.                                *)
(***************************************************************************)
THEOREM CaptureNeverForgotten ==
    ASSUME NEW CONSTANT item
    PROVE  Spec => Ledger!NeverForgotten(item)
<1> DEFINE Safe == Ledger!Accounted(item)
<1>1. Safe /\ [Ledger!Next]_Ledger!ledger => Safe'
  BY DEF Ledger!Accounted, Ledger!Next, Ledger!Deliver, Ledger!Rewrite, Ledger!ledger
<1>2. Spec => [][Ledger!Next]_Ledger!ledger
  BY EvidenceIsDurable, PTL DEF DurableEvidence, Ledger!Spec
<1>3. QED
  <2> HIDE DEF Safe
  <2>1. Spec => [](Safe => []Safe)
    BY <1>1, <1>2, PTL
  <2>2. QED
    BY <2>1 DEF Safe, Ledger!NeverForgotten

\* No step, of a thread or of none, takes away the last of it.
LEMMA EvidentNext ==
    ASSUME Inv, [Next]_vars
    PROVE  EvidentStep
<1>1. Grow
  BY GrowStep
<1>2. ASSUME NEW t \in Threads, Acts(t)
      PROVE  EvidentStep
  BY <1>1, <1>2, FilesKept, BundlesKept, ActsEvident
<1>3. CASE UNCHANGED <<intent, bundle>>
  BY <1>1, <1>3, SameFile, EvidentKept DEF EvidentStep
<1>4. CASE Drain
  BY <1>3, <1>4 DEF Drain, Upload, Acknowledged, Rejected, files
<1>5. CASE ListOrphans \/ ProcessDies \/ UNCHANGED vars
  BY <1>3, <1>5 DEF ListOrphans, ProcessDies, vars, files
<1>6. QED
  BY <1>2, <1>4, <1>5, NextIs

(***************************************************************************)
(* An attempt that is over left its files, an event, or all its bytes in   *)
(* the outboxes, unless both stores refused its outcome; a completed key   *)
(* stands for bytes that were all taken; and no step takes away the last   *)
(* thing there is to see of an attempt.                                    *)
(***************************************************************************)
THEOREM OutcomesEvident == Spec => OutcomeIsEvident
<1>1. Inv => \A a \in Attempts : PC(a) = "done" => Evident(a) \/ a \in undurable
  BY DEF Inv, FileTrue
<1>2. Inv => \A a \in completed : Handed(a)
  BY DEF Inv, FileTrue, Typed
<1>3. Inv /\ [Next]_vars => [\A a \in Attempts : Evident(a) => Evident(a)']_vars
  BY EvidentNext DEF EvidentStep
<1>4. QED
  BY <1>1, <1>2, <1>3, InvAlways, PTL DEF Spec, OutcomeIsEvident

=============================================================================
