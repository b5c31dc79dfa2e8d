--------------------------- MODULE CaptureJournal ---------------------------
(***************************************************************************)
(* The files of a capture attempt.  The owner of the attempt (poll thread, *)
(* finisher or control lane, as CaptureCoordinator decides) writes an      *)
(* intent, later the bundle with the bytes of every channel, gives each    *)
(* channel its bytes, and removes bundle and intent when all are settled.  *)
(* A process may end between any two of these steps; reconciliation, one   *)
(* thread, walks the files and goes on from what it finds.  Outcomes are   *)
(* events: held in the intent first, then given to the event outbox, which *)
(* uploads them.                                                           *)
(*                                                                         *)
(* Both threads run the same code (fan-out, required events, terminal      *)
(* outcome, finalization), so those steps take the thread as parameter.    *)
(* A bundle is known by the channels it expects; a refused write stands    *)
(* for a full disk, a failed rename, a journal or outbox at its cap.       *)
(* Unreadable files, health counters and the events CAPTURE_STUCK and      *)
(* LATE_DELIVERED are left out.                                            *)
(***************************************************************************)
EXTENDS Naturals, FiniteSets, Sequences

CONSTANTS
    Attempts,
    Channels,      \* CHANNELS, in the order of the fan-out
    Expectations,  \* what build may expect of the channels
    Reconciler, None,
    MaxDeaths,     \* bound: process deaths
    MaxFaults      \* bound: refused writes, colliding channels, rejected events

ChannelSet == {Channels[i] : i \in DOMAIN Channels}

\* Mutation: a channel that refused its bytes counts as settled.
SettledOrRefused == {"ENQUEUED", "NOT_EXPECTED", "COLLISION_RETAINED", "BUILD_FAILED", "FAILED_RETRYABLE"}

\* Settled states; BUILD_FAILED counts once its event is durable.
Settled == {"ENQUEUED", "NOT_EXPECTED", "COLLISION_RETAINED", "BUILD_FAILED"}

ChannelStates == Settled \cup {"PENDING", "FAILED_RETRYABLE"}

Events == {"SKIPPED", "FAILED", "FAULT", "CHANNEL_LOST", "LOST", "UNCERTAIN",
           "RESUMED", "BUILD_FAILED", "COLLISION"}

Intents ==
    [stage : {"INTENT", "BUILT", "FINAL", "TERMINAL"},
     channels : [ChannelSet -> ChannelStates] \cup {None}, pending : SUBSET Events]

ASSUME JournalAssumption ==
    /\ Reconciler \notin Attempts /\ None \notin Attempts
    /\ Channels \in Seq(STRING)
    /\ Expectations \subseteq [ChannelSet -> {"PENDING", "NOT_EXPECTED", "BUILD_FAILED"}]
    /\ MaxDeaths \in Nat /\ MaxFaults \in Nat

ASSUME AbsentAssumption ==
    /\ \A states \in [ChannelSet -> ChannelStates] : states # None
    /\ \A f \in Intents : f # None

Threads == Attempts \cup {Reconciler}

VARIABLES
    intent,    \* intent[a]: the file, None when there is none
    bundle,    \* attempts whose bundle file exists
    temp,      \* attempts whose bundle was being written when the process died
    built,     \* built[a]: the channel expectations its bundle carries
    born,      \* born[a]: the run the attempt belongs to
    taken,     \* <<a, c>>: bytes the outbox of channel c has taken
    outbox,    \* <<a, e>>: event files waiting for upload
    sent,      \* events the server stores
    archived,  \* channel bytes and events in a quarantine directory
    completed, \* attempts whose key is among the completed ones
    live,      \* attempts that are admitted
    work,      \* what each thread is doing
    orphans,   \* bundles without intent, as reconciliation listed them
    undurable, \* attempts whose outcome both stores refused
    replaced,  \* events in a marker that a restored intent overwrote
    deaths, faults

files == <<intent, bundle, temp, completed>>
facts == <<built, born>>
outboxes == <<taken, outbox, sent, archived>>
losses == <<undurable, replaced>>
vars == <<files, facts, outboxes, live, work, orphans, losses, deaths, faults>>

Idle == [pc |-> "idle", at |-> None, states |-> None, todo |-> {}, durable |-> TRUE,
         needs |-> {}, then |-> "none", event |-> "none", marked |-> FALSE, clean |-> TRUE]

Init ==
    /\ intent = [a \in Attempts |-> None]
    /\ bundle = {} /\ temp = {} /\ completed = {}
    /\ built = [a \in Attempts |-> None] /\ born = [a \in Attempts |-> 0]
    /\ taken = {} /\ outbox = {} /\ sent = {} /\ archived = {}
    /\ live = {}
    /\ work = [t \in Threads |-> IF t = Reconciler THEN Idle ELSE [Idle EXCEPT !.at = t]]
    /\ orphans = {}
    /\ undurable = {} /\ replaced = {}
    /\ deaths = 0 /\ faults = 0

Fault == faults < MaxFaults /\ faults' = faults + 1
Fine == faults' = faults

At(t) == work[t].at
PC(t) == work[t].pc
Step(t, rest) == work' = [work EXCEPT ![t] = rest]
Goto(t, pc) == Step(t, [work[t] EXCEPT !.pc = pc])

\* The owner's callback ends and the admission is released; reconciliation goes
\* on to the next file.
Ended(t) == IF t = Reconciler THEN Idle ELSE [Idle EXCEPT !.at = t, !.pc = "done"]
Finish(t) == Step(t, Ended(t)) /\ live' = live \ {t}
Onward(t, rest) == Step(t, rest) /\ UNCHANGED live

-----------------------------------------------------------------------------
(***************************************************************************)
(* The journal's writes.                                                   *)
(***************************************************************************)
\* update: an intent that is there is rewritten, or the write is refused.
Rewrites(a, f) == intent[a] # None /\ intent' = [intent EXCEPT ![a] = f] /\ Fine
Refused == Fault /\ UNCHANGED intent
Absent(a) == intent[a] = None /\ Fine /\ UNCHANGED intent

\* markTerminal: the event joins what the file holds, or a marker is created.
Terminal(a, e) ==
    IF intent[a] = None THEN [stage |-> "TERMINAL", channels |-> None, pending |-> {e}]
    ELSE [intent[a] EXCEPT !.stage = "TERMINAL", !.pending = @ \cup {e}]

Marks(a, e) == intent' = [intent EXCEPT ![a] = Terminal(a, e)] /\ Fine

\* enqueueEvent: pending already, or newly enqueued.
Takes(a, e) == outbox' = outbox \cup {<<a, e>>} /\ Fine

Unresolved(states) ==
    {c \in ChannelSet : states[c] \in {"PENDING", "FAILED_RETRYABLE"}}

\* The channel that is earliest in the order of the fan-out.
First(c, todo) ==
    \E i \in DOMAIN Channels :
        Channels[i] = c /\ \A j \in DOMAIN Channels : Channels[j] \in todo => i <= j

\* fanOut begins with the channels that are not settled.
FanOut(w, states, durable) ==
    [w EXCEPT !.pc = "fan", !.states = states, !.todo = Unresolved(states), !.durable = durable]

\* The steps that need events go through them first.
Require(w, events, then) ==
    [w EXCEPT !.pc = "events", !.needs = events, !.then = then, !.clean = TRUE]

Terminalize(w, e) == [Idle EXCEPT !.at = w.at, !.pc = "mark", !.event = e]

-----------------------------------------------------------------------------
(***************************************************************************)
(* The owner, until the fan-out.                                           *)
(***************************************************************************)
\* checkpointSkipped: the slot is taken.  The marker holds the event of the skip
\* before anything else; without admission, what follows runs beside
\* reconciliation.
Skip(a) ==
    /\ PC(a) = "idle"
    /\ born' = [born EXCEPT ![a] = deaths]
    /\ Marks(a, "SKIPPED") \/ Refused
    /\ Onward(a, Terminalize(work[a], "SKIPPED"))
    /\ UNCHANGED <<bundle, temp, completed, built, outboxes, orphans, losses, deaths>>

Submit(a) ==
    /\ PC(a) = "idle"
    /\ born' = [born EXCEPT ![a] = deaths]
    /\ live' = live \cup {a}
    /\ Goto(a, "intent")
    /\ UNCHANGED <<files, built, outboxes, orphans, losses, deaths, faults>>

WriteIntent(a) ==
    /\ PC(a) = "intent"
    /\ \/ /\ intent' = [intent EXCEPT ![a] = [stage |-> "INTENT", channels |-> None, pending |-> {}]]
          /\ Fine
          /\ Onward(a, [work[a] EXCEPT !.pc = "computing"])
       \/ Refused /\ Onward(a, [work[a] EXCEPT !.pc = "report", !.then = "computing"])
    /\ UNCHANGED <<bundle, temp, completed, facts, outboxes, orphans, losses, deaths>>

\* JOURNAL_STORAGE_FAULT goes to the event outbox only.
Report(a) ==
    /\ PC(a) = "report"
    /\ Takes(a, "FAULT") \/ (Fault /\ UNCHANGED outbox)
    /\ Onward(a, IF work[a].then = "fan" THEN FanOut(work[a], built[a], FALSE)
                 ELSE [work[a] EXCEPT !.pc = "computing", !.then = "none"])
    /\ UNCHANGED <<files, facts, taken, sent, archived, orphans, losses, deaths>>

\* onFailed, onFinisherRejected, and a build that throws.
Fails(a) ==
    /\ PC(a) = "computing"
    /\ Onward(a, Terminalize(work[a], "FAILED"))
    /\ UNCHANGED <<files, facts, outboxes, orphans, losses, deaths, faults>>

Build(a) ==
    /\ PC(a) = "computing"
    /\ \E states \in Expectations : built' = [built EXCEPT ![a] = states]
    /\ Goto(a, "bundle")
    /\ UNCHANGED <<files, born, outboxes, live, orphans, losses, deaths, faults>>

Undurably(a) == Onward(a, [work[a] EXCEPT !.pc = "report", !.then = "fan"])

WriteBundle(a) ==
    /\ PC(a) = "bundle"
    /\ \/ bundle' = bundle \cup {a} /\ Fine /\ Goto(a, "built") /\ UNCHANGED live
       \/ Fault /\ UNCHANGED bundle /\ Undurably(a)
    /\ UNCHANGED <<intent, temp, completed, facts, outboxes, orphans, losses, deaths>>

\* Without an intent to update the attempt counts as not durable, as well.
MarkBuilt(a) ==
    /\ PC(a) = "built"
    /\ \/ /\ Rewrites(a, [intent[a] EXCEPT !.stage = "BUILT", !.channels = built[a]])
          /\ Onward(a, FanOut(work[a], built[a], TRUE))
       \/ (Absent(a) \/ Refused) /\ Undurably(a)
    /\ UNCHANGED <<bundle, temp, completed, facts, outboxes, orphans, losses, deaths>>

-----------------------------------------------------------------------------
(***************************************************************************)
(* fanOut: each unsettled channel is given its bytes, then the file takes  *)
(* its new state, which a refused write or a crash may prevent.            *)
(***************************************************************************)
Enqueue(t) ==
    /\ PC(t) = "fan"
    /\ \E c \in work[t].todo :
       LET item == <<At(t), c>>
           Becomes(state) ==
               Onward(t, [work[t] EXCEPT !.states[c] = state, !.todo = @ \ {c},
                                         !.pc = IF work[t].durable THEN "checkpoint" ELSE "fan"])
       IN /\ First(c, work[t].todo)
          /\ \/ taken' = taken \cup {item} /\ Fine /\ Becomes("ENQUEUED") /\ UNCHANGED archived
             \/ archived' = archived \cup {item} /\ Fault /\ Becomes("COLLISION_RETAINED") /\ UNCHANGED taken
             \/ Fault /\ Becomes("FAILED_RETRYABLE") /\ UNCHANGED <<taken, archived>>
    /\ UNCHANGED <<files, facts, outbox, sent, orphans, losses, deaths>>

Checkpoint(t) ==
    /\ PC(t) = "checkpoint"
    /\ \/ Rewrites(At(t), [intent[At(t)] EXCEPT !.channels = work[t].states])
       \/ Absent(At(t)) \/ Refused
    /\ Goto(t, "fan")
    /\ UNCHANGED <<bundle, temp, completed, facts, outboxes, live, orphans, losses, deaths>>

In(states, state) == \E c \in ChannelSet : states[c] = state

\* completeIfResolved begins with the events that must not be missing.
Outcomes(states) ==
    {e \in {"BUILD_FAILED", "COLLISION"} :
        In(states, IF e = "COLLISION" THEN "COLLISION_RETAINED" ELSE "BUILD_FAILED")}

FannedOut(t) ==
    /\ PC(t) = "fan" /\ work[t].todo = {}
    /\ Onward(t, Require(work[t], Outcomes(work[t].states), "settle"))
    /\ UNCHANGED <<files, facts, outboxes, orphans, losses, deaths, faults>>

(***************************************************************************)
(* requireEvent (on the way to "fan" or "settle"): the file holds the      *)
(* event before the outbox is asked.  deliverPending (on the way to the    *)
(* end of the file): the outbox is asked for what the file holds.          *)
(***************************************************************************)
Requiring(t) == work[t].then \in {"fan", "settle"}

NextEvent(t) ==
    /\ PC(t) = "events"
    /\ \E e \in work[t].needs :
        LET emit(held) == [work[t] EXCEPT !.pc = "emit", !.event = e, !.marked = held,
                                          !.needs = @ \ {e}]
            f == intent[At(t)]
        IN IF Requiring(t)
           THEN \/ Rewrites(At(t), [f EXCEPT !.pending = @ \cup {e}]) /\ Onward(t, emit(TRUE))
                \/ (Absent(At(t)) \/ Refused) /\ Onward(t, emit(FALSE))
           ELSE Onward(t, emit(TRUE)) /\ Fine /\ UNCHANGED intent
    /\ UNCHANGED <<bundle, temp, completed, facts, outboxes, orphans, losses, deaths>>

\* Nothing more to emit; a file whose events were not all taken stays.
EventsDone(t) ==
    /\ PC(t) = "events" /\ work[t].needs = {}
    /\ IF Requiring(t) \/ work[t].clean
       THEN Onward(t, [work[t] EXCEPT !.pc = work[t].then, !.then = "none", !.event = "none",
                                      !.marked = FALSE, !.clean = TRUE])
       ELSE Finish(t)
    /\ UNCHANGED <<files, facts, outboxes, orphans, losses, deaths, faults>>

Emit(t) ==
    /\ PC(t) = "emit"
    /\ LET held == work[t].marked
       IN \/ /\ Takes(At(t), work[t].event)
             /\ Goto(t, IF held THEN "resolve" ELSE "events")
          \/ /\ Fault /\ UNCHANGED outbox
             /\ Step(t, [work[t] EXCEPT !.clean = FALSE, !.pc = IF held THEN "events" ELSE "witness"])
    /\ UNCHANGED <<files, facts, taken, sent, archived, live, orphans, losses, deaths>>

\* Neither holds it: an evidence-only marker, which makes the file terminal.
Witness(t) ==
    /\ PC(t) = "witness"
    /\ Marks(At(t), work[t].event) \/ Refused
    /\ Goto(t, "events")
    /\ UNCHANGED <<bundle, temp, completed, facts, outboxes, live, orphans, losses, deaths>>

\* resolvePendingEvent.
Resolve(t) ==
    /\ PC(t) = "resolve"
    /\ \/ Rewrites(At(t), [intent[At(t)] EXCEPT !.pending = @ \ {work[t].event}])
       \/ Absent(At(t)) \/ Refused
    /\ Goto(t, "events")
    /\ UNCHANGED <<bundle, temp, completed, facts, outboxes, live, orphans, losses, deaths>>

(***************************************************************************)
(* The rest of completeIfResolved.                                         *)
(***************************************************************************)
\* A channel without bytes in its outbox waits for the next reconciliation, or
\* is declared lost when there is no bundle to resume it from.
Settle(t) ==
    /\ PC(t) = "settle"
    /\ LET resolved == \A c \in ChannelSet : work[t].states[c] \in Settled
       IN \/ /\ ~resolved
             /\ IF work[t].durable THEN Finish(t)
                ELSE Onward(t, Terminalize(work[t], "CHANNEL_LOST"))
             /\ UNCHANGED <<completed, faults>>
          \/ /\ resolved /\ intent[At(t)] = None
             /\ \/ completed' = completed \cup {At(t)} /\ Fine
                \/ Fault /\ UNCHANGED completed
             /\ Finish(t)
          \/ /\ resolved /\ intent[At(t)] # None
             /\ Onward(t, Require([Idle EXCEPT !.at = At(t)], intent[At(t)].pending, "complete"))
             /\ UNCHANGED <<completed, faults>>
    /\ UNCHANGED <<intent, bundle, temp, facts, outboxes, orphans, losses, deaths>>

\* markCompleted; an evidence-only marker is released, another file finalized.
Complete(t) ==
    /\ PC(t) = "complete"
    /\ \/ completed' = completed \cup {At(t)} /\ Fine
       \/ Fault /\ UNCHANGED completed
    /\ Goto(t, IF intent[At(t)].stage = "TERMINAL" THEN "release" ELSE "final")
    /\ UNCHANGED <<intent, bundle, temp, facts, outboxes, live, orphans, losses, deaths>>

(***************************************************************************)
(* finalizeAttempt: the stage, then the bundle, then the intent.           *)
(***************************************************************************)
MarkFinal(t) ==
    /\ PC(t) = "final"
    /\ LET f == intent[At(t)]
       IN \/ f.pending = {} /\ Rewrites(At(t), [f EXCEPT !.stage = "FINAL"])
             /\ Onward(t, [work[t] EXCEPT !.pc = "unbundle"])
          \/ f.pending = {} /\ Refused /\ Finish(t)
          \/ f.pending # {} /\ Finish(t) /\ Fine /\ UNCHANGED intent
    /\ UNCHANGED <<bundle, temp, completed, facts, outboxes, orphans, losses, deaths>>

DeleteBundle(t) ==
    /\ PC(t) = "unbundle"
    /\ \/ bundle' = bundle \ {At(t)} /\ Fine /\ Onward(t, [work[t] EXCEPT !.pc = "unlink"])
       \/ Fault /\ Finish(t) /\ UNCHANGED bundle
    /\ UNCHANGED <<intent, temp, completed, facts, outboxes, orphans, losses, deaths>>

DeleteIntent(t) ==
    /\ PC(t) = "unlink"
    /\ \/ intent' = [intent EXCEPT ![At(t)] = None] /\ Fine
       \/ Refused
    /\ Finish(t)
    /\ UNCHANGED <<bundle, temp, completed, facts, outboxes, orphans, losses, deaths>>

(***************************************************************************)
(* terminalizeExact: journal first, then the outbox; the marker goes only  *)
(* when both took the event.                                               *)
(***************************************************************************)
Mark(t) ==
    /\ PC(t) = "mark"
    /\ \/ Marks(At(t), work[t].event) /\ Onward(t, [work[t] EXCEPT !.pc = "tell", !.marked = TRUE])
       \/ Refused /\ Onward(t, [work[t] EXCEPT !.pc = "tell"])
    /\ UNCHANGED <<bundle, temp, completed, facts, outboxes, orphans, losses, deaths>>

\* Mutation: the marker is taken for enough, whatever the outbox says.
TellUnheard(t) ==
    /\ PC(t) = "tell"
    /\ \/ Takes(At(t), work[t].event)
       \/ Fault /\ UNCHANGED outbox
    /\ IF work[t].marked
       THEN Onward(t, [Require(work[t], {}, "release") EXCEPT !.pc = "resolve"])
       ELSE Finish(t)
    /\ UNCHANGED <<files, facts, taken, sent, archived, orphans, losses, deaths>>

Tell(t) ==
    /\ PC(t) = "tell"
    /\ \/ /\ Takes(At(t), work[t].event) /\ UNCHANGED undurable
          /\ IF work[t].marked
             THEN Onward(t, [Require(work[t], {}, "release") EXCEPT !.pc = "resolve"])
             ELSE Finish(t)
       \/ /\ Fault /\ UNCHANGED outbox
          /\ undurable' = IF work[t].marked THEN undurable ELSE undurable \cup {At(t)}
          /\ Finish(t)
    /\ UNCHANGED <<files, facts, taken, sent, archived, orphans, replaced, deaths>>

\* releaseTerminal.
Releasable(f) == f # None /\ f.stage = "TERMINAL" /\ f.pending = {}

Release(t) ==
    /\ PC(t) = "release"
    /\ IF Releasable(intent[At(t)])
       THEN (intent' = [intent EXCEPT ![At(t)] = None] /\ Fine) \/ Refused
       ELSE Fine /\ UNCHANGED intent
    /\ Finish(t)
    /\ UNCHANGED <<bundle, temp, completed, facts, outboxes, orphans, losses, deaths>>

-----------------------------------------------------------------------------
(***************************************************************************)
(* Reconciliation: first the intents, then the bundles without one.        *)
(***************************************************************************)
R == Reconciler

\* Mutation: only what an earlier run left is looked at.
ScanEarlierRuns(a) ==
    /\ PC(R) = "idle" /\ orphans = {}
    /\ intent[a] # None /\ a \notin live /\ born[a] # deaths
    /\ Onward(R, [Idle EXCEPT !.pc = "read", !.at = a])
    /\ UNCHANGED <<files, facts, outboxes, orphans, losses, deaths, faults>>

\* An attempt is asked for before its file is read.
Scan(a) ==
    /\ PC(R) = "idle" /\ orphans = {}
    /\ intent[a] # None /\ a \notin live
    /\ Onward(R, [Idle EXCEPT !.pc = "read", !.at = a])
    /\ UNCHANGED <<files, facts, outboxes, orphans, losses, deaths, faults>>

SameRun(a) == born[a] = deaths

\* What is done with an attempt that nobody owns, by the stage of its file.
Resumption(a) ==
    LET f == intent[a]
        w == work[R]
    IN CASE f = None -> Idle
         [] f # None /\ f.stage = "FINAL" -> Require(w, f.pending, "final")
         [] f # None /\ f.stage = "TERMINAL" -> Require(w, f.pending, "release")
         [] f # None /\ f.stage = "BUILT" ->
              LET fan == FanOut(w, f.channels, TRUE)
              IN IF fan.todo # {} /\ ~SameRun(a) THEN Require(fan, {"RESUMED"}, "fan") ELSE fan
         [] f # None /\ f.stage = "INTENT" ->
              IF a \in bundle THEN [w EXCEPT !.pc = "adopt"]
              ELSE Terminalize(w, IF SameRun(a) \/ a \in temp THEN "UNCERTAIN" ELSE "LOST")

Read ==
    /\ PC(R) = "read"
    /\ Onward(R, Resumption(At(R)))
    /\ UNCHANGED <<files, facts, outboxes, orphans, losses, deaths, faults>>

Resumed(a) == Require(FanOut(work[R], built[a], TRUE), {"RESUMED"}, "fan")

\* Mutation: the stage is written without the channels.
AdoptStage ==
    /\ PC(R) = "adopt"
    /\ LET a == At(R)
       IN /\ \/ Rewrites(a, [intent[a] EXCEPT !.stage = "BUILT"])
             \/ Refused
          /\ Onward(R, Resumed(a))
    /\ UNCHANGED <<bundle, temp, completed, facts, outboxes, orphans, losses, deaths>>

\* The bundle was durable before the file said so.
Adopt ==
    /\ PC(R) = "adopt"
    /\ LET a == At(R)
       IN /\ \/ Rewrites(a, [intent[a] EXCEPT !.stage = "BUILT", !.channels = built[a]])
             \/ Refused
          /\ Onward(R, Resumed(a))
    /\ UNCHANGED <<bundle, temp, completed, facts, outboxes, orphans, losses, deaths>>

ListOrphans ==
    /\ PC(R) = "idle" /\ orphans = {}
    /\ orphans' = {a \in bundle : intent[a] = None}
    /\ orphans' # {}
    /\ UNCHANGED <<files, facts, outboxes, live, work, losses, deaths, faults>>

ScanOrphan(a) ==
    /\ PC(R) = "idle" /\ a \in orphans
    /\ orphans' = orphans \ {a}
    /\ Step(R, IF a \in live \/ a \notin bundle THEN Idle
               ELSE [Idle EXCEPT !.pc = "restore", !.at = a])
    /\ UNCHANGED <<files, facts, outboxes, live, losses, deaths, faults>>

\* restoreIntent writes a new file, whatever has been written since the listing.
Restore ==
    /\ PC(R) = "restore"
    /\ LET a == At(R)
           f == [stage |-> "BUILT", channels |-> built[a], pending |-> {}]
       IN /\ \/ /\ intent' = [intent EXCEPT ![a] = f] /\ Fine
                /\ replaced' = replaced \cup
                     (IF intent[a] = None THEN {} ELSE {<<a, e>> : e \in intent[a].pending})
             \/ Refused /\ UNCHANGED replaced
          /\ Onward(R, Resumed(a))
    /\ UNCHANGED <<bundle, temp, completed, facts, outboxes, orphans, undurable, deaths>>

-----------------------------------------------------------------------------
(***************************************************************************)
(* The event outbox drains; the answer that the server stored or rejected  *)
(* an event may come late or never.                                        *)
(***************************************************************************)
Upload(item) ==
    /\ item \in outbox
    /\ sent' = sent \cup {item}
    /\ UNCHANGED <<files, facts, taken, outbox, archived, live, work, orphans, losses, deaths, faults>>

Acknowledged(item) ==
    /\ item \in outbox /\ item \in sent
    /\ outbox' = outbox \ {item}
    /\ UNCHANGED <<files, facts, taken, sent, archived, live, work, orphans, losses, deaths, faults>>

Rejected(item) ==
    /\ item \in outbox /\ item \notin sent /\ Fault
    /\ outbox' = outbox \ {item} /\ archived' = archived \cup {item}
    /\ UNCHANGED <<files, facts, taken, sent, live, work, orphans, losses, deaths>>

Drain == \E item \in outbox : Upload(item) \/ Acknowledged(item) \/ Rejected(item)

\* Files and outboxes stay; a bundle being written leaves a temporary file.
ProcessDies ==
    /\ deaths < MaxDeaths /\ deaths' = deaths + 1
    /\ \E started \in SUBSET {a \in Attempts : PC(a) = "bundle"} : temp' = temp \cup started
    /\ work' = [t \in Threads |->
                  CASE t = Reconciler -> Idle
                    [] t # Reconciler /\ PC(t) \in {"idle", "done"} -> work[t]
                    [] OTHER -> [Idle EXCEPT !.at = t, !.pc = "dead"]]
    /\ live' = {} /\ orphans' = {}
    /\ UNCHANGED <<intent, bundle, completed, facts, outboxes, losses, faults>>

Record(a) == WriteIntent(a) \/ Report(a) \/ WriteBundle(a) \/ MarkBuilt(a)

Advance(t) ==
    \/ Enqueue(t) \/ Checkpoint(t) \/ FannedOut(t)
    \/ NextEvent(t) \/ EventsDone(t) \/ Emit(t) \/ Witness(t) \/ Resolve(t)
    \/ Settle(t) \/ Complete(t) \/ MarkFinal(t) \/ DeleteBundle(t) \/ DeleteIntent(t)
    \/ Mark(t) \/ Tell(t) \/ Release(t)

Reconcile == Read \/ Adopt \/ Restore \/ Advance(R)

Next ==
    \/ \E a \in Attempts :
        \/ Skip(a) \/ Submit(a) \/ Record(a) \/ Fails(a) \/ Build(a) \/ Advance(a)
        \/ Scan(a) \/ ScanOrphan(a)
    \/ ListOrphans \/ Reconcile
    \/ Drain \/ ProcessDies

Spec == Init /\ [][Next]_vars

(***************************************************************************)
(* The owner's thread and reconciliation run on, and reconciliation, run   *)
(* at start and at every poll, comes to every file.  Python need not       *)
(* answer and the server need not be reached.                              *)
(***************************************************************************)
Fairness ==
    /\ \A a \in Attempts :
        /\ WF_vars(Record(a) \/ Advance(a))
        /\ SF_vars(Scan(a)) /\ WF_vars(ScanOrphan(a))
    /\ SF_vars(ListOrphans) /\ WF_vars(Reconcile)

FairSpec == Spec /\ Fairness

-----------------------------------------------------------------------------
\* Every variable keeps the shape the code gives it; a file that says BUILT has
\* its channels, and a thread works on a file it may work on.
TypeOK ==
    /\ intent \in [Attempts -> Intents \cup {None}]
    /\ {bundle, temp, completed, live, orphans, undurable} \subseteq SUBSET Attempts
    /\ built \in [Attempts -> Expectations \cup {None}] /\ born \in [Attempts -> 0..MaxDeaths]
    /\ taken \subseteq Attempts \X ChannelSet
    /\ {outbox, sent, replaced} \subseteq SUBSET (Attempts \X Events)
    /\ archived \subseteq Attempts \X (ChannelSet \cup Events)
    /\ \A a \in Attempts : intent[a] # None /\ intent[a].stage = "BUILT" => intent[a].channels # None
    /\ \A a \in Attempts : a \in bundle => built[a] # None
    /\ \A t \in Threads : PC(t) \notin {"idle", "done", "dead"} => At(t) \in Attempts
    /\ deaths \in 0..MaxDeaths /\ faults \in 0..MaxFaults

(***************************************************************************)
(* What the files and outboxes hold leaves them only for where it should   *)
(* go: channel bytes stay in the bundle until the outbox of the channel    *)
(* (or, after a collision, its archive) has them, and an event stays in    *)
(* the intent until the event outbox has it, and there until the server    *)
(* does.  An event in a marker that restoreIntent overwrites is the one    *)
(* exception, and is counted as given up.                                  *)
(***************************************************************************)
Expected(a) == {c \in ChannelSet : built[a] # None /\ built[a][c] = "PENDING"}
Held == UNION {{<<a, e>> : e \in intent[a].pending} : a \in {b \in Attempts : intent[b] # None}}
Bundled == UNION {{<<a, c>> : c \in Expected(a)} : a \in bundle}

Ledger ==
    INSTANCE EvidenceLedger WITH
        pending <- Bundled \cup Held \cup outbox,
        delivered <- taken \cup sent,
        quarantined <- archived \cup replaced

DurableEvidence == Ledger!Spec

(***************************************************************************)
(* An attempt that is over left something to see (its files, an event      *)
(* about it, or all its bytes in the outboxes), unless both stores refused *)
(* its outcome; and what there is to see of an attempt never vanishes.    *)
(* A completed key is one whose bytes were all taken.                      *)
(***************************************************************************)
Handed(a) == built[a] # None /\ \A c \in Expected(a) : <<a, c>> \in taken \cup archived
Told(a) == \E e \in Events : <<a, e>> \in outbox \cup sent \cup archived
Evident(a) == intent[a] # None \/ a \in bundle \/ Told(a) \/ Handed(a)

OutcomeIsEvident ==
    /\ [](\A a \in Attempts : PC(a) = "done" => Evident(a) \/ a \in undurable)
    /\ [](\A a \in completed : Handed(a))
    /\ [][\A a \in Attempts : Evident(a) => Evident(a)']_vars

(***************************************************************************)
(* The files of an attempt nobody works for go in the end, so that the     *)
(* journal, which refuses intents at its cap, gets room again: no mixture  *)
(* of crashes and refused writes leaves a file no reconciliation removes.  *)
(***************************************************************************)
FilesReleased ==
    \A a \in Attempts :
        PC(a) \in {"done", "dead"} /\ (intent[a] # None \/ a \in bundle)
            ~> intent[a] = None /\ a \notin bundle
=============================================================================
