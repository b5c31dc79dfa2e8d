---------------------------- MODULE SingleLegStore ----------------------------
(***************************************************************************)
(* A tap on a single-leg Paper proposal: the native coordinator reads the  *)
(* published state, fetches a quote, reads the state again and calls       *)
(* single_leg_admit through PyTimeout; the store decides under its lock    *)
(* and replaces one JSON document that holds positions, entry history,     *)
(* closed accounts and the outcome of every request.  A call that outlives *)
(* its timeout keeps running; the coordinator then reads the recorded      *)
(* outcome or, past the deadline and a grace, fences the request under the *)
(* same lock.  The monitor closes positions.  Whatever is written is first *)
(* brought within the limits of the document (_bound).                     *)
(*                                                                         *)
(* Prices, fees, margins and the reasons of a refusal are left out: what   *)
(* validate says of a snapshot is chosen when a step needs it.  So are the *)
(* bytes of the document: a large one may be over the budget, or not.  A   *)
(* critical section that calls nothing outside (cancel_request, monitor)   *)
(* is one step, an admission is three: it reads the clock, calls the state *)
(* probe and revalidates for as long as those take.                        *)
(***************************************************************************)
EXTENDS Naturals, FiniteSets

CONSTANTS
    Requests,      \* taps, each with an identifier of its own
    Indices,
    IndexOf,       \* [Requests -> Indices]
    None,
    MaxRecorded,   \* MAX_REQUESTS: request outcomes the document keeps
    MaxFull,       \* MAX_TERMINAL_FULL: closed positions kept with their evidence
    MaxTombstones, \* MAX_TOMBSTONES: closed positions kept as identities
    Retention,     \* RETENTION_SESSIONS: sessions that tombstones and accounts stay
    MaxClosed,     \* MAX_CLOSED: accounts
    MaxHistory,    \* MAX_HISTORY: entries
    AlwaysFit,     \* bound: so many positions are never over the byte budget
    MaxEntries,    \* MAX_ENTRIES_PER_SESSION
    MaxDecisions,  \* bound: decisions published per index
    MaxDays,       \* bound: sessions
    MaxTroubles    \* bound: process deaths, failed replacements of the document,
                   \* clocks set back and changes of settings, together

Outcomes == {"ADMITTED", "DUPLICATE_IGNORED", "REJECTED"}

\* What a tap copies of the published state.
States == [decision : 1..MaxDecisions, open : BOOLEAN, rev : 0..MaxTroubles]

ASSUME StoreAssumption ==
    /\ IndexOf \in [Requests -> Indices]
    /\ IsFiniteSet(Requests)
    /\ MaxRecorded \in Nat \ {0} /\ MaxEntries \in Nat \ {0}
    /\ MaxFull \in Nat \ {0} /\ MaxTombstones \in Nat \ {0}
    /\ Retention \in Nat \ {0} /\ MaxClosed \in Nat \ {0} /\ MaxHistory \in Nat \ {0}
    /\ AlwaysFit \in Nat
    /\ MaxDecisions \in Nat /\ MaxDays \in Nat \ {0}
    /\ MaxTroubles \in Nat
    /\ None \notin Requests \cup Outcomes \cup States

VARIABLES
    decision,   \* decision[i]: the latest published proposal, 0 before the first
    aged,       \* aged[i]: proposals up to this one are too old to admit
    rested,     \* closed positions whose exit is more than the gap ago
    settings,   \* [open, rev]: opt-in, mode and selector; config revision
    day, phase, \* session, and whether it is past TIME_EXIT: "entry", "exit"
    tap,        \* where the native side is with a request
    seen,       \* the state the tap copied
    late,       \* wall clock against the tap's deadline
    call,       \* the Python admission of the request
    reply,      \* what that call returned
    lock,       \* the admission holding the store lock
    copy,       \* the document as the holder read it
    gate,       \* the settings the holder's probe returned
    doc,        \* positions.json
    told,       \* answers the user has been given
    entered,    \* history variable: the taps that got a position, with its key
    filled,     \* history variable: keys of positions whose exit was filled
    troubles

world == <<decision, aged, rested, settings, day, phase>>
native == <<tap, seen>>
python == <<call, reply, lock, copy, gate>>
past == <<entered, filled>>
vars == <<world, native, late, python, doc, told, past, troubles>>

Keys == Indices \X (1..MaxDecisions)

\* A position is known by its index and decision (action and instrument follow).
EmptyDoc ==
    [positions |-> {}, history |-> {}, closed |-> {},
     requests |-> [r \in Requests |-> None]]

Init ==
    /\ decision = [i \in Indices |-> 0]
    /\ aged = [i \in Indices |-> 0] /\ rested = {}
    /\ settings = [open |-> TRUE, rev |-> 0]
    /\ day = 1 /\ phase = "entry"
    /\ tap = [r \in Requests |-> "new"]
    /\ seen = [r \in Requests |-> None]
    /\ late = [r \in Requests |-> 0]
    /\ call = [r \in Requests |-> "none"]
    /\ reply = [r \in Requests |-> None]
    /\ lock = None /\ copy = EmptyDoc /\ gate = FALSE
    /\ doc = EmptyDoc
    /\ told = [r \in Requests |-> {}]
    /\ entered = {} /\ filled = {}
    /\ troubles = 0

-----------------------------------------------------------------------------
(***************************************************************************)
(* The document.                                                           *)
(***************************************************************************)
Live(d) == {p \in d.positions : p.status # "CLOSED"}
EntriesToday(d, i) == {h \in d.history : h.key[1] = i /\ h.day = day}

\* idempotency_key of the plan the tap copied.
Key(r) == <<IndexOf[r], seen[r].decision>>
Duplicates(d, r) == {p \in d.positions : p.key = Key(r)}

(***************************************************************************)
(* _bound: what a document loses before it is written.  Positions that are *)
(* not closed are never touched.                                           *)
(***************************************************************************)
\* _compact: what is left of a closed position is who it was.
Compact(p) == [p EXCEPT !.request = None, !.reason = None]

Closed(d) == d.positions \ Live(d)
Tombstones(d) == {p \in Closed(d) : p.reason = None}
Full(d) == Closed(d) \ Tombstones(d)

\* The lists are cut from the front.  An index has one position at a time, so
\* for one index their order is that of the proposals; between two, any.
Suffixes(S) ==
    {T \in SUBSET S : \A x \in T, y \in S :
        x.key[1] = y.key[1] /\ x.key[2] < y.key[2] => y \in T}

Newest(S, n) ==
    IF Cardinality(S) <= n THEN {S} ELSE {T \in Suffixes(S) : Cardinality(T) = n}

\* Outcomes are cut by wall-clock stamp; the stamps are not modelled, so any of
\* them may be the oldest.
Pruned(f) ==
    LET known == {r \in Requests : f[r] # None}
    IN IF Cardinality(known) <= MaxRecorded THEN {f}
       ELSE {[r \in Requests |-> IF r \in kept THEN f[r] ELSE None] :
                kept \in {k \in SUBSET known : Cardinality(k) = MaxRecorded}}

\* Of the closed positions, only these stay in full.
Keeping(d, full) ==
    [d EXCEPT !.positions = (@ \ Full(d)) \cup full \cup {Compact(p) : p \in Full(d) \ full}]

\* Sessions of positions, and of exits that were accounted for.
Sessions(d) == {p.day : p \in d.positions} \cup {a.exit : a \in d.closed}

Recent(d) == {s \in Sessions(d) : Cardinality({t \in Sessions(d) : t > s}) < Retention}

CutTo(d, tombstones, accounts, entries, outcomes) ==
    [d EXCEPT !.positions = (@ \ Tombstones(d)) \cup tombstones,
              !.closed = accounts, !.history = entries, !.requests = outcomes]

\* Tombstones of recent sessions, accounts of positions entered or closed in
\* one, entries and outcomes, each list up to its limit.
Retained(d) ==
    {CutTo(d, tombstones, accounts, entries, outcomes) :
        tombstones \in Newest({t \in Tombstones(d) : t.day \in Recent(d)}, MaxTombstones),
        accounts \in Newest({a \in d.closed : {a.day, a.exit} \cap Recent(d) # {}}, MaxClosed),
        entries \in Newest(d.history, MaxHistory),
        outcomes \in Pruned(d.requests)}

\* Bytes are not counted: a document that is large may be over the budget.
Large(d) == Cardinality(d.positions) > AlwaysFit

\* While it is over the byte budget: closed positions lose their evidence, the
\* oldest first, and when none has any, the oldest accounts go.
Shed(d) ==
    IF ~Large(d) THEN {d}
    ELSE {Keeping(d, full) : full \in Suffixes(Full(d))}
         \cup {[Keeping(d, {}) EXCEPT !.closed = accounts] : accounts \in Suffixes(d.closed)}

Bounded(d) ==
    LET compacted == {Keeping(d, full) : full \in Newest(Full(d), MaxFull)}
        retained == UNION {Retained(e) : e \in compacted}
    IN UNION {Shed(e) : e \in retained}

\* Nothing is left to shed: a document still over the budget is full.
Exhausted(d) == Large(d) /\ Full(d) = {} /\ d.closed = {}

\* done(): the outcome becomes part of the document that is written.
WithOutcome(d, r, outcome) == [d EXCEPT !.requests[r] = outcome]
Recording(d, r, outcome) == Bounded(WithOutcome(d, r, outcome))

\* Mutation: a position whose exit is pending is no exposure.
OpenExposureReasons(d, i) ==
    \/ \E p \in Live(d) : p.key[1] = i /\ p.status = "OPEN"
    \/ Cardinality(EntriesToday(d, i)) >= MaxEntries
    \/ \E h \in EntriesToday(d, i) : h.exited /\ h.key \notin rested

\* exposure_state: one live managed position per index, the session's entries,
\* and the gap after an exit.
ExposureReasons(d, i) ==
    \/ \E p \in Live(d) : p.key[1] = i
    \/ Cardinality(EntriesToday(d, i)) >= MaxEntries
    \/ \E h \in EntriesToday(d, i) : h.exited /\ h.key \notin rested

\* Mutation: a position waits for its fill.
PendingPosition(r) ==
    [key |-> Key(r), day |-> day, request |-> r, status |-> "PENDING_ENTRY", reason |-> None]

\* open_position.
NewPosition(r) ==
    [key |-> Key(r), day |-> day, request |-> r, status |-> "OPEN", reason |-> None]

NewEntry(r) == [key |-> Key(r), day |-> day, exited |-> FALSE]

\* The position and its entry in the history.
Entered(d, r) ==
    [d EXCEPT !.positions = @ \cup {NewPosition(r)}, !.history = @ \cup {NewEntry(r)}]

\* StoreFull: both are taken back from the document as _bound left it.
TakenBack(d, r) ==
    [d EXCEPT !.positions = @ \ {NewPosition(r)}, !.history = @ \ {NewEntry(r)}]

-----------------------------------------------------------------------------
(***************************************************************************)
(* The coordinator.                                                        *)
(***************************************************************************)
State(r) ==
    [decision |-> decision[IndexOf[r]], open |-> settings.open, rev |-> settings.rev]

Tell(r, outcome) == told' = [told EXCEPT ![r] = @ \cup {outcome}]
Goto(r, where) == tap' = [tap EXCEPT ![r] = where]

Submit(r) ==
    /\ tap[r] = "new"
    /\ Goto(r, "queued")
    /\ UNCHANGED <<world, seen, late, python, doc, told, troubles, past>>

\* The admission executor is one thread.
Running == {r \in Requests : tap[r] \in {"fetching", "awaiting"}}

\* run: the state is read, then the quote is fetched.
Run(r) ==
    /\ tap[r] = "queued" /\ Running = {}
    /\ IF decision[IndexOf[r]] = 0
       THEN /\ Goto(r, "completed") /\ Tell(r, "REJECTED")
            /\ UNCHANGED seen
       ELSE /\ Goto(r, "fetching") /\ UNCHANGED told
            /\ seen' = [seen EXCEPT ![r] = State(r)]
    /\ UNCHANGED <<world, late, python, doc, troubles, past>>

\* Calls that outlived their timeout: PyTimeout starts no second one.
InFlight == {r \in Requests : call[r] # "none"}

\* The state is read again; the deadline starts; the admission is called, or
\* skipped while an earlier call is still running.
Commit(r) ==
    /\ tap[r] = "fetching"
    /\ IF seen[r] # State(r)
       THEN /\ Goto(r, "completed") /\ Tell(r, "REJECTED")
            /\ seen' = [seen EXCEPT ![r] = None] /\ UNCHANGED call
       ELSE /\ UNCHANGED <<seen, told>>
            /\ IF InFlight = {}
               THEN Goto(r, "awaiting") /\ call' = [call EXCEPT ![r] = "waiting"]
               ELSE Goto(r, "reconciling") /\ UNCHANGED call
    /\ UNCHANGED <<world, late, reply, lock, copy, gate, doc, troubles, past>>

Answered(r) ==
    /\ tap[r] = "awaiting" /\ call[r] = "returned"
    /\ Goto(r, "completed") /\ Tell(r, reply[r])
    /\ call' = [call EXCEPT ![r] = "none"] /\ reply' = [reply EXCEPT ![r] = None]
    /\ seen' = [seen EXCEPT ![r] = None] /\ late' = [late EXCEPT ![r] = 0]
    /\ UNCHANGED <<world, lock, copy, gate, doc, troubles, past>>

\* PyTimeout: the call keeps running, its value will be dropped.
TimesOut(r) ==
    /\ tap[r] = "awaiting" /\ call[r] # "returned"
    /\ Goto(r, "reconciling")
    /\ UNCHANGED <<world, seen, late, python, doc, told, troubles, past>>

\* reconcileLoop, first half: request_status reads the file without the lock.
Reconcile(r) ==
    /\ tap[r] = "reconciling" /\ doc.requests[r] # None
    /\ Goto(r, "completed") /\ Tell(r, doc.requests[r])
    /\ UNCHANGED <<world, seen, late, python, doc, troubles, past>>

\* What goes wrong, or changes, at most MaxTroubles times.
Trouble == troubles < MaxTroubles /\ troubles' = troubles + 1

\* Mutation: the lock is not taken.
FenceUnlocked(r, outcome) ==
    IF doc.requests[r] # None
    THEN outcome = doc.requests[r] /\ UNCHANGED doc
    ELSE outcome = "REJECTED" /\ doc' \in Recording(doc, r, "REJECTED")

\* cancel_request: the recorded outcome, or a fence, under the lock.
Fence(r, outcome) ==
    /\ lock = None
    /\ IF doc.requests[r] # None
       THEN outcome = doc.requests[r] /\ UNCHANGED doc
       ELSE outcome = "REJECTED" /\ doc' \in Recording(doc, r, "REJECTED")

\* reconcileLoop, second half: past deadline and grace.
Expire(r) ==
    /\ tap[r] = "reconciling" /\ late[r] = 2
    /\ \E outcome \in Outcomes :
        /\ \/ Goto(r, "completed") /\ Tell(r, outcome)
           \/ UNCHANGED <<tap, told>>   \* the cancellation outlived its timeout
        /\ Fence(r, outcome)
    /\ UNCHANGED <<world, seen, late, python, troubles, past>>

\* status of a request this process does not know.
Status(r) ==
    /\ tap[r] = "lost"
    /\ \E outcome \in Outcomes :
        (Tell(r, outcome) \/ UNCHANGED told) /\ Fence(r, outcome)
    /\ UNCHANGED <<world, native, late, python, troubles, past>>

-----------------------------------------------------------------------------
(***************************************************************************)
(* admit, on the thread PyTimeout gave it.                                 *)
(***************************************************************************)
\* A value nobody waits for any more is dropped.
Returns(r, outcome) ==
    IF tap[r] = "awaiting"
    THEN /\ call' = [call EXCEPT ![r] = "returned"]
         /\ reply' = [reply EXCEPT ![r] = outcome]
    ELSE call' = [call EXCEPT ![r] = "none"] /\ UNCHANGED reply

Release == lock' = None /\ copy' = EmptyDoc /\ gate' = FALSE

\* Mutation: the lock is kept when the replacement fails.
ConcludesLeaking(r, outcome, documents) ==
    \/ doc' \in documents /\ Returns(r, outcome) /\ Release /\ UNCHANGED troubles
    \/ Trouble /\ Returns(r, "REJECTED") /\ UNCHANGED <<doc, lock, copy, gate>>

\* The outcome is recorded with the document and the lock released.  When the
\* replacement fails the file is as before, and the caller hears an error.
Concludes(r, outcome, documents) ==
    /\ Release
    /\ \/ Returns(r, outcome) /\ doc' \in documents /\ UNCHANGED troubles
       \/ Trouble /\ Returns(r, "REJECTED") /\ UNCHANGED doc

Refuse(r, outcome) == Concludes(r, outcome, Recording(copy, r, outcome))

\* The lock is not free for as long as the call would wait: a monitor or a
\* fence, one step here, may hold it.
LockTimeout(r) ==
    /\ call[r] = "waiting"
    /\ Returns(r, "REJECTED")
    /\ UNCHANGED <<world, native, late, lock, copy, gate, doc, told, troubles, past>>

\* Mutation: the document is not looked up for an outcome of this request.
EnterUnfenced(r) ==
    /\ call[r] = "waiting" /\ lock = None
    /\ lock' = r /\ copy' = doc
    /\ call' = [call EXCEPT ![r] = "entered"]
    /\ UNCHANGED <<reply, gate>>
    /\ UNCHANGED <<world, native, late, doc, told, troubles, past>>

\* The lock is taken and the document read; a recorded outcome is replayed.
Enter(r) ==
    /\ call[r] = "waiting" /\ lock = None
    /\ IF doc.requests[r] # None
       THEN Returns(r, doc.requests[r]) /\ UNCHANGED <<lock, copy, gate>>
       ELSE /\ lock' = r /\ copy' = doc
            /\ call' = [call EXCEPT ![r] = "entered"]
            /\ UNCHANGED <<reply, gate>>
    /\ UNCHANGED <<world, native, late, doc, told, troubles, past>>

\* The deadline, then the state probe: decision and configuration must still be
\* the plan's, or the probe fails.
ProbeRefuses(r) ==
    /\ call[r] = "entered"
    /\ Refuse(r, "REJECTED")
    /\ UNCHANGED <<world, native, late, told, past>>

Probe(r) ==
    /\ call[r] = "entered" /\ late[r] = 0
    /\ seen[r].decision = decision[IndexOf[r]] /\ seen[r].rev = settings.rev
    /\ gate' = settings.open
    /\ call' = [call EXCEPT ![r] = "probed"]
    /\ UNCHANGED <<world, native, late, reply, lock, copy, doc, told, troubles, past>>

\* The plan's position is already in the document.
Duplicate(r) ==
    /\ call[r] = "probed" /\ Duplicates(copy, r) # {}
    /\ Refuse(r, "DUPLICATE_IGNORED")
    /\ UNCHANGED <<world, native, late, told, past>>

\* A gate of the revalidation, or the deadline.
Reject(r) ==
    /\ call[r] = "probed" /\ Duplicates(copy, r) = {}
    /\ Refuse(r, "REJECTED")
    /\ UNCHANGED <<world, native, late, told, past>>

\* revalidate_for_admission, with the quote and margin it judges left out.
Admissible(r) ==
    /\ gate
    /\ phase = "entry"
    /\ seen[r].decision > aged[IndexOf[r]]
    /\ ~ExposureReasons(copy, IndexOf[r])

\* The revalidation passes before the deadline.
Passes(r) ==
    /\ call[r] = "probed" /\ Duplicates(copy, r) = {}
    /\ Admissible(r) /\ late[r] = 0

\* Position, history and outcome are one replacement.
Open(r) ==
    /\ Passes(r)
    /\ Concludes(r, "ADMITTED", Recording(Entered(copy, r), r, "ADMITTED"))
    /\ entered' = IF NewPosition(r) \in doc'.positions
                  THEN entered \cup {<<r, Key(r)>>} ELSE entered
    /\ UNCHANGED <<world, native, late, told, filled>>

\* Nothing more can be shed and the document is still too large: what it has
\* lost stays lost, the tap is refused.
StoreFull(r) ==
    /\ Passes(r)
    /\ LET full == {d \in Recording(Entered(copy, r), r, "ADMITTED") : Exhausted(d)}
       IN Concludes(r, "REJECTED",
                    UNION {Recording(TakenBack(d, r), r, "REJECTED") : d \in full})
    /\ UNCHANGED <<world, native, late, told, past>>

-----------------------------------------------------------------------------
(***************************************************************************)
(* monitor: every open or pending position is advanced once.               *)
(***************************************************************************)
\* What a snapshot is to a position: not valid; valid; valid and beyond the
\* stop, with and without the quantity to close.
Quotes == {"invalid", "mark", "stop", "thin"}

\* The first rule that applies; the one already decided stays.
ExitReason(p, quote, opposed) ==
    CASE p.reason # None -> p.reason
      [] p.reason = None /\ day > p.day -> "OVERDUE"
      [] p.reason = None /\ day = p.day /\ phase = "exit" -> "TIME"
      [] p.reason = None /\ day = p.day /\ phase # "exit" ->
            IF quote \in {"stop", "thin"} THEN "STOP"
            ELSE IF opposed THEN "OPPOSITE" ELSE None

\* Mutation: the rules are evaluated afresh at every poll.
EvaluateAfresh(p, quote, opposed) ==
    LET reason == ExitReason([p EXCEPT !.reason = None], quote, opposed)
    IN [p EXCEPT !.reason = reason,
                 !.status = CASE reason = None -> "OPEN"
                              [] reason # None /\ quote \in {"mark", "stop"} -> "CLOSED"
                              [] OTHER -> "EXIT_PENDING"]

\* evaluate_exit: an exit decided without a quote that can fill it is pending.
EvaluateExit(p, quote, opposed) ==
    LET reason == ExitReason(p, quote, opposed)
    IN [p EXCEPT !.reason = reason,
                 !.status = CASE reason = None -> @
                              [] reason # None /\ quote \in {"mark", "stop"} -> "CLOSED"
                              [] OTHER -> "EXIT_PENDING"]

Monitored(d) == {p \in d.positions : p.status \in {"OPEN", "EXIT_PENDING"}}

\* Mutation: an exit counts when it is decided, filled or not.
ExitsDecided(now) == {now[p] : p \in {q \in DOMAIN now : now[q].status # "OPEN"}}

\* The positions that have just been closed.
Exits(now) == {now[p] : p \in {q \in DOMAIN now : now[q].status = "CLOSED"}}

\* account; a second one of a position would be another record.
Account(d, p) ==
    [key |-> p.key, day |-> p.day, exit |-> day, reason |-> p.reason,
     again |-> \E a \in d.closed : a.key = p.key]

\* An account for every exit, and the stamp of the history entry.
Accounted(d, exits) ==
    [d EXCEPT
        !.closed = @ \cup {Account(d, p) : p \in exits},
        !.history = {[h EXCEPT !.exited = @ \/ \E p \in exits : p.key = h.key] : h \in @}]

Advanced(d, now) ==
    Accounted([d EXCEPT !.positions = (@ \ DOMAIN now) \cup {now[p] : p \in DOMAIN now}],
              Exits(now))

\* What the rules make of the positions, for whatever the snapshots are.
Evaluated(d, quote, opposed) ==
    [p \in Monitored(d) |-> EvaluateExit(p, quote[p], opposed[p])]

Evaluations(d) ==
    {Evaluated(d, quote, opposed) :
        quote \in [Monitored(d) -> Quotes], opposed \in [Monitored(d) -> BOOLEAN]}

Monitor ==
    /\ lock = None /\ Monitored(doc) # {}
    /\ \E now \in Evaluations(doc) :
        \/ /\ doc' \in Bounded(Advanced(doc, now)) /\ UNCHANGED troubles
           /\ filled' = filled \cup {p.key : p \in Exits(now)}
        \/ Trouble /\ UNCHANGED <<doc, filled>>
    /\ UNCHANGED <<world, native, late, python, told, entered>>

-----------------------------------------------------------------------------
(***************************************************************************)
(* The world: publications, settings, time, and the end of the process.    *)
(***************************************************************************)
Publish(i) ==
    /\ decision[i] < MaxDecisions
    /\ decision' = [decision EXCEPT ![i] = @ + 1]
    /\ UNCHANGED <<aged, rested, settings, day, phase>>
    /\ UNCHANGED <<native, late, python, doc, told, troubles, past>>

\* Opt-in, selector and capital come with a new revision, the mode does not.
ChangeSettings ==
    /\ Trouble
    /\ \E open \in BOOLEAN, rev \in {settings.rev, settings.rev + 1} :
        settings' = [open |-> open, rev |-> rev]
    /\ settings' # settings
    /\ UNCHANGED <<decision, aged, rested, day, phase>>
    /\ UNCHANGED <<native, late, python, doc, told, past>>

Exited(d) == {h.key : h \in {g \in d.history : g.exited}}

\* REENTRY_GAP_MIN passes, and with it ADMIT_MAX_DECISION_AGE_S.
HalfHour(i) ==
    /\ aged' = [aged EXCEPT ![i] = decision[i]]
    /\ rested' = rested \cup {k \in Exited(doc) : k[1] = i}
    /\ UNCHANGED <<decision, settings, day, phase>>
    /\ UNCHANGED <<native, late, python, doc, told, troubles, past>>

SessionMoves ==
    /\ \/ phase = "entry" /\ phase' = "exit" /\ UNCHANGED <<day, aged, rested>>
       \/ /\ phase = "exit" /\ day < MaxDays
          /\ phase' = "entry" /\ day' = day + 1
          /\ aged' = decision /\ rested' = Exited(doc)
    /\ UNCHANGED <<decision, settings>>
    /\ UNCHANGED <<native, late, python, doc, told, troubles, past>>

\* 0 before the deadline, 1 past it, 2 past the grace as well.
Ticking(r) == tap[r] \in {"awaiting", "reconciling"} /\ late[r] < 2

ClockAdvances(r) ==
    /\ Ticking(r) /\ late' = [late EXCEPT ![r] = @ + 1]
    /\ UNCHANGED <<world, native, python, doc, told, troubles, past>>

ClockSetBack(r) ==
    /\ late[r] > 0 /\ Trouble
    /\ late' = [late EXCEPT ![r] = 0]
    /\ UNCHANGED <<world, native, python, doc, told, past>>

\* The file is as the last replacement left it.
ProcessDies ==
    /\ Trouble
    /\ tap' = [r \in Requests |-> IF tap[r] = "new" THEN "new" ELSE "lost"]
    /\ seen' = [r \in Requests |-> None] /\ late' = [r \in Requests |-> 0]
    /\ call' = [r \in Requests |-> "none"] /\ reply' = [r \in Requests |-> None]
    /\ Release
    /\ UNCHANGED <<world, doc, told, past>>

Tap(r) ==
    \/ Submit(r) \/ Run(r) \/ Commit(r) \/ Answered(r) \/ TimesOut(r)
    \/ Reconcile(r) \/ Expire(r) \/ Status(r)

Admission(r) ==
    \/ LockTimeout(r) \/ Enter(r) \/ ProbeRefuses(r) \/ Probe(r)
    \/ Duplicate(r) \/ Reject(r) \/ Open(r) \/ StoreFull(r)

World ==
    \/ \E i \in Indices : Publish(i) \/ HalfHour(i)
    \/ ChangeSettings \/ SessionMoves
    \/ \E r \in Requests : ClockAdvances(r) \/ ClockSetBack(r)
    \/ ProcessDies

Next == (\E r \in Requests : Tap(r) \/ Admission(r)) \/ Monitor \/ World

Spec == Init /\ [][Next]_vars

\* The threads run, the wall clock moves, and whoever waits for the lock or
\* polls for it gets it in the end.  The user, the analysis and the market owe
\* nothing.
FairSpec ==
    /\ Spec
    /\ \A r \in Requests :
        /\ WF_vars(Run(r) \/ Commit(r) \/ Answered(r) \/ TimesOut(r))
        /\ WF_vars(Reconcile(r))
        /\ SF_vars(Expire(r) /\ tap'[r] = "completed")
        /\ SF_vars(Enter(r))
        /\ WF_vars(ProbeRefuses(r) \/ Probe(r) \/ Duplicate(r) \/ Reject(r)
                   \/ Open(r) \/ StoreFull(r))
        /\ WF_vars(ClockAdvances(r))

-----------------------------------------------------------------------------
(***************************************************************************)
(* Properties.                                                             *)
(***************************************************************************)
Positions ==
    [key : Keys, day : 1..MaxDays, request : Requests \cup {None},
     status : {"OPEN", "EXIT_PENDING", "CLOSED"},
     reason : {None, "STOP", "OPPOSITE", "TIME", "OVERDUE"}]

Accounts ==
    [key : Keys, day : 1..MaxDays, exit : 1..MaxDays,
     reason : {"STOP", "OPPOSITE", "TIME", "OVERDUE"}, again : BOOLEAN]

Documents ==
    [positions : SUBSET Positions,
     history : SUBSET [key : Keys, day : 1..MaxDays, exited : BOOLEAN],
     closed : SUBSET Accounts,
     requests : [Requests -> Outcomes \cup {None}]]

\* Every variable keeps the shape the code gives it.
TypeOK ==
    /\ decision \in [Indices -> 0..MaxDecisions]
    /\ aged \in [Indices -> 0..MaxDecisions]
    /\ rested \subseteq Keys
    /\ settings \in [open : BOOLEAN, rev : 0..MaxTroubles]
    /\ day \in 1..MaxDays /\ phase \in {"entry", "exit"}
    /\ tap \in [Requests -> {"new", "queued", "fetching", "awaiting",
                             "reconciling", "completed", "lost"}]
    /\ seen \in [Requests -> States \cup {None}]
    /\ late \in [Requests -> 0..2]
    /\ call \in [Requests -> {"none", "waiting", "entered", "probed", "returned"}]
    /\ reply \in [Requests -> Outcomes \cup {None}]
    /\ lock \in Requests \cup {None}
    /\ gate \in BOOLEAN
    /\ copy \in Documents /\ doc \in Documents
    /\ told \in [Requests -> SUBSET Outcomes]
    /\ entered \subseteq Requests \X Keys /\ filled \subseteq Keys
    /\ troubles \in 0..MaxTroubles

\* What the user was told stays true, whatever call is still running and however
\* often the process died: a position was entered for an admitted tap, none ever
\* is for a refused one, and an ignored duplicate had one of its index before it.
AnswersHold ==
    \A r \in Requests :
        LET own == {e \in entered : e[1] = r}
        IN /\ "ADMITTED" \in told[r] => own # {}
           /\ "REJECTED" \in told[r] => own = {}
           /\ "DUPLICATE_IGNORED" \in told[r] =>
                own = {} /\ \E e \in entered : e[2][1] = IndexOf[r]

\* At most one managed position of an index is live, although taps are decided
\* on state that was copied before they waited for the lock.
OneLivePerIndex ==
    \A p, q \in Live(doc) : p.key[1] = q.key[1] => p = q

\* No proposal is entered twice, although the document forgets: it knows the
\* position for as long as the proposal may still be admitted, and for as long as
\* its exit is not filled.  What is left of the positions, entries and accounts
\* tells one story: at most one of each, the position closed and the entry stamped
\* exactly when the exit was filled, an account only of an exit that was, and for
\* the reason the position was closed for.
LedgersAgree ==
    \A k \in Keys :
        LET taps == {e \in entered : e[2] = k}
            positions == {p \in doc.positions : p.key = k}
            entries == {h \in doc.history : h.key = k}
            accounts == {a \in doc.closed : a.key = k}
        IN /\ Cardinality(taps) <= 1
           /\ taps # {} /\ (k[2] > aged[k[1]] \/ k \notin filled) => positions # {}
           /\ Cardinality(positions) <= Cardinality(taps)
           /\ Cardinality(entries) <= Cardinality(taps)
           /\ Cardinality(accounts) <= Cardinality(taps)
           /\ \A p \in positions : p.status = "CLOSED" <=> k \in filled
           /\ \A h \in entries : h.exited <=> k \in filled
           /\ \A a \in accounts : k \in filled /\ \A p \in positions : p.reason \in {None, a.reason}

\* A position whose exit is not filled stays in the document as its tap's, and an
\* exit decided for it is the one it gets, in its account too even if the same
\* replacement drops the position's evidence.  A closed one stays as it is or is
\* compacted; neither a recovered price nor an admission reopens it.
ExitStands ==
    /\ \A p \in Live(doc) :
        \/ p.key \in filled'
        \/ \E q \in Live(doc') :
            /\ q.key = p.key /\ q.request = p.request
            /\ p.reason # None => q.reason = p.reason /\ q.status # "OPEN"
    /\ \A p \in Live(doc), q \in doc'.positions :
        q.key = p.key => q \in Tombstones(doc') \/ p.reason \in {None, q.reason}
    /\ \A p \in Closed(doc), q \in doc'.positions :
        q.key = p.key => q \in {p, Compact(p)}
    /\ \A a \in doc'.closed \ doc.closed : \E p \in Live(doc) :
        a.key = p.key /\ a.key \in filled' /\ p.reason \in {None, a.reason}

ExitsStand == [][ExitStands]_doc

\* Every tap has one verdict (SingleLegContract).
Verdict(r) ==
    IF \E e \in entered : e[1] = r THEN "entered"
    ELSE IF doc.requests[r] # None \/ told[r] # {} THEN "refused" ELSE "open"

Contract ==
    INSTANCE SingleLegContract WITH
        verdict <- [r \in Requests |-> Verdict(r)],
        answered <- [r \in Requests |->
            IF told[r] = {} THEN "open"
            ELSE IF "ADMITTED" \in told[r] THEN "entered" ELSE "refused"]

VerdictsStand == Contract!Spec

\* A tap is answered in the end, unless its process ends first: neither a stuck
\* admission ahead of it nor its own timeout leaves it pending for ever.
TapAnswered ==
    \A r \in Requests : tap[r] = "queued" ~> tap[r] \in {"completed", "lost"}
================================================================================
