------------------------------ MODULE RuleBTrade ------------------------------
(***************************************************************************)
(* A Paper position of the implied-EV experiment from the user's tap to    *)
(* its close.  ev_v12_acceptance.py reserves and commits the decision in   *)
(* acceptances.json, the PWA inserts the trades_v2 row and installs the    *)
(* position in the native open_trades, PositionTickService steps Rule B on *)
(* it and freezes the exit in rule_b_ledger.json.  Rule B's close and a    *)
(* close by hand then compete for the row: both journal their patch in the *)
(* ledger and send the same update, which only an OPEN row takes; what the *)
(* row holds when it is read back decides.                                 *)
(*                                                                         *)
(* The PWA is not in the repository: its steps are those its bridge calls  *)
(* and docs/ev_v12/README.md name.  A fill is its kind, a patch what tells *)
(* one from another, a reservation the number of its prepare; quotes, fees *)
(* and capital are reasons why prepare need not succeed.  Nothing is       *)
(* pruned: closed entries stay for 14 (ledger) and 30 days (acceptances).  *)
(* The mode stays active and no file is corrupted from outside.            *)
(***************************************************************************)
EXTENDS Naturals, FiniteSets

CONSTANTS
    Decisions,
    Exiting,         \* bound: the decisions whose position is watched to its exit
    StructureOf,     \* [Decisions -> structure and expiry]
    ManualPatches,   \* closes by hand: their exit prices
    None,
    MaxOpen,         \* MAX_OPEN_ENGINE_POSITIONS
    MaxPrepares,     \* bound: reservations per decision
    MaxTaps,         \* bound: manual closes the user asks for
    MaxTroubles      \* bound: process deaths, WebView reloads, lost updates and
                     \* rewrites of open_trades by MarketWatchService, together

ASSUME TradeAssumption ==
    /\ IsFiniteSet(Decisions) /\ Exiting \subseteq Decisions
    /\ DOMAIN StructureOf = Decisions
    /\ None \notin Decisions \cup ManualPatches
    /\ None \notin {"net", "unknown", "unresolved", "ruleB", "manual", "PLANNED_EXIT", "LATE_EXIT",
                    "MANUAL_EARLY_CLOSE", "NEVER_ACCEPTED", "UNRESOLVED"}
    /\ None \notin Decisions \X {"PLANNED_EXIT", "LATE_EXIT", "MARK_LATE", "MARK_UNRESOLVED", "economics"}
    /\ ManualPatches \cap {"net", "unknown", "unresolved"} = {}
    /\ MaxOpen \in Nat \ {0} /\ MaxPrepares \in Nat
    /\ MaxTaps \in Nat /\ MaxTroubles \in Nat

VARIABLES
    acc,      \* acceptances.json: [state, rid]
    lapsed,   \* reservations past confirm_by_ms
    ask,      \* prepares under way: the open_trades they were called with
    dialog,   \* reservations the user is shown
    row,      \* trades_v2: [state, by, patch, unresolved]
    open,     \* preference open_trades
    copy,     \* open_trades as MarketWatchService will write it back
    when,     \* the clock against a position's planned exit and expiry
    led,      \* rule_b_ledger.json
    tick,     \* the Rule B step under way: [of, step]
    ruleB,    \* the PWA delivering Rule B's close: [at, patch]
    manual,   \* the PWA delivering the user's close: [at, patch]
    flight,   \* updates on their way to the server: [of, by, patch]
    outcome,  \* the accepted component frozen in the tracker
    taps, troubles

acceptance == <<acc, lapsed, ask, dialog>>
position == <<row, open, copy, when>>
close == <<led, tick, ruleB, manual, flight>>
vars == <<acceptance, position, close, outcome, taps, troubles>>

----------------------------------------------------------------------------
\* Acceptance.

Taken == {"COMMITTED", "PERSISTED", "CLOSED"}
Nothing == {None}        \* a prepare that is not under way

\* Mutation: a reservation does not count.
LiveTaken(d, trades) ==
    {x \in Decisions \ {d} : acc[x].state \in {"COMMITTED", "PERSISTED"} \/ x \in trades}

\* Positions prepare counts: live acceptances and whatever open_trades shows.
LivePositions(d, trades) ==
    {x \in Decisions \ {d} :
        \/ acc[x].state \in {"COMMITTED", "PERSISTED"}
        \/ acc[x].state = "RESERVED" /\ x \notin lapsed
        \/ x \in trades}

\* open_trades is read before the lock is taken.  A request for a decision that
\* is taken, or after its day, only gets an answer.
AskPrepare(d) ==
    /\ ask[d] = Nothing /\ when[d] = "before" /\ acc[d].state \notin Taken
    /\ ask' = [ask EXCEPT ![d] = open]
    /\ UNCHANGED <<acc, lapsed, dialog, position, close, outcome, taps, troubles>>

Reserve(d) ==
    LET live == LivePositions(d, ask[d])
        stale == {x \in Decisions : acc[x].state = "RESERVED" /\ x \in lapsed}
    IN /\ acc[d].state \notin Taken
       /\ acc[d].state = "RESERVED" => d \in lapsed
       /\ \A x \in live : StructureOf[x] # StructureOf[d]
       /\ Cardinality(live) < MaxOpen
       /\ acc[d].rid < MaxPrepares
       /\ acc' = [x \in Decisions |->
                    IF x = d THEN [state |-> "RESERVED", rid |-> acc[d].rid + 1]
                    ELSE IF x \in stale THEN [acc[x] EXCEPT !.state = "none"] ELSE acc[x]]
       /\ lapsed' = lapsed \ (stale \cup {d})
       /\ dialog' = [dialog EXCEPT ![d] = @ \cup {acc[d].rid + 1}]

\* prepare: a replay of the reservation that was live when the clock was read, a
\* new one, or a refusal.
Prepare(d) ==
    /\ ask[d] # Nothing
    /\ ask' = [ask EXCEPT ![d] = Nothing]
    /\ \/ /\ acc[d].state = "RESERVED"
          /\ dialog' = [dialog EXCEPT ![d] = @ \cup {acc[d].rid}]
          /\ UNCHANGED <<acc, lapsed>>
       \/ Reserve(d)
       \/ UNCHANGED <<acc, lapsed, dialog>>
    /\ UNCHANGED <<position, close, outcome, taps, troubles>>

Lapse(d) ==
    /\ acc[d].state = "RESERVED" /\ d \notin lapsed
    /\ lapsed' = lapsed \cup {d}
    /\ UNCHANGED <<acc, ask, dialog, position, close, outcome, taps, troubles>>

\* confirm: the time it compares was read before it got the lock.  Of a decision
\* that is taken it is a replay and changes nothing.
Confirm(d, r) ==
    /\ r \in dialog[d]
    /\ acc[d] = [state |-> "RESERVED", rid |-> r]
    /\ \E late \in {FALSE, (d \in lapsed)} :
         acc' = [acc EXCEPT ![d].state = IF late THEN "none" ELSE "COMMITTED"]
    /\ lapsed' = lapsed \ {d}
    /\ UNCHANGED <<ask, dialog, position, close, outcome, taps, troubles>>

Cancel(d, r) ==
    /\ r \in dialog[d]
    /\ dialog' = [dialog EXCEPT ![d] = @ \ {r}]
    /\ IF acc[d] = [state |-> "RESERVED", rid |-> r]
       THEN /\ acc' = [acc EXCEPT ![d].state = "none"]
            /\ lapsed' = lapsed \ {d}
       ELSE UNCHANGED <<acc, lapsed>>
    /\ UNCHANGED <<ask, position, close, outcome, taps, troubles>>

\* mark_closed, whoever calls it.
MarkClosed(d) ==
    /\ acc' = IF acc[d].state \in Taken THEN [acc EXCEPT ![d].state = "CLOSED"] ELSE acc
    /\ UNCHANGED <<lapsed, ask, dialog>>

----------------------------------------------------------------------------
\* The row and open_trades.

\* The PWA inserts what recovery or confirm gave it, once per ev_trade_uid.
Insert(d) ==
    /\ acc[d].state = "COMMITTED" /\ row[d].state = "none"
    /\ row' = [row EXCEPT ![d].state = "OPEN"]
    /\ UNCHANGED <<acceptance, open, copy, when, close, outcome, taps, troubles>>

\* Mutation: persisted before the row is seen.
MarkPersistedUnseen(d) ==
    /\ acc[d].state = "COMMITTED"
    /\ acc' = [acc EXCEPT ![d].state = "PERSISTED"]
    /\ UNCHANGED <<lapsed, ask, dialog, position, close, outcome, taps, troubles>>

MarkPersisted(d) ==
    /\ acc[d].state = "COMMITTED" /\ row[d].state # "none"
    /\ acc' = [acc EXCEPT ![d].state = "PERSISTED"]
    /\ UNCHANGED <<lapsed, ask, dialog, position, close, outcome, taps, troubles>>

\* Recovery of a PERSISTED acceptance: install the open row, or note its close.
Install(d) ==
    /\ acc[d].state = "PERSISTED" /\ row[d].state = "OPEN" /\ d \notin open
    /\ open' = open \cup {d}
    /\ UNCHANGED <<acceptance, row, copy, when, close, outcome, taps, troubles>>

Reconcile(d) ==
    /\ acc[d].state = "PERSISTED" /\ row[d].state = "CLOSED"
    /\ MarkClosed(d)
    /\ UNCHANGED <<position, close, outcome, taps, troubles>>

Uninstall(d) ==
    /\ row[d].state = "CLOSED" /\ d \in open
    /\ open' = open \ {d}
    /\ UNCHANGED <<acceptance, row, copy, when, close, outcome, taps, troubles>>

\* MarketWatchService rewrites the whole list: with the brain's marks in it
\* after a poll, or with the server's rows when it starts.
CopyTrades ==
    /\ copy = Nothing
    /\ troubles < MaxTroubles /\ troubles' = troubles + 1
    /\ copy' \in {open, {d \in Decisions : row[d].state = "OPEN"}}
    /\ UNCHANGED <<acceptance, row, open, when, close, outcome, taps>>

WriteTrades ==
    /\ copy # Nothing
    /\ open' = copy /\ copy' = Nothing
    /\ UNCHANGED <<acceptance, row, when, close, outcome, taps, troubles>>

Times == <<"before", "window", "late", "expired", "overdue">>

\* A prepare takes seconds and a reservation lapses after 45, a phase takes hours.
PassTime(d) ==
    \E i \in 1..4 :
        /\ d \in Exiting /\ when[d] = Times[i]
        /\ ask[d] = Nothing
        /\ acc[d].state = "RESERVED" => d \in lapsed
        /\ when' = [when EXCEPT ![d] = Times[i + 1]]
        /\ dialog' = [dialog EXCEPT ![d] = {}]
        /\ UNCHANGED <<acc, lapsed, ask, row, open, copy, close, outcome, taps, troubles>>

----------------------------------------------------------------------------
\* The Rule B ledger.

Terminal == {"EXIT_FILLED", "UNRESOLVED", "MANUAL_CLOSED"}
Exited == {"EXIT_FILLED", "UNRESOLVED"}
Delivered == {"REMOTE_CONFIRMED", "MANUAL_CLOSE_CONFLICT"}

\* A trade without an entry is OPEN.
NoEntry ==
    [state |-> "OPEN", late |-> FALSE, delivery |-> "none", fill |-> None, net |-> FALSE,
     journal |-> None, manual |-> None, pending |-> FALSE]

ManualIntent(e) == e.state = "MANUAL_CLOSED" /\ e.delivery = "MANUAL_PENDING"

\* pending(): what the PWA is offered.
Pending ==
    {d \in Decisions :
        \/ led[d].state \in Exited /\ led[d].delivery \notin Delivered
        \/ ManualIntent(led[d])}

\* RuleBExitPolicy.step in the state it was given; no step where it is NONE.
PolicySteps(state, time) ==
    IF state \in Terminal THEN {}
    ELSE CASE time = "before" -> {}
           [] time = "window" -> IF state = "OPEN" THEN {"PLANNED_EXIT"} ELSE {}
           [] time = "late" -> {"LATE_EXIT"} \cup (IF state = "OPEN" THEN {"MARK_LATE"} ELSE {})
           [] time \in {"expired", "overdue"} -> {"MARK_UNRESOLVED"}

\* stepRuleB reads the state, works out the step and records it.
TickReads(d) ==
    /\ d \in open /\ tick = Nothing
    /\ \E step \in PolicySteps(led[d].state, when[d]) : tick' = {<<d, step>>}
    /\ UNCHANGED <<led, ruleB, manual, flight, acceptance, position, outcome, taps, troubles>>

\* The entry a step leaves.
Recorded(e, step) ==
    CASE step = "MARK_LATE" -> [NoEntry EXCEPT !.state = "LATE_EXIT_PENDING", !.late = TRUE]
      [] step = "MARK_UNRESOLVED" ->
            [NoEntry EXCEPT !.state = "UNRESOLVED", !.late = e.late, !.delivery = "PENDING_APPLY"]
      [] OTHER -> [NoEntry EXCEPT !.state = "EXIT_FILLED", !.late = e.late,
                                  !.delivery = "PENDING_APPLY", !.fill = step]

\* Mutation: a close by hand does not stop Rule B.
RecordRefusedIfFilled(e, step) == e.state = "EXIT_FILLED"

RecordRefused(e, step) ==
    e.state \in Terminal \/ (step = "MARK_LATE" /\ e.state = "LATE_EXIT_PENDING")

Record(d, step) ==
    /\ tick = {<<d, step>>} /\ step # "economics"
    /\ IF RecordRefused(led[d], step)
       THEN led' = led /\ tick' = Nothing
       ELSE /\ led' = [led EXCEPT ![d] = Recorded(@, step)]
            /\ tick' = IF step \in {"PLANNED_EXIT", "LATE_EXIT"} THEN {<<d, "economics">>} ELSE Nothing
    /\ UNCHANGED <<ruleB, manual, flight, acceptance, position, outcome, taps, troubles>>

\* closeEconomics runs under EvAcceptance.LOCK and may not know the fees.
PutEconomics(d) ==
    /\ tick = {<<d, "economics">>}
    /\ \E known \in BOOLEAN : led' = [led EXCEPT ![d].net = known]
    /\ tick' = Nothing
    /\ UNCHANGED <<ruleB, manual, flight, acceptance, position, outcome, taps, troubles>>

----------------------------------------------------------------------------
\* Rule B's close: offered, journaled, sent, read back, acknowledged.

Idle == [at |-> "idle", patch |-> None]

\* Mutation: the patch is worked out again for a retry.
PatchAfresh(e) ==
    IF e.state = "UNRESOLVED" THEN "unresolved" ELSE IF e.net THEN "net" ELSE "unknown"

PatchOf(e) ==
    IF e.delivery = "REMOTE_PENDING" THEN e.journal
    ELSE IF e.state = "UNRESOLVED" THEN "unresolved" ELSE IF e.net THEN "net" ELSE "unknown"

RuleBTakes(d) ==
    /\ ruleB[d] = Idle /\ d \in Pending /\ led[d].state \in Exited
    /\ ruleB' = [ruleB EXCEPT ![d] = [at |-> "journal", patch |-> PatchOf(led[d])]]
    /\ UNCHANGED <<led, tick, manual, flight, acceptance, position, outcome, taps, troubles>>

\* An update that has left is on its way, whatever becomes of the app; to a closed
\* row it makes no difference.
Sends(d, by, patch) ==
    flight' = IF row[d].state = "CLOSED" THEN flight
              ELSE flight \cup {[of |-> d, by |-> by, patch |-> patch]}

Journaled(e, patch) ==
    IF e.delivery = "PENDING_APPLY"
    THEN [e EXCEPT !.delivery = "REMOTE_PENDING", !.journal = patch] ELSE e

\* journal: the first patch stays; the PWA sends only the one that is journaled.
RuleBJournals(d) ==
    LET e == Journaled(led[d], ruleB[d].patch)
    IN /\ ruleB[d].at = "journal"
       /\ led' = [led EXCEPT ![d] = e]
       /\ IF e.delivery = "REMOTE_PENDING" /\ e.journal = ruleB[d].patch
          THEN Sends(d, "ruleB", e.journal) /\ ruleB' = [ruleB EXCEPT ![d].at = "read"]
          ELSE UNCHANGED flight /\ ruleB' = [ruleB EXCEPT ![d] = Idle]
       /\ UNCHANGED <<tick, manual, acceptance, position, outcome, taps, troubles>>

\* What the row proves; a failed attempt (noteRemoteAttempt) starts over.
RuleBReads(d) ==
    /\ ruleB[d].at = "read"
    /\ ruleB' = [ruleB EXCEPT ![d] =
         IF row[d].state = "CLOSED" /\ row[d].by = "manual" THEN [@ EXCEPT !.at = "conflict"]
         ELSE IF \/ row[d].state = "CLOSED" /\ row[d].patch = @.patch
                 \/ row[d].unresolved /\ @.patch = "unresolved" THEN [@ EXCEPT !.at = "confirm"]
         ELSE Idle]
    /\ UNCHANGED <<led, tick, manual, flight, acceptance, position, outcome, taps, troubles>>

Acknowledged(e, delivery) ==
    IF e.state \in Exited /\ e.delivery = "REMOTE_PENDING" THEN [e EXCEPT !.delivery = delivery] ELSE e

\* Mutation: a confirmed UNRESOLVED is taken for a close.
RuleBAcksAny(d) ==
    LET delivery == IF ruleB[d].at = "conflict" THEN "MANUAL_CLOSE_CONFLICT" ELSE "REMOTE_CONFIRMED"
        e == Acknowledged(led[d], delivery)
    IN /\ ruleB[d].at \in {"conflict", "confirm"}
       /\ led' = [led EXCEPT ![d] = e]
       /\ ruleB' = [ruleB EXCEPT ![d] = IF e # led[d] THEN [@ EXCEPT !.at = "mark"] ELSE Idle]
       /\ UNCHANGED <<tick, manual, flight, acceptance, position, outcome, taps, troubles>>

\* ack; a confirmed exit is marked closed by a second call.
RuleBAcks(d) ==
    LET delivery == IF ruleB[d].at = "conflict" THEN "MANUAL_CLOSE_CONFLICT" ELSE "REMOTE_CONFIRMED"
        e == Acknowledged(led[d], delivery)
    IN /\ ruleB[d].at \in {"conflict", "confirm"}
       /\ led' = [led EXCEPT ![d] = e]
       /\ ruleB' = [ruleB EXCEPT ![d] =
                      IF e # led[d] /\ e.state = "EXIT_FILLED" THEN [@ EXCEPT !.at = "mark"] ELSE Idle]
       /\ UNCHANGED <<tick, manual, flight, acceptance, position, outcome, taps, troubles>>

RuleBMarks(d) ==
    /\ ruleB[d].at = "mark" /\ MarkClosed(d)
    /\ ruleB' = [ruleB EXCEPT ![d] = Idle]
    /\ UNCHANGED <<led, tick, manual, flight, position, outcome, taps, troubles>>

----------------------------------------------------------------------------
\* The user's close.

\* No close by hand is written any more: one has won, or Rule B's is confirmed.
Decided(e) ==
    \/ e.state = "MANUAL_CLOSED" /\ e.delivery # "MANUAL_PENDING"
    \/ e.state \in Exited /\ e.delivery = "MANUAL_CLOSE_CONFLICT"
    \/ e.state = "EXIT_FILLED" /\ e.delivery = "REMOTE_CONFIRMED"

\* Mutation: the intent replaces a frozen exit.
WithIntentOverFill(e) ==
    IF e.state = "MANUAL_CLOSED" THEN e
    ELSE [e EXCEPT !.state = "MANUAL_CLOSED", !.delivery = "MANUAL_PENDING"]

\* noteManualClose: the entry with an intent on it, beside a frozen exit, or in
\* place of a position that is still open.  That the position was late is not
\* copied, so an intent withdrawn later leaves it OPEN.
WithIntent(e) ==
    IF e.state = "MANUAL_CLOSED" THEN e
    ELSE IF e.state \in Exited THEN [e EXCEPT !.pending = TRUE]
    ELSE [NoEntry EXCEPT !.state = "MANUAL_CLOSED", !.delivery = "MANUAL_PENDING"]

\* manualCloseRequest: intent and patch in one save, unless a patch is there,
\* and the lateness with them.
Requested(e, patch) ==
    IF Decided(e) \/ e.manual # None THEN e
    ELSE [WithIntent(e) EXCEPT !.manual = patch, !.late = e.late]

Asks(d) ==
    /\ manual[d] = Idle /\ d \in Exiting /\ row[d].state # "none"
    /\ taps < MaxTaps /\ taps' = taps + 1
    /\ UNCHANGED <<tick, ruleB, acceptance, position, outcome, troubles>>

\* The PWA sends the patch and reads the row back, or has nothing to send.
ManualSends(d, patch, go) ==
    IF go THEN /\ Sends(d, "manual", patch)
               /\ manual' = [manual EXCEPT ![d] = [at |-> "read", patch |-> patch]]
    ELSE UNCHANGED flight /\ manual' = [manual EXCEPT ![d] = Idle]

UserCloses(d, patch) ==
    LET e == Requested(led[d], patch)
    IN /\ Asks(d)
       /\ led' = [led EXCEPT ![d] = e]
       /\ ManualSends(d, patch, ~Decided(e) /\ e.manual = patch)

\* The older pair of calls: noteManualClose, then manualJournal.
UserNotes(d, patch) ==
    /\ Asks(d)
    /\ UNCHANGED flight
    /\ IF Decided(led[d]) THEN UNCHANGED <<led, manual>>
       ELSE /\ led' = [led EXCEPT ![d] = WithIntent(@)]
            /\ manual' = [manual EXCEPT ![d] = [at |-> "journal", patch |-> patch]]

ManualJournals(d) ==
    LET p == manual[d].patch
        e == IF (ManualIntent(led[d]) \/ led[d].pending) /\ led[d].manual = None
             THEN [led[d] EXCEPT !.manual = p] ELSE led[d]
    IN /\ manual[d].at = "journal"
       /\ led' = [led EXCEPT ![d] = e]
       /\ ManualSends(d, p, (ManualIntent(e) \/ e.pending) /\ e.manual = p)
       /\ UNCHANGED <<tick, ruleB, acceptance, position, outcome, taps, troubles>>

\* An intent the PWA finds again: sent as journaled, or, without a patch, read
\* back and withdrawn if the row is open.
Offered(d) == d \in Pending /\ (ManualIntent(led[d]) \/ led[d].pending)

Resume(d) ==
    /\ manual[d] = Idle /\ Offered(d)
    /\ \/ led[d].manual # None /\ ManualSends(d, led[d].manual, TRUE)
       \/ /\ led[d].manual = None /\ row[d].state = "CLOSED"
          /\ manual' = [manual EXCEPT ![d].at = "read"] /\ UNCHANGED flight
    /\ UNCHANGED <<led, tick, ruleB, acceptance, position, outcome, taps, troubles>>

Withdrawn(e) ==
    IF ManualIntent(e)
    THEN [NoEntry EXCEPT !.state = IF e.late THEN "LATE_EXIT_PENDING" ELSE "OPEN", !.late = e.late]
    ELSE [e EXCEPT !.pending = FALSE]

\* Mutation: an intent is withdrawn although its patch was sent.
AbandonJournaled(d) ==
    /\ manual[d] = Idle /\ Offered(d)
    /\ row[d].state = "OPEN"
    /\ led' = [led EXCEPT ![d] = Withdrawn(@)]
    /\ UNCHANGED <<tick, ruleB, manual, flight, acceptance, position, outcome, taps, troubles>>

Abandon(d) ==
    /\ manual[d] = Idle /\ Offered(d)
    /\ led[d].manual = None /\ row[d].state = "OPEN"
    /\ led' = [led EXCEPT ![d] = Withdrawn(@)]
    /\ UNCHANGED <<tick, ruleB, manual, flight, acceptance, position, outcome, taps, troubles>>

ManualReads(d) ==
    /\ manual[d].at = "read"
    /\ manual' = [manual EXCEPT ![d] =
         IF row[d].state # "CLOSED" THEN Idle
         ELSE [@ EXCEPT !.at = IF row[d].by = "manual" THEN "won" ELSE "lost"]]
    /\ UNCHANGED <<led, tick, ruleB, flight, acceptance, position, outcome, taps, troubles>>

\* manualResult: the entry once the readback has decided.
Arbitrated(e, result) ==
    CASE result = "lost" /\ e.state = "EXIT_FILLED" -> [e EXCEPT !.pending = FALSE]
      [] result = "won" /\ e.state = "MANUAL_CLOSED" ->
            [e EXCEPT !.delivery = "REMOTE_CONFIRMED", !.pending = FALSE]
      [] /\ result = "won" /\ e.state \in Exited
         /\ ~(e.state = "EXIT_FILLED" /\ e.delivery = "REMOTE_CONFIRMED") ->
            [e EXCEPT !.delivery = "MANUAL_CLOSE_CONFLICT", !.pending = FALSE]
      [] OTHER -> e

ManualResult(d) ==
    /\ manual[d].at \in {"won", "lost"}
    /\ led' = [led EXCEPT ![d] = Arbitrated(@, manual[d].at)]
    /\ manual' = [manual EXCEPT ![d] =
                    IF /\ @.at = "won" /\ led[d].state \in Terminal
                       /\ ~(led[d].state = "EXIT_FILLED" /\ led[d].delivery = "REMOTE_CONFIRMED")
                    THEN [@ EXCEPT !.at = "mark"] ELSE Idle]
    /\ UNCHANGED <<tick, ruleB, flight, acceptance, position, outcome, taps, troubles>>

ManualMarks(d) ==
    /\ manual[d].at = "mark" /\ MarkClosed(d)
    /\ manual' = [manual EXCEPT ![d] = Idle]
    /\ UNCHANGED <<led, tick, ruleB, flight, position, outcome, taps, troubles>>

----------------------------------------------------------------------------
\* The server: the update has status = OPEN in its condition.
Arrives(m) ==
    /\ m \in flight
    /\ flight' = {f \in flight : IF m.patch = "unresolved" THEN f # m ELSE f.of # m.of}
    /\ row' = [row EXCEPT ![m.of] =
                 IF m.patch = "unresolved" THEN [@ EXCEPT !.unresolved = TRUE]
                 ELSE [@ EXCEPT !.state = "CLOSED", !.by = m.by, !.patch = m.patch]]
    /\ UNCHANGED <<acceptance, open, copy, when, led, tick, ruleB, manual, outcome, taps, troubles>>

\* An update is lost, or the app stopped between the journal and the request.
Lose(m) ==
    /\ m \in flight /\ flight' = flight \ {m}
    /\ troubles < MaxTroubles /\ troubles' = troubles + 1
    /\ UNCHANGED <<acceptance, position, led, tick, ruleB, manual, outcome, taps>>

\* _accepted_outcome: [status, final]; seen says whether closed_trades has the row.
ManualWon(e) ==
    \/ e.delivery = "MANUAL_CLOSE_CONFLICT"
    \/ e.state = "MANUAL_CLOSED" /\ e.delivery = "REMOTE_CONFIRMED"

\* Mutation: the fill decides before its delivery.
OutcomeOfFill(d, seen) ==
    IF led[d].state = "EXIT_FILLED" THEN [status |-> led[d].fill, final |-> TRUE]
    ELSE [status |-> "OPEN", final |-> FALSE]

AcceptedOutcome(d, seen) ==
    LET e == led[d]
        result(status, final) == [status |-> status, final |-> final]
    IN CASE acc[d].state \notin Taken ->
              IF seen \/ d \in open THEN result("ACCEPTED_LEDGER_MISSING", FALSE)
              ELSE result("NEVER_ACCEPTED", TRUE)
         [] acc[d].state \in Taken /\ ManualWon(e) -> result("MANUAL_EARLY_CLOSE", seen)
         [] acc[d].state \in Taken /\ ~ManualWon(e) /\ e.state \in Terminal ->
              IF e.delivery # "REMOTE_CONFIRMED" \/ e.pending THEN result("PENDING_ARBITRATION", FALSE)
              ELSE result(IF e.state = "EXIT_FILLED" THEN e.fill ELSE "UNRESOLVED", TRUE)
         [] OTHER ->
              IF seen /\ row[d].by = "manual" THEN result("MANUAL_EARLY_CLOSE", TRUE)
              ELSE result("OPEN", FALSE)

\* step_trackers freezes the outcome after the expiry, once it is final or overdue.
Freeze(d) ==
    /\ outcome[d] = None /\ when[d] \in {"expired", "overdue"}
    /\ \E seen \in {FALSE, row[d].state = "CLOSED"} :
         LET o == AcceptedOutcome(d, seen)
         IN /\ o.final \/ when[d] = "overdue"
            /\ outcome' = [outcome EXCEPT ![d] = IF o.final THEN o.status ELSE "UNKNOWN"]
    /\ UNCHANGED <<acceptance, position, close, taps, troubles>>

----------------------------------------------------------------------------
\* The WebView is loaded again: a call into the bridge goes on.
Calling(w) == w.at = "mark"

Reload ==
    /\ troubles < MaxTroubles /\ troubles' = troubles + 1
    /\ ruleB' = [d \in Decisions |-> IF Calling(ruleB[d]) THEN ruleB[d] ELSE Idle]
    /\ manual' = [d \in Decisions |-> IF Calling(manual[d]) THEN manual[d] ELSE Idle]
    /\ dialog' = [d \in Decisions |-> {}]
    /\ UNCHANGED <<acc, lapsed, ask, position, led, tick, flight, outcome, taps>>

\* The process dies: files, preferences and updates under way stay.
Die ==
    /\ troubles < MaxTroubles /\ troubles' = troubles + 1
    /\ tick' = Nothing /\ copy' = Nothing
    /\ ask' = [d \in Decisions |-> Nothing] /\ dialog' = [d \in Decisions |-> {}]
    /\ ruleB' = [d \in Decisions |-> Idle] /\ manual' = [d \in Decisions |-> Idle]
    /\ UNCHANGED <<acc, lapsed, row, open, when, led, flight, outcome, taps>>

Init ==
    /\ acc = [d \in Decisions |-> [state |-> "none", rid |-> 0]]
    /\ lapsed = {}
    /\ ask = [d \in Decisions |-> Nothing] /\ dialog = [d \in Decisions |-> {}]
    /\ row = [d \in Decisions |-> [state |-> "none", by |-> None, patch |-> None, unresolved |-> FALSE]]
    /\ open = {} /\ copy = Nothing
    /\ when = [d \in Decisions |-> "before"]
    /\ led = [d \in Decisions |-> NoEntry]
    /\ tick = Nothing /\ flight = {}
    /\ ruleB = [d \in Decisions |-> Idle] /\ manual = [d \in Decisions |-> Idle]
    /\ outcome = [d \in Decisions |-> None]
    /\ taps = 0 /\ troubles = 0

\* What the app and the server do once it is asked of them.
Settling(d) ==
    \/ Insert(d) \/ MarkPersisted(d) \/ Install(d) \/ Reconcile(d) \/ Uninstall(d)
    \/ RuleBTakes(d) \/ RuleBJournals(d) \/ RuleBReads(d)
    \/ RuleBAcks(d) \/ RuleBMarks(d)
    \/ ManualJournals(d) \/ Resume(d) \/ Abandon(d)
    \/ ManualReads(d) \/ ManualResult(d) \/ ManualMarks(d)

Next ==
    \/ \E d \in Decisions :
        \/ AskPrepare(d) \/ Prepare(d) \/ Lapse(d)
        \/ \E r \in dialog[d] : Confirm(d, r) \/ Cancel(d, r)
        \/ PassTime(d) \/ TickReads(d) \/ PutEconomics(d) \/ Freeze(d)
        \/ \E step \in {"PLANNED_EXIT", "LATE_EXIT", "MARK_LATE", "MARK_UNRESOLVED"} : Record(d, step)
        \/ \E patch \in ManualPatches : UserCloses(d, patch) \/ UserNotes(d, patch)
        \/ Settling(d)
    \/ \E m \in flight : Arrives(m) \/ Lose(m)
    \/ CopyTrades \/ WriteTrades \/ Reload \/ Die

Spec == Init /\ [][Next]_vars

(***************************************************************************)
(* The app is opened again and again until nothing is left to do, the      *)
(* server takes what reaches it; nobody has to tap, and no time passes.    *)
(***************************************************************************)
Updates == [of : Decisions, by : {"ruleB", "manual"},
            patch : ManualPatches \cup {"net", "unknown", "unresolved"}]

Fairness ==
    /\ \A m \in Updates : WF_vars(Arrives(m))
    /\ \A d \in Decisions :
        /\ WF_vars(Insert(d)) /\ WF_vars(MarkPersisted(d)) /\ SF_vars(Install(d))
        /\ WF_vars(Reconcile(d))
        /\ WF_vars(RuleBTakes(d)) /\ WF_vars(RuleBJournals(d))
        /\ WF_vars(RuleBReads(d)) /\ WF_vars(RuleBAcks(d)) /\ WF_vars(RuleBMarks(d))

FairSpec == Spec /\ Fairness

----------------------------------------------------------------------------
Patches == ManualPatches \cup {"net", "unknown", "unresolved"}

TypeOK ==
    /\ acc \in [Decisions -> [state : {"none", "RESERVED"} \cup Taken, rid : 0..MaxPrepares]]
    /\ lapsed \subseteq Decisions
    /\ ask \in [Decisions -> SUBSET (Decisions \cup {None})]
    /\ dialog \in [Decisions -> SUBSET (1..MaxPrepares)]
    /\ row \in [Decisions -> [state : {"none", "OPEN", "CLOSED"}, by : {None, "ruleB", "manual"},
                              patch : Patches \cup {None}, unresolved : BOOLEAN]]
    /\ open \subseteq Decisions /\ copy \subseteq Decisions \cup {None}
    /\ when \in [Decisions -> {Times[i] : i \in 1..5}]
    /\ led \in [Decisions ->
            [state : Terminal \cup {"OPEN", "LATE_EXIT_PENDING"}, late : BOOLEAN,
             delivery : Delivered \cup {"none", "PENDING_APPLY", "REMOTE_PENDING", "MANUAL_PENDING"},
             fill : {None, "PLANNED_EXIT", "LATE_EXIT"}, net : BOOLEAN,
             journal : Patches \cup {None}, manual : ManualPatches \cup {None}, pending : BOOLEAN]]
    /\ \A d \in Decisions : led[d].state = "EXIT_FILLED" <=> led[d].fill # None
    /\ tick \subseteq Decisions \X {"PLANNED_EXIT", "LATE_EXIT", "MARK_LATE", "MARK_UNRESOLVED", "economics"}
           \cup {None}
    /\ Cardinality(tick) = 1
    /\ flight \subseteq Updates
    /\ \A d \in Decisions : ruleB[d].patch \in Patches \cup {None} /\ manual[d].patch \in ManualPatches \cup {None}
    /\ taps \in 0..MaxTaps /\ troubles \in 0..MaxTroubles

\* However reservations, confirmations, stale lists and restarts interleave, the
\* experiment never has more positions than its limit, taken or on the server,
\* and never two of one structure and expiry.
Positions == {d \in Decisions : acc[d].state \in {"COMMITTED", "PERSISTED"} \/ row[d].state = "OPEN"}

LimitHolds ==
    /\ Cardinality(Positions) <= MaxOpen
    /\ \A x, y \in Positions : StructureOf[x] = StructureOf[y] => x = y

\* Whatever reaches the server is the patch journaled for its writer, so that a
\* restart sends the same one and the readback recognises it.
JournalTellsRow ==
    \A d \in Decisions :
        LET sent(by) == {m.patch : m \in {f \in flight : f.of = d /\ f.by = by}}
                          \cup (IF row[d].by = by THEN {row[d].patch} ELSE {})
        IN sent("ruleB") \subseteq {led[d].journal} /\ sent("manual") \subseteq {led[d].manual}

\* The ledgers claim a close only when the row has it, and name its writer.
ClaimsProven ==
    \A d \in Decisions :
        /\ acc[d].state = "CLOSED" => row[d].state = "CLOSED"
        /\ ManualWon(led[d]) => row[d].by = "manual"
        /\ led[d].state = "EXIT_FILLED" /\ led[d].delivery = "REMOTE_CONFIRMED" => row[d].by = "ruleB"

\* An outcome frozen as final is what became of the position.
OutcomeTrue ==
    \A d \in Decisions :
        CASE outcome[d] = "MANUAL_EARLY_CLOSE" -> row[d].by = "manual"
          [] outcome[d] \in {"PLANNED_EXIT", "LATE_EXIT"} -> row[d].by = "ruleB" /\ led[d].fill = outcome[d]
          [] outcome[d] = "NEVER_ACCEPTED" -> row[d].state = "none"
          [] outcome[d] = "UNRESOLVED" -> row[d].by # "ruleB"
          [] OTHER -> TRUE

\* A frozen exit, a journaled patch and a proven winner stay, and a close by hand
\* that has its patch keeps the position from Rule B.
CloseStands ==
    [][\A d \in Decisions :
        /\ led[d].fill # None => led'[d].fill = led[d].fill
        /\ led[d].journal # None => led'[d].journal = led[d].journal
        /\ led[d].manual # None => led'[d].manual = led[d].manual
        /\ led[d].state = "MANUAL_CLOSED" /\ led[d].manual # None => led'[d].state = "MANUAL_CLOSED"
        /\ ManualWon(led[d]) => ManualWon(led'[d])]_vars

\* A frozen exit is settled in the end: the row is closed by one of the writers
\* and the acceptance with it, which frees the experiment's place.
FillSettles ==
    \A d \in Exiting : led[d].state = "EXIT_FILLED" ~> acc[d].state = "CLOSED"

\* A committed decision becomes a watched position, unless it is closed before.
CommitArrives ==
    \A d \in Decisions : acc[d].state = "COMMITTED" ~> (d \in open \/ row[d].state = "CLOSED")

=============================================================================
