-------------------------- MODULE RuleBTradeProofs --------------------------
(***************************************************************************)
(* Theorems about Rule B fills and the acceptance of implied-EV decisions, *)
(* for any finite set of decisions, any limit of open positions, any       *)
(* closes by hand and any number of deaths, reloads and lost updates.      *)
(***************************************************************************)
EXTENDS RuleBTrade, FiniteSetTheorems, TLAPS

\* More time for a leaf than by default, for slow or busy machines.
USE SMTT(30), ZenonT(30)

States == Terminal \cup {"OPEN", "LATE_EXIT_PENDING"}

Deliveries == Delivered \cup {"none", "PENDING_APPLY", "REMOTE_PENDING", "MANUAL_PENDING"}

Fills == {None, "PLANNED_EXIT", "LATE_EXIT"}

Steps == {"PLANNED_EXIT", "LATE_EXIT", "MARK_LATE", "MARK_UNRESOLVED", "economics"}

Entry ==
    [state : States, late : BOOLEAN, delivery : Deliveries, fill : Fills, net : BOOLEAN,
     journal : Patches \cup {None}, manual : ManualPatches \cup {None}, pending : BOOLEAN]

\* What Rule B sends, none of which a close by hand can be taken for.
Codes == {"net", "unknown", "unresolved"}

LEMMA ConstantsAre ==
    /\ IsFiniteSet(Decisions) /\ None \notin Decisions /\ Exiting \subseteq Decisions
    /\ None \notin ManualPatches /\ None \notin Codes /\ ManualPatches \cap Codes = {}
    /\ None \notin {"PLANNED_EXIT", "LATE_EXIT"} /\ None # "ruleB" /\ None # "manual"
    /\ None \notin {"MANUAL_EARLY_CLOSE", "NEVER_ACCEPTED", "UNRESOLVED"}
    /\ MaxOpen \in Nat \ {0} /\ MaxPrepares \in Nat /\ MaxTaps \in Nat /\ MaxTroubles \in Nat
    /\ None \notin Decisions \X Steps
    /\ Patches = ManualPatches \cup Codes
  BY TradeAssumption DEF TradeAssumption, Codes, Fills, Patches, Steps

-----------------------------------------------------------------------------
(***************************************************************************)
(* The entries of the Rule B ledger: which fields go together, and what    *)
(* each operation on an entry leaves of it.                                *)
(***************************************************************************)
EntryShape(e) ==
    /\ e.state \notin Terminal =>
          e.delivery = "none" /\ e.journal = None /\ e.manual = None /\ ~e.pending
    /\ e.state = "MANUAL_CLOSED" =>
          e.journal = None /\ e.delivery \in {"MANUAL_PENDING", "REMOTE_CONFIRMED"}
    /\ e.state \in Exited => e.delivery \in Delivered \cup {"PENDING_APPLY", "REMOTE_PENDING"}
    /\ e.state = "EXIT_FILLED" <=> e.fill # None
    /\ e.delivery = "PENDING_APPLY" => e.journal = None
    /\ e.state \in Exited /\ e.delivery \in {"REMOTE_PENDING", "REMOTE_CONFIRMED"} =>
          e.journal # None
    /\ e.journal # None =>
          e.journal \in Codes /\ (e.journal = "unresolved" <=> e.state = "UNRESOLVED")

GoodEntry(e) == e \in Entry /\ EntryShape(e)

Confirmed(e) == e.state = "EXIT_FILLED" /\ e.delivery = "REMOTE_CONFIRMED"

\* A frozen exit, a journaled patch and a proven winner stay.
Stands(e, f) ==
    /\ e.fill # None => f.fill = e.fill
    /\ e.journal # None => f.journal = e.journal
    /\ e.manual # None => f.manual = e.manual
    /\ e.state = "MANUAL_CLOSED" /\ e.manual # None => f.state = "MANUAL_CLOSED"
    /\ ManualWon(e) => ManualWon(f)

\* The entry after an operation: good, nothing lost, an exit still an exit.
Follows(e, f) == GoodEntry(f) /\ Stands(e, f) /\ (e.state \in Exited => f.state = e.state)

\* No winner is named that was not named before.
ClaimsNothing(e, f) == (ManualWon(f) => ManualWon(e)) /\ (Confirmed(f) => Confirmed(e))

LEMMA NoEntryIs == GoodEntry(NoEntry)
  BY ConstantsAre DEF GoodEntry, Entry, EntryShape, States, Deliveries, Fills,
     Delivered, Terminal, Exited, NoEntry, Codes

LEMMA RecordedIs ==
    ASSUME NEW e, GoodEntry(e), NEW step \in Steps \ {"economics"}, ~RecordRefused(e, step)
    PROVE  /\ Follows(e, Recorded(e, step))
           /\ ClaimsNothing(e, Recorded(e, step))
           /\ Recorded(e, step).journal = e.journal /\ Recorded(e, step).manual = e.manual
<1>1. Recorded(e, step) \in Entry
  BY ConstantsAre DEF GoodEntry, Entry, States, Deliveries, Fills, Delivered,
     Terminal, Exited, NoEntry, Recorded, RecordRefused, Steps
<1>2. EntryShape(Recorded(e, step))
  <2>1. CASE step = "MARK_LATE"
    BY <2>1, ConstantsAre DEF EntryShape, Terminal, Exited, Delivered, NoEntry, Recorded
  <2>2. CASE step = "MARK_UNRESOLVED"
    BY <2>2, ConstantsAre DEF EntryShape, Terminal, Exited, Delivered, NoEntry, Recorded
  <2>3. CASE step = "PLANNED_EXIT"
    BY <2>3, ConstantsAre DEF EntryShape, Terminal, Exited, Delivered, NoEntry, Recorded, Fills
  <2>4. CASE step = "LATE_EXIT"
    BY <2>4, ConstantsAre DEF EntryShape, Terminal, Exited, Delivered, NoEntry, Recorded, Fills
  <2>5. QED
    BY <2>1, <2>2, <2>3, <2>4 DEF Steps
<1>3. QED
  BY ConstantsAre, <1>1, <1>2 DEF GoodEntry, Entry, EntryShape, Follows, Stands,
     ClaimsNothing, ManualWon, Confirmed, States, Deliveries, Fills, Delivered,
     Terminal, Exited, NoEntry, Codes, Recorded, RecordRefused, Steps

LEMMA EconomicsIs ==
    ASSUME NEW e, GoodEntry(e), NEW known \in BOOLEAN
    PROVE  /\ Follows(e, [e EXCEPT !.net = known])
           /\ ClaimsNothing(e, [e EXCEPT !.net = known])
           /\ [e EXCEPT !.net = known].journal = e.journal
           /\ [e EXCEPT !.net = known].manual = e.manual
           /\ [e EXCEPT !.net = known].state = e.state
<1>1. [e EXCEPT !.net = known] \in Entry
  BY ConstantsAre DEF GoodEntry, Entry, States, Deliveries, Fills, Delivered,
     Terminal, Exited, NoEntry, ManualIntent
<1>2. EntryShape([e EXCEPT !.net = known])
  BY ConstantsAre DEF GoodEntry, Entry, EntryShape, States, Deliveries, Fills,
     Delivered, Terminal, Exited, NoEntry, Codes, ManualIntent
<1>3. QED
  BY ConstantsAre, <1>1, <1>2 DEF GoodEntry, Entry, EntryShape, Follows, Stands,
     ClaimsNothing, ManualWon, Confirmed, States, Deliveries, Fills, Delivered,
     Terminal, Exited, NoEntry, Codes, ManualIntent

LEMMA JournaledIs ==
    ASSUME NEW e, GoodEntry(e), NEW patch \in Codes,
           e.state \in Exited, patch = "unresolved" <=> e.state = "UNRESOLVED"
    PROVE  /\ Follows(e, Journaled(e, patch))
           /\ ClaimsNothing(e, Journaled(e, patch)) /\ Journaled(e, patch).manual = e.manual
           /\ Journaled(e, patch).journal \in {e.journal, patch}
<1>1. Journaled(e, patch) \in Entry
  BY ConstantsAre DEF GoodEntry, Entry, States, Deliveries, Fills, Delivered,
     Terminal, Exited, NoEntry, Journaled
<1>2. EntryShape(Journaled(e, patch))
  BY ConstantsAre DEF GoodEntry, Entry, EntryShape, States, Deliveries, Fills,
     Delivered, Terminal, Exited, NoEntry, Codes, Journaled
<1>3. QED
  BY ConstantsAre, <1>1, <1>2 DEF GoodEntry, Entry, EntryShape, Follows, Stands,
     ClaimsNothing, ManualWon, Confirmed, States, Deliveries, Fills, Delivered,
     Terminal, Exited, NoEntry, Codes, Journaled

LEMMA AcknowledgedIs ==
    ASSUME NEW e, GoodEntry(e), NEW delivery \in Delivered
    PROVE  /\ Follows(e, Acknowledged(e, delivery))
           /\ Acknowledged(e, delivery).journal = e.journal /\ Acknowledged(e, delivery).manual = e.manual
           /\ \/ ClaimsNothing(e, Acknowledged(e, delivery))
              \/ /\ e.state \in Exited /\ e.delivery = "REMOTE_PENDING"
                 /\ Acknowledged(e, delivery).delivery = delivery
           /\ Acknowledged(e, delivery) # e => e.state \in Exited
<1>1. Acknowledged(e, delivery) \in Entry
  BY ConstantsAre DEF GoodEntry, Entry, States, Deliveries, Fills, Delivered,
     Terminal, Exited, NoEntry, Acknowledged
<1>2. EntryShape(Acknowledged(e, delivery))
  BY ConstantsAre DEF GoodEntry, Entry, EntryShape, States, Deliveries, Fills,
     Delivered, Terminal, Exited, NoEntry, Codes, Acknowledged
<1>3. QED
  BY ConstantsAre, <1>1, <1>2 DEF GoodEntry, Entry, EntryShape, Follows, Stands,
     ClaimsNothing, ManualWon, Confirmed, States, Deliveries, Fills, Delivered,
     Terminal, Exited, NoEntry, Codes, Acknowledged

LEMMA WithIntentIs ==
    ASSUME NEW e, GoodEntry(e)
    PROVE  /\ Follows(e, WithIntent(e))
           /\ ClaimsNothing(e, WithIntent(e))
           /\ WithIntent(e).journal = e.journal /\ WithIntent(e).manual = e.manual
           /\ WithIntent(e).state \in Terminal
<1>1. WithIntent(e) \in Entry
  BY ConstantsAre DEF GoodEntry, Entry, States, Deliveries, Fills, Delivered,
     Terminal, Exited, NoEntry, WithIntent
<1>2. EntryShape(WithIntent(e))
  BY ConstantsAre DEF GoodEntry, Entry, EntryShape, States, Deliveries, Fills,
     Delivered, Terminal, Exited, NoEntry, Codes, WithIntent
<1>3. QED
  BY ConstantsAre, <1>1, <1>2 DEF GoodEntry, Entry, EntryShape, Follows, Stands,
     ClaimsNothing, ManualWon, Confirmed, States, Deliveries, Fills, Delivered,
     Terminal, Exited, NoEntry, Codes, WithIntent

LEMMA JournalByHandIs ==
    ASSUME NEW e, GoodEntry(e), NEW patch \in ManualPatches,
           e.manual = None, e.state \in Terminal
    PROVE  /\ Follows(e, [e EXCEPT !.manual = patch])
           /\ ClaimsNothing(e, [e EXCEPT !.manual = patch])
           /\ [e EXCEPT !.manual = patch].journal = e.journal
           /\ [e EXCEPT !.manual = patch].manual = patch
           /\ [e EXCEPT !.manual = patch].state = e.state
<1>1. [e EXCEPT !.manual = patch] \in Entry
  BY ConstantsAre DEF GoodEntry, Entry, States, Deliveries, Fills, Delivered,
     Terminal, Exited, NoEntry, ManualIntent
<1>2. EntryShape([e EXCEPT !.manual = patch])
  BY ConstantsAre DEF GoodEntry, Entry, EntryShape, States, Deliveries, Fills,
     Delivered, Terminal, Exited, NoEntry, Codes, ManualIntent
<1>3. QED
  BY ConstantsAre, <1>1, <1>2 DEF GoodEntry, Entry, EntryShape, Follows, Stands,
     ClaimsNothing, ManualWon, Confirmed, States, Deliveries, Fills, Delivered,
     Terminal, Exited, NoEntry, Codes, ManualIntent

\* That the position was late when the intent came bears on nothing else.
LEMMA LatenessIs ==
    ASSUME NEW e, GoodEntry(e), NEW late \in BOOLEAN
    PROVE  /\ Follows(e, [e EXCEPT !.late = late])
           /\ ClaimsNothing(e, [e EXCEPT !.late = late])
           /\ [e EXCEPT !.late = late].journal = e.journal
           /\ [e EXCEPT !.late = late].manual = e.manual
<1>1. [e EXCEPT !.late = late] \in Entry
  BY DEF GoodEntry, Entry
<1>2. EntryShape([e EXCEPT !.late = late])
  BY <1>1 DEF GoodEntry, Entry, EntryShape
<1>3. QED
  BY <1>1, <1>2 DEF GoodEntry, Entry, EntryShape, Follows, Stands, ClaimsNothing,
     ManualWon, Confirmed

LEMMA RequestedIs ==
    ASSUME NEW e, GoodEntry(e), NEW patch \in ManualPatches
    PROVE  /\ Follows(e, Requested(e, patch)) /\ ClaimsNothing(e, Requested(e, patch))
           /\ Requested(e, patch).journal = e.journal
           /\ \/ Requested(e, patch).manual = e.manual
              \/ e.manual = None /\ Requested(e, patch).manual = patch
<1>1. CASE Decided(e) \/ e.manual # None
  <2>1. Requested(e, patch) = e
    BY <1>1 DEF Requested
  <2>2. Follows(e, e) /\ ClaimsNothing(e, e)
    BY DEF Follows, Stands, ClaimsNothing
  <2>3. Follows(e, Requested(e, patch)) /\ ClaimsNothing(e, Requested(e, patch))
    BY <2>1, <2>2, Zenon
  <2>4. QED
    BY <2>1, <2>3, Zenon
<1>2. CASE ~Decided(e) /\ e.manual = None
  <2> DEFINE w == WithIntent(e)
             g == [w EXCEPT !.manual = patch]
             f == [g EXCEPT !.late = e.late]
  <2>1. /\ Follows(e, w) /\ ClaimsNothing(e, w) /\ w.journal = e.journal /\ w.manual = None
        /\ w.state \in Terminal
    BY <1>2, WithIntentIs
  <2>2. GoodEntry(w)
    BY <2>1 DEF Follows
  <2> HIDE DEF w
  <2>3. /\ Follows(w, g) /\ ClaimsNothing(w, g) /\ g.journal = w.journal /\ g.manual = patch
        /\ g.state = w.state
    BY <2>1, <2>2, JournalByHandIs
  <2>4. Requested(e, patch) = f
    <3>1. Requested(e, patch) = [w EXCEPT !.manual = patch, !.late = e.late]
      BY <1>2 DEF Requested, w
    <3>2. QED
      BY <2>2, <3>1 DEF GoodEntry, Entry
  <2> HIDE DEF g
  <2>5. GoodEntry(g) /\ e.late \in BOOLEAN
    BY <2>3 DEF Follows, GoodEntry, Entry
  <2>6. Follows(g, f) /\ ClaimsNothing(g, f) /\ f.journal = g.journal /\ f.manual = g.manual
    BY <2>5, LatenessIs
  <2> HIDE DEF f
  <2>7. Follows(e, f) /\ ClaimsNothing(e, f)
    BY <1>2, <2>1, <2>3, <2>6 DEF Follows, Stands, ClaimsNothing
  <2>8. QED
    BY <1>2, <2>1, <2>3, <2>4, <2>6, <2>7
<1>3. QED
  BY <1>1, <1>2

LEMMA WithdrawnIs ==
    ASSUME NEW e, GoodEntry(e), e.manual = None, ManualIntent(e) \/ e.pending
    PROVE  /\ Follows(e, Withdrawn(e))
           /\ ClaimsNothing(e, Withdrawn(e))
           /\ Withdrawn(e).journal = e.journal /\ Withdrawn(e).manual = e.manual
           /\ e.state # "OPEN"
<1>1. Withdrawn(e) \in Entry
  <2>1. e \in Entry /\ NoEntry \in Entry
    BY NoEntryIs DEF GoodEntry
  <2>2. CASE ManualIntent(e)
    <3>1. e.late \in BOOLEAN
      BY <2>1 DEF Entry
    <3>2. ASSUME NEW late \in BOOLEAN, NEW state \in States
          PROVE  [NoEntry EXCEPT !.state = state, !.late = late] \in Entry
      BY <2>1 DEF Entry
    <3>3. PICK state \in States :
             Withdrawn(e) = [NoEntry EXCEPT !.state = state, !.late = e.late]
      BY <2>2 DEF Withdrawn, States
    <3>4. QED
      BY <3>1, <3>2, <3>3
  <2>3. CASE ~ManualIntent(e)
    BY <2>1, <2>3 DEF Withdrawn, Entry
  <2>4. QED
    BY <2>2, <2>3
<1>2. EntryShape(Withdrawn(e))
  BY ConstantsAre DEF GoodEntry, Entry, EntryShape, States, Deliveries, Fills,
     Delivered, Terminal, Exited, NoEntry, Codes, Withdrawn, ManualIntent
<1>3. QED
  BY ConstantsAre, <1>1, <1>2 DEF GoodEntry, Entry, EntryShape, Follows, Stands,
     ClaimsNothing, ManualWon, Confirmed, States, Deliveries, Fills, Delivered,
     Terminal, Exited, NoEntry, Codes, Withdrawn, ManualIntent

LEMMA ArbitratedIs ==
    ASSUME NEW e, GoodEntry(e), NEW result \in {"won", "lost"}
    PROVE  /\ Follows(e, Arbitrated(e, result))
           /\ Arbitrated(e, result).journal = e.journal /\ Arbitrated(e, result).manual = e.manual
           /\ Confirmed(Arbitrated(e, result)) => Confirmed(e)
           /\ ManualWon(Arbitrated(e, result)) => ManualWon(e) \/ result = "won"
           /\ Arbitrated(e, result).state = e.state
<1>1. Arbitrated(e, result) \in Entry
  BY ConstantsAre DEF GoodEntry, Entry, States, Deliveries, Fills, Delivered,
     Terminal, Exited, NoEntry, Arbitrated
<1>2. EntryShape(Arbitrated(e, result))
  BY ConstantsAre DEF GoodEntry, Entry, EntryShape, States, Deliveries, Fills,
     Delivered, Terminal, Exited, NoEntry, Codes, Arbitrated
<1>3. QED
  BY ConstantsAre, <1>1, <1>2 DEF GoodEntry, Entry, EntryShape, Follows, Stands,
     ClaimsNothing, ManualWon, Confirmed, States, Deliveries, Fills, Delivered,
     Terminal, Exited, NoEntry, Codes, Arbitrated

-----------------------------------------------------------------------------
(***************************************************************************)
(* The inductive invariant: the types with the shape of the entries, and   *)
(* for each decision how acceptance, row, ledger, the two closes and the   *)
(* updates under way hang together.                                        *)
(***************************************************************************)
RecordsType ==
    /\ acc \in [Decisions -> [state : {"none", "RESERVED"} \cup Taken, rid : 0..MaxPrepares]]
    /\ \A d \in Decisions : acc[d].state = "RESERVED" => acc[d].rid # 0

AcceptanceType ==
    /\ RecordsType
    /\ lapsed \subseteq Decisions
    /\ ask \in [Decisions -> SUBSET (Decisions \cup {None})]
    /\ \A d \in Decisions : ask[d] = Nothing \/ ask[d] \subseteq Decisions
    /\ dialog \in [Decisions -> SUBSET (1..MaxPrepares)]

PositionType ==
    /\ row \in [Decisions -> [state : {"none", "OPEN", "CLOSED"}, by : {None, "ruleB", "manual"},
                              patch : Patches \cup {None}, unresolved : BOOLEAN]]
    /\ open \subseteq Decisions
    /\ copy = Nothing \/ copy \subseteq Decisions
    /\ when \in [Decisions -> {"before", "window", "late", "expired", "overdue"}]

LedgerType ==
    /\ led \in [Decisions -> Entry]
    /\ \A d \in Decisions : EntryShape(led[d])
    /\ tick = Nothing \/ \E d \in Decisions, step \in Steps : tick = {<<d, step>>}

CloseType ==
    /\ ruleB \in [Decisions -> [at : {"idle", "journal", "read", "conflict", "confirm", "mark"},
                                patch : Codes \cup {None}]]
    /\ manual \in [Decisions -> [at : {"idle", "journal", "read", "won", "lost", "mark"},
                                 patch : ManualPatches \cup {None}]]
    /\ flight \subseteq Updates

CountType ==
    /\ outcome \in [Decisions -> {None, "MANUAL_EARLY_CLOSE", "PLANNED_EXIT", "LATE_EXIT",
                                  "UNRESOLVED", "NEVER_ACCEPTED", "UNKNOWN"}]
    /\ taps \in 0..MaxTaps /\ troubles \in 0..MaxTroubles

Typed == AcceptanceType /\ PositionType /\ LedgerType /\ CloseType /\ CountType

\* Who has a row was taken; nothing is taken after the day of the decision.
AcceptedTrue(d) ==
    /\ row[d].state # "none" => acc[d].state \in Taken
    /\ acc[d].state = "CLOSED" => row[d].state = "CLOSED"
    /\ when[d] # "before" => ask[d] = Nothing /\ dialog[d] = {}

\* The app deals with the position.
Watched(d) ==
    \/ led[d].state # "OPEN" \/ d \in open \/ d \in copy
    \/ \E step \in Steps : tick = {<<d, step>>}

\* Only a row that exists is watched, and a closed one gets no more updates.
RowTrue(d) ==
    /\ Watched(d) => row[d].state # "none"
    /\ row[d].state = "CLOSED" <=> row[d].by # None
    /\ row[d].state = "CLOSED" =>
          row[d].patch \notin {None, "unresolved"} /\ \A m \in flight : m.of # d

\* Whatever was sent is what is journaled for its writer.
SentTrue(d) ==
    /\ \A m \in flight : m.of = d /\ m.by = "ruleB" => m.patch = led[d].journal
    /\ \A m \in flight : m.of = d /\ m.by = "manual" => m.patch = led[d].manual
    /\ row[d].by = "ruleB" => row[d].patch = led[d].journal
    /\ row[d].by = "manual" => row[d].patch = led[d].manual

ClaimsTrue(d) ==
    /\ ManualWon(led[d]) => row[d].by = "manual"
    /\ Confirmed(led[d]) => row[d].by = "ruleB"

\* What Rule B's delivery knows at each of its calls.
RuleBTrue(d) ==
    /\ ruleB[d].at = "journal" =>
          /\ led[d].state \in Exited /\ ruleB[d].patch \in Codes
          /\ ruleB[d].patch = "unresolved" <=> led[d].state = "UNRESOLVED"
    /\ ruleB[d].at \in {"read", "confirm", "conflict"} =>
          ruleB[d].patch = led[d].journal /\ ruleB[d].patch # None
    /\ ruleB[d].at = "conflict" => row[d].by = "manual"
    /\ ruleB[d].at = "confirm" => ruleB[d].patch = "unresolved" \/ row[d].by = "ruleB"
    /\ ruleB[d].at = "mark" => row[d].state = "CLOSED"

ManualTrue(d) ==
    /\ manual[d].at = "journal" => manual[d].patch # None
    /\ manual[d].at \in {"won", "mark"} => row[d].by = "manual"

OutcomeIs(d) ==
    /\ outcome[d] = "MANUAL_EARLY_CLOSE" => row[d].by = "manual"
    /\ outcome[d] \in {"PLANNED_EXIT", "LATE_EXIT"} =>
          row[d].by = "ruleB" /\ led[d].fill = outcome[d]
    /\ outcome[d] = "NEVER_ACCEPTED" => acc[d].state \notin Taken /\ when[d] # "before"
    /\ outcome[d] = "UNRESOLVED" => led[d].state = "UNRESOLVED"

Local(d) ==
    /\ AcceptedTrue(d) /\ RowTrue(d) /\ SentTrue(d) /\ ClaimsTrue(d)
    /\ RuleBTrue(d) /\ ManualTrue(d) /\ OutcomeIs(d)

\* Reservations count as positions, the lapsed ones that can still be confirmed too.
Held == {d \in Decisions : acc[d].state \in {"RESERVED", "COMMITTED", "PERSISTED"}}

HeldFit ==
    /\ Cardinality(Held) <= MaxOpen
    /\ \A x, y \in Held : StructureOf[x] = StructureOf[y] => x = y

Inv ==
    /\ Typed
    /\ \A d \in Decisions : Local(d)
    /\ HeldFit

LEMMA LocalIs ==
    ASSUME Inv, NEW d \in Decisions
    PROVE  Typed /\ Local(d) /\ GoodEntry(led[d])
<1>1. Typed /\ Local(d)
  BY DEF Inv
<1>2. QED
  BY <1>1 DEF Typed, LedgerType, GoodEntry

\* An acceptance that changes its state only.
LEMMA Becomes ==
    ASSUME RecordsType, NEW d \in Decisions, NEW state \in {"none"} \cup Taken,
           acc' = [acc EXCEPT ![d].state = state]
    PROVE  RecordsType'
<1>1. ASSUME NEW a \in [state : {"none", "RESERVED"} \cup Taken, rid : 0..MaxPrepares]
      PROVE  /\ [a EXCEPT !.state = state] \in
                   [state : {"none", "RESERVED"} \cup Taken, rid : 0..MaxPrepares]
             /\ [a EXCEPT !.state = state].state = state
  OBVIOUS
<1>2. state # "RESERVED"
  BY DEF Taken
<1>3. QED
  BY <1>1, <1>2 DEF RecordsType

LEMMA AcceptanceStep ==
    ASSUME Inv, [Next]_vars
    PROVE  AcceptanceType'
<1>1. ASSUME NEW d \in Decisions, AskPrepare(d)
      PROVE  AcceptanceType'
  BY <1>1, ConstantsAre DEF Inv, Typed, AcceptanceType, RecordsType, PositionType,
      AskPrepare, Nothing, Taken, position, close
<1>2. ASSUME NEW d \in Decisions, Prepare(d)
      PROVE  AcceptanceType'
  <2>1. AcceptanceType /\ ask' = [ask EXCEPT ![d] = Nothing]
    BY <1>2 DEF Inv, Typed, Prepare
  <2>2. ask' \in [Decisions -> SUBSET (Decisions \cup {None})]
        /\ \A x \in Decisions : ask'[x] = Nothing \/ ask'[x] \subseteq Decisions
    BY <2>1 DEF AcceptanceType, Nothing
  <2>3. ASSUME acc[d].state = "RESERVED", dialog' = [dialog EXCEPT ![d] = @ \cup {acc[d].rid}],
               acc' = acc, lapsed' = lapsed
        PROVE  AcceptanceType'
    <3>1. acc[d].rid \in 1..MaxPrepares
      BY <2>1, <2>3, ConstantsAre DEF AcceptanceType, RecordsType
    <3>2. QED
      BY <2>1, <2>2, <2>3, <3>1 DEF AcceptanceType, RecordsType
  <2>4. ASSUME Reserve(d)
        PROVE  AcceptanceType'
    <3>1. acc[d].rid + 1 \in 1..MaxPrepares
      BY <2>1, <2>4, ConstantsAre DEF AcceptanceType, RecordsType, Reserve
    <3>2. /\ [state |-> "RESERVED", rid |-> acc[d].rid + 1]
                \in [state : {"none", "RESERVED"} \cup Taken, rid : 0..MaxPrepares]
          /\ [state |-> "RESERVED", rid |-> acc[d].rid + 1].rid # 0
      BY <3>1, ConstantsAre
    <3>3. ASSUME NEW x \in Decisions
          PROVE  /\ acc[x] \in [state : {"none", "RESERVED"} \cup Taken, rid : 0..MaxPrepares]
                 /\ [acc[x] EXCEPT !.state = "none"]
                       \in [state : {"none", "RESERVED"} \cup Taken, rid : 0..MaxPrepares]
                 /\ [acc[x] EXCEPT !.state = "none"].state = "none"
      BY <2>1 DEF AcceptanceType, RecordsType
    <3>4. RecordsType'
      BY <2>1, <2>4, <3>2, <3>3 DEF Reserve, AcceptanceType, RecordsType
    <3>5. lapsed' \subseteq Decisions /\ dialog' \in [Decisions -> SUBSET (1..MaxPrepares)]
      BY <2>1, <2>4, <3>1 DEF Reserve, AcceptanceType
    <3>6. QED
      BY <2>2, <3>4, <3>5 DEF AcceptanceType
  <2>5. QED
    BY <1>2, <2>1, <2>2, <2>3, <2>4 DEF Prepare, AcceptanceType, RecordsType
<1>3. ASSUME NEW d \in Decisions, Lapse(d)
      PROVE  AcceptanceType'
  BY <1>3, ConstantsAre DEF Inv, Typed, AcceptanceType, RecordsType, PositionType,
      Lapse, position, close
<1>4. ASSUME NEW d \in Decisions, NEW r \in dialog[d], Confirm(d, r)
      PROVE  AcceptanceType'
  <2>1. RecordsType'
    BY <1>4, Becomes DEF Inv, Typed, AcceptanceType, RecordsType, Taken, Confirm
  <2>2. QED
    BY <1>4, <2>1 DEF Inv, Typed, AcceptanceType, Confirm
<1>5. ASSUME NEW d \in Decisions, NEW r \in dialog[d], Cancel(d, r)
      PROVE  AcceptanceType'
  <2>1. RecordsType'
    BY <1>5, Becomes DEF Inv, Typed, AcceptanceType, RecordsType, Taken, Cancel
  <2>2. QED
    BY <1>5, <2>1 DEF Inv, Typed, AcceptanceType, Cancel
<1>6. ASSUME NEW d \in Decisions, PassTime(d)
      PROVE  AcceptanceType'
  BY <1>6, ConstantsAre DEF Inv, Typed, AcceptanceType, RecordsType, PositionType,
      PassTime, Times, Nothing, close
<1>7. ASSUME NEW d \in Decisions, MarkPersisted(d)
      PROVE  AcceptanceType'
  <2>1. RecordsType'
    BY <1>7, Becomes DEF Inv, Typed, AcceptanceType, RecordsType, Taken, MarkPersisted
  <2>2. QED
    BY <1>7, <2>1 DEF Inv, Typed, AcceptanceType, MarkPersisted
<1>8. ASSUME NEW d \in Decisions, Reconcile(d)
      PROVE  AcceptanceType'
  <2>1. RecordsType'
    BY <1>8, Becomes DEF Inv, Typed, AcceptanceType, RecordsType, Taken, Reconcile, MarkClosed
  <2>2. QED
    BY <1>8, <2>1 DEF Inv, Typed, AcceptanceType, Reconcile, MarkClosed
<1>9. ASSUME NEW d \in Decisions, RuleBMarks(d)
      PROVE  AcceptanceType'
  <2>1. RecordsType'
    BY <1>9, Becomes DEF Inv, Typed, AcceptanceType, RecordsType, Taken, RuleBMarks, MarkClosed
  <2>2. QED
    BY <1>9, <2>1 DEF Inv, Typed, AcceptanceType, RuleBMarks, MarkClosed
<1>10. ASSUME NEW d \in Decisions, ManualMarks(d)
      PROVE  AcceptanceType'
  <2>1. RecordsType'
    BY <1>10, Becomes DEF Inv, Typed, AcceptanceType, RecordsType, Taken, ManualMarks, MarkClosed
  <2>2. QED
    BY <1>10, <2>1 DEF Inv, Typed, AcceptanceType, ManualMarks, MarkClosed
<1>11. CASE Reload
  BY <1>11, ConstantsAre DEF Inv, Typed, AcceptanceType, RecordsType, PositionType,
      Reload, Calling, Idle, position
<1>12. CASE Die
  BY <1>12, ConstantsAre DEF Inv, Typed, AcceptanceType, RecordsType, PositionType,
      Die, Nothing, Idle
<1>13. CASE UNCHANGED acceptance
  BY <1>13, ConstantsAre DEF Inv, Typed, AcceptanceType, RecordsType, PositionType,
      acceptance
<1>14. QED
  BY <1>1, <1>2, <1>3, <1>4, <1>5, <1>6, <1>7, <1>8, <1>9, <1>10, <1>11, <1>12, <1>13,
      ZenonT(60) DEF Next, Settling, Steps, vars, TickReads, PutEconomics, Freeze,
      Record, UserCloses, UserNotes, Insert, Install, Uninstall, RuleBTakes,
      RuleBJournals, RuleBReads, RuleBAcks, ManualJournals, Resume, Abandon,
      ManualReads, ManualResult, Arrives, Lose, CopyTrades, WriteTrades, Asks,
      ManualSends, Sends

LEMMA PositionStep ==
    ASSUME Inv, [Next]_vars
    PROVE  PositionType'
<1>1. ASSUME NEW d \in Decisions, PassTime(d)
      PROVE  PositionType'
  BY <1>1, ConstantsAre DEF Inv, Typed, PositionType, PassTime, Times, Nothing, close
<1>2. ASSUME NEW d \in Decisions, Insert(d)
      PROVE  PositionType'
  BY <1>2, ConstantsAre DEF Inv, Typed, PositionType, Insert, acceptance, close
<1>3. ASSUME NEW d \in Decisions, Install(d)
      PROVE  PositionType'
  BY <1>3, ConstantsAre DEF Inv, Typed, PositionType, Install, acceptance, close
<1>4. ASSUME NEW d \in Decisions, Uninstall(d)
      PROVE  PositionType'
  BY <1>4, ConstantsAre DEF Inv, Typed, PositionType, Uninstall, acceptance, close
<1>5. ASSUME NEW m \in flight, Arrives(m)
      PROVE  PositionType'
  <2>1. m \in Updates /\ PositionType
    BY DEF Inv, Typed, CloseType
  <2>2. /\ m.of \in Decisions /\ m.by \in {None, "ruleB", "manual"} /\ m.patch \in Patches \cup {None}
    BY <2>1 DEF Updates, Patches
  <2>3. ASSUME NEW r \in [state : {"none", "OPEN", "CLOSED"}, by : {None, "ruleB", "manual"},
                          patch : Patches \cup {None}, unresolved : BOOLEAN]
        PROVE  /\ [r EXCEPT !.unresolved = TRUE]
                     \in [state : {"none", "OPEN", "CLOSED"}, by : {None, "ruleB", "manual"},
                          patch : Patches \cup {None}, unresolved : BOOLEAN]
               /\ [r EXCEPT !.state = "CLOSED", !.by = m.by, !.patch = m.patch]
                     \in [state : {"none", "OPEN", "CLOSED"}, by : {None, "ruleB", "manual"},
                          patch : Patches \cup {None}, unresolved : BOOLEAN]
    BY <2>2
  <2>4. row' \in [Decisions -> [state : {"none", "OPEN", "CLOSED"}, by : {None, "ruleB", "manual"},
                                patch : Patches \cup {None}, unresolved : BOOLEAN]]
    <3>1. PICK r \in [state : {"none", "OPEN", "CLOSED"}, by : {None, "ruleB", "manual"},
                      patch : Patches \cup {None}, unresolved : BOOLEAN] :
             row' = [row EXCEPT ![m.of] = r]
      <4>1. row[m.of] \in [state : {"none", "OPEN", "CLOSED"}, by : {None, "ruleB", "manual"},
                           patch : Patches \cup {None}, unresolved : BOOLEAN]
        BY <2>1, <2>2 DEF PositionType
      <4>2. CASE m.patch = "unresolved"
        <5>1. row' = [row EXCEPT ![m.of] = [row[m.of] EXCEPT !.unresolved = TRUE]]
          BY <1>5, <4>2, <2>1, <2>2 DEF Arrives, PositionType
        <5>2. QED
          BY <4>1, <5>1, <2>3
      <4>3. CASE m.patch # "unresolved"
        <5>1. row' = [row EXCEPT ![m.of] =
                        [row[m.of] EXCEPT !.state = "CLOSED", !.by = m.by, !.patch = m.patch]]
          BY <1>5, <4>3, <2>1, <2>2 DEF Arrives, PositionType
        <5>2. QED
          BY <4>1, <5>1, <2>3
      <4>4. QED
        BY <4>2, <4>3
    <3>2. QED
      BY <2>1, <3>1 DEF PositionType
  <2>5. QED
    BY <1>5, <2>1, <2>4 DEF Arrives, PositionType
<1>6. CASE CopyTrades
  BY <1>6, ConstantsAre DEF Inv, Typed, PositionType, CopyTrades, Nothing, acceptance,
      close
<1>7. CASE WriteTrades
  BY <1>7, ConstantsAre DEF Inv, Typed, PositionType, WriteTrades, Nothing,
      acceptance, close
<1>8. CASE Die
  BY <1>8, ConstantsAre DEF Inv, Typed, PositionType, Die, Nothing, Idle
<1>9. CASE UNCHANGED position
  BY <1>9, ConstantsAre DEF Inv, Typed, PositionType, position
<1>10. QED
  BY <1>1, <1>2, <1>3, <1>4, <1>5, <1>6, <1>7, <1>8, <1>9, ZenonT(60) DEF Next,
      Settling, Steps, vars, AskPrepare, Prepare, Lapse, Confirm, Cancel, TickReads,
      PutEconomics, Freeze, Record, UserCloses, UserNotes, MarkPersisted, Reconcile,
      RuleBTakes, RuleBJournals, RuleBReads, RuleBAcks, RuleBMarks, ManualJournals,
      Resume, Abandon, ManualReads, ManualResult, ManualMarks, Lose, Reload, Reserve,
      Asks, ManualSends, Sends, MarkClosed

LEMMA CountStep ==
    ASSUME Inv, [Next]_vars
    PROVE  CountType'
<1>1. ASSUME NEW d \in Decisions, Freeze(d)
      PROVE  CountType'
  <2>1. LedgerType /\ CountType
    BY DEF Inv, Typed
  <2>2. led[d].fill \in Fills /\ (led[d].state = "EXIT_FILLED" <=> led[d].fill # None)
    BY <2>1 DEF LedgerType, Entry, EntryShape
  <2>3. ASSUME NEW seen \in BOOLEAN, AcceptedOutcome(d, seen).final
        PROVE  AcceptedOutcome(d, seen).status \in
                   {"MANUAL_EARLY_CLOSE", "PLANNED_EXIT", "LATE_EXIT", "UNRESOLVED", "NEVER_ACCEPTED"}
    BY <2>2, <2>3 DEF AcceptedOutcome, Fills
  <2>4. PICK status \in {"MANUAL_EARLY_CLOSE", "PLANNED_EXIT", "LATE_EXIT",
                         "UNRESOLVED", "NEVER_ACCEPTED", "UNKNOWN"} :
           outcome' = [outcome EXCEPT ![d] = status]
    BY <1>1, <2>3 DEF Freeze
  <2>5. QED
    BY <1>1, <2>1, <2>4 DEF Freeze, CountType
<1>2. ASSUME NEW d \in Decisions, NEW patch \in ManualPatches, UserCloses(d, patch)
      PROVE  CountType'
  BY <1>2, ConstantsAre DEF Inv, Typed, CountType, UserCloses, Requested, Asks,
      ManualSends, Decided, WithIntent, Idle, acceptance, position, Sends, Exited,
      NoEntry
<1>3. ASSUME NEW d \in Decisions, NEW patch \in ManualPatches, UserNotes(d, patch)
      PROVE  CountType'
  BY <1>3, ConstantsAre DEF Inv, Typed, CountType, UserNotes, Asks, Decided,
      WithIntent, Idle, acceptance, position, Exited, NoEntry
<1>4. ASSUME NEW m \in flight, Lose(m)
      PROVE  CountType'
  BY <1>4, ConstantsAre DEF Inv, Typed, CountType, Lose, acceptance, position
<1>5. CASE CopyTrades
  BY <1>5, ConstantsAre DEF Inv, Typed, CountType, CopyTrades, Nothing, acceptance,
      close
<1>6. CASE Reload
  BY <1>6, ConstantsAre DEF Inv, Typed, CountType, Reload, Calling, Idle, position
<1>7. CASE Die
  BY <1>7, ConstantsAre DEF Inv, Typed, CountType, Die, Nothing, Idle
<1>8. CASE UNCHANGED <<outcome, taps, troubles>>
  BY <1>8, ConstantsAre DEF Inv, Typed, CountType
<1>9. QED
  BY <1>1, <1>2, <1>3, <1>4, <1>5, <1>6, <1>7, <1>8, ZenonT(60) DEF Next, Settling,
      Steps, vars, AskPrepare, Prepare, Lapse, Confirm, Cancel, PassTime, TickReads,
      PutEconomics, Record, Insert, MarkPersisted, Install, Reconcile, Uninstall,
      RuleBTakes, RuleBJournals, RuleBReads, RuleBAcks, RuleBMarks, ManualJournals,
      Resume, Abandon, ManualReads, ManualResult, ManualMarks, Arrives, WriteTrades,
      Reserve, MarkClosed, Sends, ManualSends

-----------------------------------------------------------------------------
(***************************************************************************)
(* What each step does to the ledger: the entry of one decision follows    *)
(* the one before, and few steps name a winner or journal a patch.         *)
(***************************************************************************)
Changes(d) ==
    /\ led' \in [Decisions -> Entry]
    /\ \A x \in Decisions \ {d} : led'[x] = led[x]
    /\ Follows(led[d], led'[d])

Quiet(d) ==
    /\ ClaimsNothing(led[d], led'[d])
    /\ led'[d].journal = led[d].journal /\ led'[d].manual = led[d].manual

LEMMA FollowsSelf ==
    ASSUME NEW e, GoodEntry(e)
    PROVE  Follows(e, e) /\ ClaimsNothing(e, e)
  BY DEF Follows, Stands, ClaimsNothing

LEMMA Puts ==
    ASSUME Inv, NEW d \in Decisions, NEW f, Follows(led[d], f), led' = [led EXCEPT ![d] = f]
    PROVE  Changes(d) /\ led'[d] = f
<1>1. led \in [Decisions -> Entry] /\ f \in Entry
  BY DEF Inv, Typed, LedgerType, Follows, GoodEntry
<1>2. led' \in [Decisions -> Entry] /\ led'[d] = f
  BY <1>1
<1>3. Follows(led[d], led'[d])
  BY <1>2, Zenon
<1>4. QED
  BY <1>1, <1>2, <1>3 DEF Changes

LEMMA RecordMoves ==
    ASSUME Inv, NEW d \in Decisions, NEW step \in Steps \ {"economics"}, Record(d, step)
    PROVE  Changes(d) /\ Quiet(d)
<1>1. GoodEntry(led[d])
  BY LocalIs
<1>2. CASE RecordRefused(led[d], step)
  <2>1. led' = [led EXCEPT ![d] = led[d]]
    BY <1>2 DEF Record, Inv, Typed, LedgerType
  <2>2. Changes(d) /\ led'[d] = led[d]
    BY <1>1, <2>1, FollowsSelf, Puts
  <2>3. ClaimsNothing(led[d], led[d])
    BY <1>1, FollowsSelf
  <2>4. QED
    BY <2>2, <2>3 DEF Quiet
<1>3. CASE ~RecordRefused(led[d], step)
  <2> DEFINE f == Recorded(led[d], step)
  <2>1. /\ Follows(led[d], f) /\ ClaimsNothing(led[d], f)
        /\ f.journal = led[d].journal /\ f.manual = led[d].manual
    BY <1>1, <1>3, RecordedIs
  <2>2. led' = [led EXCEPT ![d] = f]
    BY <1>3 DEF Record
  <2> HIDE DEF f
  <2>3. Changes(d) /\ led'[d] = f
    BY <2>1, <2>2, Puts
  <2>4. QED
    BY <2>1, <2>3 DEF Quiet
<1>4. QED
  BY <1>2, <1>3

LEMMA EconomicsMoves ==
    ASSUME Inv, NEW d \in Decisions, PutEconomics(d)
    PROVE  Changes(d) /\ Quiet(d) /\ led'[d].state = led[d].state
<1>1. GoodEntry(led[d])
  BY LocalIs
<1>2. PICK known \in BOOLEAN : led' = [led EXCEPT ![d].net = known]
  BY DEF PutEconomics
<1> DEFINE f == [led[d] EXCEPT !.net = known]
<1>3. /\ Follows(led[d], f) /\ ClaimsNothing(led[d], f)
      /\ f.journal = led[d].journal /\ f.manual = led[d].manual /\ f.state = led[d].state
  BY <1>1, EconomicsIs
<1>4. led' = [led EXCEPT ![d] = f]
  BY <1>2
<1> HIDE DEF f
<1>5. Changes(d) /\ led'[d] = f
  BY <1>3, <1>4, Puts
<1>6. QED
  BY <1>3, <1>5 DEF Quiet

\* The patch Rule B works out is one of its own and tells an unresolved exit.
LEMMA PatchIs ==
    ASSUME NEW e, GoodEntry(e), e.state \in Exited
    PROVE  PatchOf(e) \in Codes /\ (PatchOf(e) = "unresolved" <=> e.state = "UNRESOLVED")
  BY ConstantsAre DEF GoodEntry, EntryShape, PatchOf, Codes, Exited

LEMMA JournalMoves ==
    ASSUME Inv, NEW d \in Decisions, RuleBJournals(d)
    PROVE  /\ Changes(d) /\ ClaimsNothing(led[d], led'[d]) /\ led[d].state \in Exited
           /\ led'[d].manual = led[d].manual
           /\ led'[d].journal \in {led[d].journal, ruleB[d].patch}
           /\ led'[d] = Journaled(led[d], ruleB[d].patch)
<1> DEFINE f == Journaled(led[d], ruleB[d].patch)
<1>1. /\ GoodEntry(led[d]) /\ led[d].state \in Exited /\ ruleB[d].patch \in Codes
      /\ ruleB[d].patch = "unresolved" <=> led[d].state = "UNRESOLVED"
  BY LocalIs DEF Local, RuleBTrue, RuleBJournals
<1>2. /\ Follows(led[d], f) /\ ClaimsNothing(led[d], f) /\ f.manual = led[d].manual
      /\ f.journal \in {led[d].journal, ruleB[d].patch}
  BY <1>1, JournaledIs
<1>3. led' = [led EXCEPT ![d] = f]
  BY DEF RuleBJournals
<1> HIDE DEF f
<1>4. Changes(d) /\ led'[d] = f
  BY <1>2, <1>3, Puts
<1>5. QED
  BY <1>1, <1>2, <1>4 DEF f

LEMMA AckMoves ==
    ASSUME Inv, NEW d \in Decisions, RuleBAcks(d)
    PROVE  /\ Changes(d)
           /\ led'[d].journal = led[d].journal /\ led'[d].manual = led[d].manual
           /\ ManualWon(led'[d]) => ManualWon(led[d]) \/ ruleB[d].at = "conflict"
           /\ Confirmed(led'[d]) => Confirmed(led[d]) \/ ruleB[d].at = "confirm"
           /\ led'[d] # led[d] => led[d].state \in Exited
           /\ led'[d].state = led[d].state
<1> DEFINE delivery == IF ruleB[d].at = "conflict" THEN "MANUAL_CLOSE_CONFLICT"
                       ELSE "REMOTE_CONFIRMED"
           f == Acknowledged(led[d], delivery)
<1>1. GoodEntry(led[d]) /\ delivery \in Delivered
  BY LocalIs DEF Delivered
<1>2. led' = [led EXCEPT ![d] = f] /\ ruleB[d].at \in {"conflict", "confirm"}
  BY DEF RuleBAcks
<1>3. /\ Follows(led[d], f) /\ f.journal = led[d].journal /\ f.manual = led[d].manual
      /\ \/ ClaimsNothing(led[d], f)
         \/ led[d].state \in Exited /\ led[d].delivery = "REMOTE_PENDING" /\ f.delivery = delivery
      /\ f # led[d] => led[d].state \in Exited
  BY <1>1, AcknowledgedIs
<1>4. f.state = led[d].state
  BY <1>1 DEF Acknowledged, GoodEntry, Entry
<1> HIDE DEF f
<1>5. Changes(d) /\ led'[d] = f
  BY <1>2, <1>3, Puts
<1>6. /\ ManualWon(f) => ManualWon(led[d]) \/ ruleB[d].at = "conflict"
      /\ Confirmed(f) => Confirmed(led[d]) \/ ruleB[d].at = "confirm"
  BY <1>2, <1>3, <1>4 DEF ClaimsNothing, ManualWon, Confirmed, Exited
<1>7. QED
  BY <1>3, <1>4, <1>5, <1>6

LEMMA RequestMoves ==
    ASSUME Inv, NEW d \in Decisions, NEW patch \in ManualPatches, UserCloses(d, patch)
    PROVE  /\ Changes(d) /\ ClaimsNothing(led[d], led'[d])
           /\ led'[d].journal = led[d].journal
           /\ \/ led'[d].manual = led[d].manual
              \/ led[d].manual = None /\ led'[d].manual = patch
           /\ led'[d] = Requested(led[d], patch)
<1> DEFINE f == Requested(led[d], patch)
<1>1. GoodEntry(led[d])
  BY LocalIs
<1>2. led' = [led EXCEPT ![d] = f]
  BY DEF UserCloses
<1>3. /\ Follows(led[d], f) /\ ClaimsNothing(led[d], f) /\ f.journal = led[d].journal
      /\ \/ f.manual = led[d].manual
         \/ led[d].manual = None /\ f.manual = patch
  BY <1>1, RequestedIs
<1> HIDE DEF f
<1>4. Changes(d) /\ led'[d] = f
  BY <1>2, <1>3, Puts
<1>5. QED
  BY <1>3, <1>4 DEF f

LEMMA NoteMoves ==
    ASSUME Inv, NEW d \in Decisions, NEW patch \in ManualPatches, UserNotes(d, patch)
    PROVE  Changes(d) /\ Quiet(d)
<1>1. GoodEntry(led[d])
  BY LocalIs
<1>2. PICK f \in {led[d], WithIntent(led[d])} : led' = [led EXCEPT ![d] = f]
  BY DEF UserNotes, Inv, Typed, LedgerType
<1>3. /\ Follows(led[d], f) /\ ClaimsNothing(led[d], f)
      /\ f.journal = led[d].journal /\ f.manual = led[d].manual
  BY <1>1, FollowsSelf, WithIntentIs
<1>4. Changes(d) /\ led'[d] = f
  BY <1>2, <1>3, Puts
<1>5. QED
  BY <1>3, <1>4 DEF Quiet

LEMMA ByHandMoves ==
    ASSUME Inv, NEW d \in Decisions, ManualJournals(d)
    PROVE  /\ Changes(d) /\ ClaimsNothing(led[d], led'[d])
           /\ led'[d].journal = led[d].journal /\ led'[d].state = led[d].state
           /\ \/ led'[d].manual = led[d].manual
              \/ led[d].manual = None /\ led'[d].manual = manual[d].patch
<1> DEFINE p == manual[d].patch
<1>1. GoodEntry(led[d]) /\ p \in ManualPatches
  BY LocalIs DEF Local, ManualTrue, ManualJournals, Typed, CloseType
<1>2. CASE (ManualIntent(led[d]) \/ led[d].pending) /\ led[d].manual = None
  <2> DEFINE f == [led[d] EXCEPT !.manual = p]
  <2>1. led[d].state \in Terminal
    BY <1>1, <1>2 DEF GoodEntry, EntryShape, ManualIntent, Terminal
  <2>2. led' = [led EXCEPT ![d] = f]
    BY <1>2 DEF ManualJournals
  <2>3. /\ Follows(led[d], f) /\ ClaimsNothing(led[d], f) /\ f.journal = led[d].journal
        /\ f.manual = p /\ f.state = led[d].state
    BY <1>1, <1>2, <2>1, JournalByHandIs
  <2> HIDE DEF f
  <2>4. Changes(d) /\ led'[d] = f
    BY <2>2, <2>3, Puts
  <2>5. QED
    BY <1>2, <2>3, <2>4
<1>3. CASE ~((ManualIntent(led[d]) \/ led[d].pending) /\ led[d].manual = None)
  <2>1. led' = [led EXCEPT ![d] = led[d]]
    BY <1>3 DEF ManualJournals
  <2>2. Follows(led[d], led[d]) /\ ClaimsNothing(led[d], led[d])
    BY <1>1, FollowsSelf
  <2>3. Changes(d) /\ led'[d] = led[d]
    BY <2>1, <2>2, Puts
  <2>4. QED
    BY <2>2, <2>3
<1>4. QED
  BY <1>2, <1>3

LEMMA AbandonMoves ==
    ASSUME Inv, NEW d \in Decisions, Abandon(d)
    PROVE  Changes(d) /\ Quiet(d) /\ led[d].state # "OPEN"
<1> DEFINE f == Withdrawn(led[d])
<1>1. GoodEntry(led[d])
  BY LocalIs
<1>2. /\ led' = [led EXCEPT ![d] = f] /\ led[d].manual = None
      /\ ManualIntent(led[d]) \/ led[d].pending
  BY DEF Abandon, Offered
<1>3. /\ Follows(led[d], f) /\ ClaimsNothing(led[d], f)
      /\ f.journal = led[d].journal /\ f.manual = led[d].manual /\ led[d].state # "OPEN"
  BY <1>1, <1>2, WithdrawnIs
<1> HIDE DEF f
<1>4. Changes(d) /\ led'[d] = f
  BY <1>2, <1>3, Puts
<1>5. QED
  BY <1>3, <1>4 DEF Quiet

LEMMA ResultMoves ==
    ASSUME Inv, NEW d \in Decisions, ManualResult(d)
    PROVE  /\ Changes(d) /\ led'[d].state = led[d].state
           /\ led'[d].journal = led[d].journal /\ led'[d].manual = led[d].manual
           /\ Confirmed(led'[d]) => Confirmed(led[d])
           /\ ManualWon(led'[d]) => ManualWon(led[d]) \/ manual[d].at = "won"
<1> DEFINE f == Arbitrated(led[d], manual[d].at)
<1>1. GoodEntry(led[d])
  BY LocalIs
<1>2. led' = [led EXCEPT ![d] = f] /\ manual[d].at \in {"won", "lost"}
  BY DEF ManualResult
<1>3. /\ Follows(led[d], f) /\ f.state = led[d].state
      /\ f.journal = led[d].journal /\ f.manual = led[d].manual
      /\ Confirmed(f) => Confirmed(led[d])
      /\ ManualWon(f) => ManualWon(led[d]) \/ manual[d].at = "won"
  BY <1>1, <1>2, ArbitratedIs
<1> HIDE DEF f
<1>4. Changes(d) /\ led'[d] = f
  BY <1>2, <1>3, Puts
<1>5. QED
  BY <1>3, <1>4

LEMMA LedgerMoves ==
    ASSUME Inv, [Next]_vars
    PROVE  led' = led \/ \E x \in Decisions : Changes(x)
<1>1. ASSUME NEW d \in Decisions, PutEconomics(d)
      PROVE  led' = led \/ \E x \in Decisions : Changes(x)
  BY <1>1, EconomicsMoves
<1>2. ASSUME NEW d \in Decisions, NEW step \in {"PLANNED_EXIT", "LATE_EXIT", "MARK_LATE",
          "MARK_UNRESOLVED"}, Record(d, step)
      PROVE  led' = led \/ \E x \in Decisions : Changes(x)
  BY <1>2, RecordMoves DEF Steps
<1>3. ASSUME NEW d \in Decisions, NEW patch \in ManualPatches, UserCloses(d, patch)
      PROVE  led' = led \/ \E x \in Decisions : Changes(x)
  BY <1>3, RequestMoves
<1>4. ASSUME NEW d \in Decisions, NEW patch \in ManualPatches, UserNotes(d, patch)
      PROVE  led' = led \/ \E x \in Decisions : Changes(x)
  BY <1>4, NoteMoves
<1>5. ASSUME NEW d \in Decisions, RuleBJournals(d)
      PROVE  led' = led \/ \E x \in Decisions : Changes(x)
  BY <1>5, JournalMoves
<1>6. ASSUME NEW d \in Decisions, RuleBAcks(d)
      PROVE  led' = led \/ \E x \in Decisions : Changes(x)
  BY <1>6, AckMoves
<1>7. ASSUME NEW d \in Decisions, ManualJournals(d)
      PROVE  led' = led \/ \E x \in Decisions : Changes(x)
  BY <1>7, ByHandMoves
<1>8. ASSUME NEW d \in Decisions, Abandon(d)
      PROVE  led' = led \/ \E x \in Decisions : Changes(x)
  BY <1>8, AbandonMoves
<1>9. ASSUME NEW d \in Decisions, ManualResult(d)
      PROVE  led' = led \/ \E x \in Decisions : Changes(x)
  BY <1>9, ResultMoves
<1>10. CASE UNCHANGED led
  BY <1>10
<1>11. CASE UNCHANGED close
  BY <1>11, <1>10 DEF close
<1>12. QED
  BY <1>1, <1>2, <1>3, <1>4, <1>5, <1>6, <1>7, <1>8, <1>9, <1>10, <1>11, ZenonT(60)
      DEF Next, Settling, Steps, vars, AskPrepare, Prepare, Lapse, Confirm, Cancel,
      PassTime, TickReads, Freeze, Insert, MarkPersisted, Install, Reconcile,
      Uninstall, RuleBTakes, RuleBReads, RuleBMarks, Resume, ManualReads, ManualMarks,
      Arrives, Lose, CopyTrades, WriteTrades, Reload, Die, Reserve, MarkClosed,
      ManualSends, Sends

LEMMA TickStep ==
    ASSUME Inv, [Next]_vars
    PROVE  tick' = Nothing \/ \E x \in Decisions, s \in Steps : tick' = {<<x, s>>}
<1>0. tick = Nothing \/ \E x \in Decisions, s \in Steps : tick = {<<x, s>>}
  BY DEF Inv, Typed, LedgerType
<1>1. ASSUME NEW d \in Decisions, TickReads(d)
      PROVE  tick' = Nothing \/ \E x \in Decisions, s \in Steps : tick' = {<<x, s>>}
  <2>1. PICK s \in PolicySteps(led[d].state, when[d]) : tick' = {<<d, s>>}
    BY <1>1 DEF TickReads
  <2>2. s \in Steps
    BY <2>1 DEF PolicySteps, Steps, Inv, Typed, PositionType
  <2>3. QED
    BY <2>1, <2>2
<1>2. ASSUME NEW d \in Decisions, NEW step \in {"PLANNED_EXIT", "LATE_EXIT", "MARK_LATE",
          "MARK_UNRESOLVED"}, Record(d, step)
      PROVE  tick' = Nothing \/ \E x \in Decisions, s \in Steps : tick' = {<<x, s>>}
  BY <1>2 DEF Record, Steps
<1>3. ASSUME NEW d \in Decisions, PutEconomics(d)
      PROVE  tick' = Nothing \/ \E x \in Decisions, s \in Steps : tick' = {<<x, s>>}
  BY <1>3 DEF PutEconomics
<1>4. CASE Die
  BY <1>4 DEF Die
<1>5. CASE UNCHANGED tick
  BY <1>5, <1>0, Zenon
<1>6. CASE UNCHANGED close
  BY <1>6, <1>5 DEF close
<1>7. QED
  BY <1>1, <1>2, <1>3, <1>4, <1>5, <1>6, ZenonT(60) DEF Next, Settling, Steps, vars,
      AskPrepare, Prepare, Lapse, Confirm, Cancel, PassTime, Freeze, UserCloses,
      UserNotes, Insert, MarkPersisted, Install, Reconcile, Uninstall, RuleBTakes,
      RuleBJournals, RuleBReads, RuleBAcks, RuleBMarks, ManualJournals, Resume,
      Abandon, ManualReads, ManualResult, ManualMarks, Arrives, Lose, CopyTrades,
      WriteTrades, Reload, Reserve, Asks, ManualSends, Sends, MarkClosed

LEMMA LedgerStep ==
    ASSUME Inv, [Next]_vars
    PROVE  LedgerType'
<1>1. led \in [Decisions -> Entry] /\ \A d \in Decisions : EntryShape(led[d])
  BY DEF Inv, Typed, LedgerType
<1>2. led' \in [Decisions -> Entry] /\ \A d \in Decisions : EntryShape(led'[d])
  <2>1. CASE led' = led
    BY <1>1, <2>1
  <2>2. ASSUME NEW d \in Decisions, Changes(d)
        PROVE  led' \in [Decisions -> Entry] /\ \A x \in Decisions : EntryShape(led'[x])
    <3>1. EntryShape(led'[d]) /\ led' \in [Decisions -> Entry]
      BY <2>2 DEF Changes, Follows, GoodEntry
    <3>2. ASSUME NEW x \in Decisions \ {d}
          PROVE  EntryShape(led'[x])
      <4>1. led'[x] = led[x] /\ EntryShape(led[x])
        BY <1>1, <2>2 DEF Changes
      <4>2. QED
        BY <4>1, Zenon
    <3>3. QED
      BY <3>1, <3>2
  <2>3. QED
    BY <2>1, <2>2, LedgerMoves
<1>3. QED
  BY <1>2, TickStep DEF LedgerType

LEMMA LedgerKeeps ==
    ASSUME Inv, [Next]_vars, NEW x \in Decisions
    PROVE  Follows(led[x], led'[x])
<1>1. GoodEntry(led[x])
  BY LocalIs
<1>2. Follows(led[x], led[x])
  BY <1>1, FollowsSelf
<1>3. CASE led' = led
  BY <1>2, <1>3, Zenon
<1>4. ASSUME NEW d \in Decisions, Changes(d)
      PROVE  Follows(led[x], led'[x])
  <2>1. CASE x = d
    BY <1>4, <2>1 DEF Changes
  <2>2. CASE x # d
    <3>1. led'[x] = led[x]
      BY <1>4, <2>2 DEF Changes
    <3>2. QED
      BY <1>2, <3>1, Zenon
  <2>3. QED
    BY <2>1, <2>2
<1>5. QED
  BY <1>3, <1>4, LedgerMoves

-----------------------------------------------------------------------------
(***************************************************************************)
(* The row and the updates under way.                                      *)
(***************************************************************************)
Row == [state : {"none", "OPEN", "CLOSED"}, by : {None, "ruleB", "manual"},
        patch : Patches \cup {None}, unresolved : BOOLEAN]

\* An update under way finds its row open.
LEMMA FlightIs ==
    ASSUME Inv, NEW m \in flight
    PROVE  /\ m \in Updates /\ m.of \in Decisions /\ m.by \in {"ruleB", "manual"}
           /\ m.patch \in Patches /\ m.patch # None
           /\ m.by = "ruleB" => m.patch = led[m.of].journal
           /\ m.by = "manual" => m.patch = led[m.of].manual
           /\ led[m.of].state \in Terminal
           /\ row[m.of].state = "OPEN" /\ row[m.of].by = None
<1>1. m \in Updates /\ m.of \in Decisions /\ m.by \in {"ruleB", "manual"} /\ m.patch \in Patches
  BY DEF Inv, Typed, CloseType, Updates, Patches
<1>2. m.patch # None
  BY <1>1, ConstantsAre
<1>3. /\ m.by = "ruleB" => m.patch = led[m.of].journal
      /\ m.by = "manual" => m.patch = led[m.of].manual
  BY <1>1, LocalIs DEF Local, SentTrue
<1>4. led[m.of].journal # None \/ led[m.of].manual # None
  BY <1>1, <1>2, <1>3
<1>5. led[m.of].state \in Terminal
  BY <1>1, <1>4, LocalIs DEF GoodEntry, EntryShape
<1>6. row[m.of].state # "none" /\ row[m.of].state # "CLOSED"
  BY <1>1, <1>5, LocalIs DEF Local, RowTrue, Watched, Terminal
<1>7. row[m.of].state \in {"none", "OPEN", "CLOSED"}
  BY <1>1 DEF Inv, Typed, PositionType
<1>8. row[m.of].by = None
  BY <1>1, <1>6, LocalIs DEF Local, RowTrue
<1>9. QED
  BY <1>1, <1>2, <1>3, <1>5, <1>6, <1>7, <1>8

LEMMA ArrivesIs ==
    ASSUME Inv, NEW m \in flight, Arrives(m)
    PROVE  /\ \A x \in Decisions \ {m.of} : row'[x] = row[x]
           /\ m.patch = "unresolved" =>
                 /\ row'[m.of].state = "OPEN" /\ row'[m.of].by = None
                 /\ flight' \subseteq flight
           /\ m.patch # "unresolved" =>
                 /\ row'[m.of].state = "CLOSED" /\ row'[m.of].by = m.by
                 /\ row'[m.of].patch = m.patch
                 /\ flight' = {f \in flight : f.of # m.of}
<1>1. m.of \in Decisions /\ row[m.of].state = "OPEN" /\ row[m.of].by = None
  BY FlightIs
<1>2. row \in [Decisions -> Row]
  BY DEF Inv, Typed, PositionType, Row
<1>3. ASSUME NEW r \in Row
      PROVE  /\ [r EXCEPT !.unresolved = TRUE].state = r.state
             /\ [r EXCEPT !.unresolved = TRUE].by = r.by
             /\ [r EXCEPT !.state = "CLOSED", !.by = m.by, !.patch = m.patch].state = "CLOSED"
             /\ [r EXCEPT !.state = "CLOSED", !.by = m.by, !.patch = m.patch].by = m.by
             /\ [r EXCEPT !.state = "CLOSED", !.by = m.by, !.patch = m.patch].patch = m.patch
  BY DEF Row
<1>4. CASE m.patch = "unresolved"
  <2>1. row' = [row EXCEPT ![m.of] = [row[m.of] EXCEPT !.unresolved = TRUE]]
    BY <1>1, <1>2, <1>4 DEF Arrives
  <2>2. QED
    BY <1>1, <1>2, <1>3, <1>4, <2>1 DEF Arrives
<1>5. CASE m.patch # "unresolved"
  <2>1. row' = [row EXCEPT ![m.of] =
                  [row[m.of] EXCEPT !.state = "CLOSED", !.by = m.by, !.patch = m.patch]]
    BY <1>1, <1>2, <1>5 DEF Arrives
  <2>2. QED
    BY <1>1, <1>2, <1>3, <1>5, <2>1 DEF Arrives
<1>6. QED
  BY <1>4, <1>5

LEMMA InsertIs ==
    ASSUME Inv, NEW d \in Decisions, Insert(d)
    PROVE  /\ \A x \in Decisions \ {d} : row'[x] = row[x]
           /\ row[d].state = "none" /\ row'[d].state = "OPEN"
           /\ row'[d].by = row[d].by /\ row[d].by = None
           /\ acc[d].state = "COMMITTED"
<1>1. row \in [Decisions -> Row]
  BY DEF Inv, Typed, PositionType, Row
<1>2. ASSUME NEW r \in Row
      PROVE  [r EXCEPT !.state = "OPEN"].state = "OPEN" /\ [r EXCEPT !.state = "OPEN"].by = r.by
  BY DEF Row
<1>3. row' = [row EXCEPT ![d] = [row[d] EXCEPT !.state = "OPEN"]] /\ row[d].state = "none"
      /\ acc[d].state = "COMMITTED"
  BY <1>1 DEF Insert
<1>4. row[d].by = None
  BY <1>3, LocalIs DEF Local, RowTrue
<1>5. QED
  BY <1>1, <1>2, <1>3, <1>4

\* What is in the row stays there.
RowStays(x) ==
    /\ row[x].state # "none" => row'[x].state # "none"
    /\ row[x].state = "CLOSED" => row'[x].state = "CLOSED"
    /\ row[x].by # None => row'[x].by = row[x].by /\ row'[x].patch = row[x].patch

LEMMA RowStands ==
    ASSUME Inv, [Next]_vars
    PROVE  \A x \in Decisions : RowStays(x)
<1>1. ASSUME NEW d \in Decisions, Insert(d)
      PROVE  \A x \in Decisions : RowStays(x)
  BY <1>1, InsertIs DEF RowStays
<1>2. ASSUME NEW m \in flight, Arrives(m)
      PROVE  \A x \in Decisions : RowStays(x)
  <2>1. row[m.of].state = "OPEN" /\ row[m.of].by = None /\ m.of \in Decisions
    BY FlightIs
  <2>2. QED
    BY <1>2, <2>1, ArrivesIs DEF RowStays
<1>3. CASE UNCHANGED row
  BY <1>3 DEF RowStays
<1>4. CASE UNCHANGED position
  BY <1>4, <1>3 DEF position
<1>5. QED
  BY <1>1, <1>2, <1>3, <1>4, ZenonT(60) DEF Next, Settling, Steps, vars, AskPrepare,
      Prepare, Lapse, Confirm, Cancel, PassTime, TickReads, PutEconomics, Freeze,
      Record, UserCloses, UserNotes, MarkPersisted, Install, Reconcile, Uninstall,
      RuleBTakes, RuleBJournals, RuleBReads, RuleBAcks, RuleBMarks, ManualJournals,
      Resume, Abandon, ManualReads, ManualResult, ManualMarks, Lose, CopyTrades,
      WriteTrades, Reload, Die, Reserve, Asks, ManualSends, Sends, MarkClosed

\* A row is closed by one writer, with the patch journaled for it.
RowEnds(x) ==
    /\ row'[x].state = "CLOSED" <=> row'[x].by # None
    /\ row'[x].state = "CLOSED" => row'[x].patch \notin {None, "unresolved"}
    /\ row'[x].by = "ruleB" => row'[x].patch = led[x].journal
    /\ row'[x].by = "manual" => row'[x].patch = led[x].manual

LEMMA RowStep ==
    ASSUME Inv, [Next]_vars
    PROVE  \A x \in Decisions : RowEnds(x)
<1>0. \A x \in Decisions :
         /\ row[x].state = "CLOSED" <=> row[x].by # None
         /\ row[x].state = "CLOSED" => row[x].patch \notin {None, "unresolved"}
         /\ row[x].by = "ruleB" => row[x].patch = led[x].journal
         /\ row[x].by = "manual" => row[x].patch = led[x].manual
  BY DEF Inv, Local, RowTrue, SentTrue
<1>1. ASSUME NEW d \in Decisions, Insert(d)
      PROVE  \A x \in Decisions : RowEnds(x)
  BY <1>1, <1>0, InsertIs, ConstantsAre DEF RowEnds
<1>2. ASSUME NEW m \in flight, Arrives(m)
      PROVE  \A x \in Decisions : RowEnds(x)
  <2>1. /\ m.of \in Decisions /\ m.patch # None /\ m.by \in {"ruleB", "manual"}
        /\ m.by = "ruleB" => m.patch = led[m.of].journal
        /\ m.by = "manual" => m.patch = led[m.of].manual
    BY FlightIs
  <2>2. RowEnds(m.of)
    BY <1>2, <2>1, ArrivesIs, ConstantsAre DEF RowEnds
  <2>3. \A x \in Decisions \ {m.of} : RowEnds(x)
    BY <1>2, <1>0, ArrivesIs DEF RowEnds
  <2>4. QED
    BY <2>1, <2>2, <2>3
<1>3. CASE UNCHANGED row
  BY <1>3, <1>0 DEF RowEnds
<1>4. CASE UNCHANGED position
  BY <1>4, <1>3 DEF position
<1>5. QED
  BY <1>1, <1>2, <1>3, <1>4, ZenonT(60) DEF Next, Settling, Steps, vars, AskPrepare,
      Prepare, Lapse, Confirm, Cancel, PassTime, TickReads, PutEconomics, Freeze,
      Record, UserCloses, UserNotes, MarkPersisted, Install, Reconcile, Uninstall,
      RuleBTakes, RuleBJournals, RuleBReads, RuleBAcks, RuleBMarks, ManualJournals,
      Resume, Abandon, ManualReads, ManualResult, ManualMarks, Lose, CopyTrades,
      WriteTrades, Reload, Die, Reserve, Asks, ManualSends, Sends, MarkClosed

\* Rule B and the user send to a row that is not closed, and send what is journaled.
FlightTrue(m) ==
    /\ row'[m.of].state # "CLOSED"
    /\ m.by = "ruleB" => m.patch = led'[m.of].journal
    /\ m.by = "manual" => m.patch = led'[m.of].manual

LEMMA FlightKeeps ==
    ASSUME Inv, [Next]_vars, NEW m \in flight, row'[m.of].state # "CLOSED"
    PROVE  FlightTrue(m)
<1>1. /\ m.of \in Decisions /\ m.patch # None
      /\ m.by = "ruleB" => m.patch = led[m.of].journal
      /\ m.by = "manual" => m.patch = led[m.of].manual
  BY FlightIs
<1>2. Follows(led[m.of], led'[m.of])
  BY <1>1, LedgerKeeps
<1>3. QED
  BY <1>1, <1>2 DEF Follows, Stands, FlightTrue

LEMMA SendsIs ==
    ASSUME Inv, [Next]_vars, NEW d \in Decisions, NEW by, NEW patch,
           Sends(d, by, patch), row' = row,
           by = "ruleB" => patch = led'[d].journal, by = "manual" => patch = led'[d].manual
    PROVE  \A f \in flight' : FlightTrue(f)
<1> DEFINE sent == [of |-> d, by |-> by, patch |-> patch]
<1>1. \A f \in flight : row'[f.of].state # "CLOSED"
  BY FlightIs
<1>2. \A f \in flight : FlightTrue(f)
  BY <1>1, FlightKeeps
<1>3. row[d].state # "CLOSED" => FlightTrue(sent)
  BY DEF FlightTrue
<1>4. \A f \in flight' : f \in flight \/ (row[d].state # "CLOSED" /\ f = sent)
  BY DEF Sends
<1>5. QED
  BY <1>2, <1>3, <1>4

LEMMA FlightStays ==
    ASSUME Inv, [Next]_vars, flight' \subseteq flight, row' = row
    PROVE  \A f \in flight' : FlightTrue(f)
<1>1. \A f \in flight' : f \in flight /\ row'[f.of].state # "CLOSED"
  BY FlightIs
<1>2. QED
  BY <1>1, FlightKeeps

LEMMA FlightStep ==
    ASSUME Inv, [Next]_vars
    PROVE  \A f \in flight' : FlightTrue(f)
<1>1. ASSUME NEW d \in Decisions, RuleBJournals(d)
      PROVE  \A f \in flight' : FlightTrue(f)
  <2>1. row' = row
    BY <1>1 DEF RuleBJournals, position
  <2>2. led'[d] = Journaled(led[d], ruleB[d].patch)
    BY <1>1, JournalMoves
  <2>3. UNCHANGED flight \/ Sends(d, "ruleB", led'[d].journal)
    BY <1>1, <2>2 DEF RuleBJournals
  <2>4. QED
    BY <2>1, <2>3, FlightStays, SendsIs
<1>2. ASSUME NEW d \in Decisions, NEW patch \in ManualPatches, UserCloses(d, patch)
      PROVE  \A f \in flight' : FlightTrue(f)
  <2>1. row' = row
    BY <1>2 DEF UserCloses, Asks, position
  <2>2. led'[d] = Requested(led[d], patch)
    BY <1>2, RequestMoves
  <2>3. UNCHANGED flight \/ (Sends(d, "manual", patch) /\ led'[d].manual = patch)
    BY <1>2, <2>2 DEF UserCloses, ManualSends
  <2>4. QED
    BY <2>1, <2>3, FlightStays, SendsIs
<1>3. ASSUME NEW d \in Decisions, ManualJournals(d)
      PROVE  \A f \in flight' : FlightTrue(f)
  <2>1. row' = row
    BY <1>3 DEF ManualJournals, position
  <2>2. PICK e : /\ led' = [led EXCEPT ![d] = e]
                 /\ UNCHANGED flight \/ (Sends(d, "manual", manual[d].patch) /\ e.manual = manual[d].patch)
    BY <1>3 DEF ManualJournals, ManualSends
  <2>3. led'[d] = e
    BY <2>2 DEF Inv, Typed, LedgerType
  <2>4. QED
    BY <2>1, <2>2, <2>3, FlightStays, SendsIs
<1>4. ASSUME NEW d \in Decisions, Resume(d)
      PROVE  \A f \in flight' : FlightTrue(f)
  <2>1. row' = row /\ led' = led
    BY <1>4 DEF Resume, position
  <2>2. UNCHANGED flight \/ Sends(d, "manual", led[d].manual)
    BY <1>4 DEF Resume, ManualSends
  <2>3. QED
    BY <2>1, <2>2, FlightStays, SendsIs
<1>5. ASSUME NEW d \in Decisions, Insert(d)
      PROVE  \A f \in flight' : FlightTrue(f)
  <2>1. flight' = flight
    BY <1>5 DEF Insert, close
  <2>2. \A f \in flight : row[f.of].state = "OPEN" /\ f.of \in Decisions
    BY FlightIs
  <2>3. \A f \in flight : row'[f.of].state # "CLOSED"
    BY <1>5, <2>2, InsertIs
  <2>4. QED
    BY <2>1, <2>3, FlightKeeps
<1>6. ASSUME NEW m \in flight, Arrives(m)
      PROVE  \A f \in flight' : FlightTrue(f)
  <2>1. \A f \in flight : row[f.of].state = "OPEN" /\ f.of \in Decisions
    BY FlightIs
  <2>2. \A f \in flight' : f \in flight /\ row'[f.of].state # "CLOSED"
    <3>1. CASE m.patch = "unresolved"
      BY <1>6, <2>1, <3>1, ArrivesIs
    <3>2. CASE m.patch # "unresolved"
      BY <1>6, <2>1, <3>2, ArrivesIs
    <3>3. QED
      BY <3>1, <3>2
  <2>3. QED
    BY <2>2, FlightKeeps
<1>7. ASSUME NEW m \in flight, Lose(m)
      PROVE  \A f \in flight' : FlightTrue(f)
  BY <1>7, FlightStays DEF Lose, position
<1>8. CASE UNCHANGED <<flight, row>>
  BY <1>8, FlightStays
<1>9. CASE UNCHANGED <<flight, position>>
  BY <1>9, <1>8 DEF position
<1>10. CASE UNCHANGED <<close, row>>
  BY <1>10, <1>8 DEF close
<1>11. CASE UNCHANGED <<close, position>>
  BY <1>11, <1>8 DEF position, close
<1>12. QED
  BY <1>1, <1>2, <1>3, <1>4, <1>5, <1>6, <1>7, <1>8, <1>9, <1>10, <1>11, ZenonT(60)
      DEF Next, Settling, Steps, vars, AskPrepare, Prepare, Lapse, Confirm, Cancel,
      PassTime, TickReads, PutEconomics, Freeze, Record, UserNotes, MarkPersisted,
      Install, Reconcile, Uninstall, RuleBTakes, RuleBReads, RuleBAcks, RuleBMarks,
      Abandon, ManualReads, ManualResult, ManualMarks, CopyTrades, WriteTrades,
      Reload, Die, Reserve, Asks, MarkClosed

LEMMA SentStep ==
    ASSUME Inv, [Next]_vars, NEW x \in Decisions
    PROVE  SentTrue(x)'
<1>1. RowEnds(x) /\ Follows(led[x], led'[x])
  BY RowStep, LedgerKeeps
<1>2. row'[x].by \in {"ruleB", "manual"} => row'[x].patch # None
  BY <1>1, ConstantsAre DEF RowEnds
<1>3. /\ row'[x].by = "ruleB" => row'[x].patch = led'[x].journal
      /\ row'[x].by = "manual" => row'[x].patch = led'[x].manual
  BY <1>1, <1>2 DEF RowEnds, Follows, Stands
<1>4. QED
  BY <1>3, FlightStep DEF SentTrue, FlightTrue

-----------------------------------------------------------------------------
(***************************************************************************)
(* Only a row that exists is watched.                                      *)
(***************************************************************************)
LEMMA WatchedIs ==
    ASSUME Inv, NEW x \in Decisions, Watched(x)
    PROVE  row[x].state # "none"
  BY LocalIs DEF Local, RowTrue

LEMMA LedgerWatched ==
    ASSUME Inv, NEW d \in Decisions, Changes(d),
           row[d].state # "none" \/ led'[d].state = led[d].state
    PROVE  \A x \in Decisions : led'[x].state # "OPEN" => row[x].state # "none"
<1>1. \A x \in Decisions : led[x].state # "OPEN" => row[x].state # "none"
  BY WatchedIs DEF Watched
<1>2. \A x \in Decisions \ {d} : led'[x] = led[x]
  BY DEF Changes
<1>3. QED
  BY <1>1, <1>2

LEMMA EntriesWatched ==
    ASSUME Inv, [Next]_vars
    PROVE  \A x \in Decisions : led'[x].state # "OPEN" => row[x].state # "none"
<1>1. ASSUME NEW d \in Decisions, PutEconomics(d)
      PROVE  \A x \in Decisions : led'[x].state # "OPEN" => row[x].state # "none"
  BY <1>1, EconomicsMoves, LedgerWatched
<1>2. ASSUME NEW d \in Decisions, NEW step \in {"PLANNED_EXIT", "LATE_EXIT", "MARK_LATE",
          "MARK_UNRESOLVED"}, Record(d, step)
      PROVE  \A x \in Decisions : led'[x].state # "OPEN" => row[x].state # "none"
  <2>1. Watched(d) /\ step \in Steps
    BY <1>2 DEF Record, Watched, Steps
  <2>2. QED
    BY <1>2, <2>1, WatchedIs, RecordMoves, LedgerWatched DEF Steps
<1>3. ASSUME NEW d \in Decisions, NEW patch \in ManualPatches, UserCloses(d, patch)
      PROVE  \A x \in Decisions : led'[x].state # "OPEN" => row[x].state # "none"
  BY <1>3, RequestMoves, LedgerWatched DEF UserCloses, Asks
<1>4. ASSUME NEW d \in Decisions, NEW patch \in ManualPatches, UserNotes(d, patch)
      PROVE  \A x \in Decisions : led'[x].state # "OPEN" => row[x].state # "none"
  BY <1>4, NoteMoves, LedgerWatched DEF UserNotes, Asks
<1>5. ASSUME NEW d \in Decisions, RuleBJournals(d)
      PROVE  \A x \in Decisions : led'[x].state # "OPEN" => row[x].state # "none"
  <2>1. Changes(d) /\ Watched(d)
    BY <1>5, JournalMoves DEF Watched, Exited
  <2>2. QED
    BY <2>1, WatchedIs, LedgerWatched
<1>6. ASSUME NEW d \in Decisions, RuleBAcks(d)
      PROVE  \A x \in Decisions : led'[x].state # "OPEN" => row[x].state # "none"
  BY <1>6, AckMoves, LedgerWatched
<1>7. ASSUME NEW d \in Decisions, ManualJournals(d)
      PROVE  \A x \in Decisions : led'[x].state # "OPEN" => row[x].state # "none"
  BY <1>7, ByHandMoves, LedgerWatched
<1>8. ASSUME NEW d \in Decisions, Abandon(d)
      PROVE  \A x \in Decisions : led'[x].state # "OPEN" => row[x].state # "none"
  <2>1. Changes(d) /\ Watched(d)
    BY <1>8, AbandonMoves DEF Watched
  <2>2. QED
    BY <2>1, WatchedIs, LedgerWatched
<1>9. ASSUME NEW d \in Decisions, ManualResult(d)
      PROVE  \A x \in Decisions : led'[x].state # "OPEN" => row[x].state # "none"
  BY <1>9, ResultMoves, LedgerWatched
<1>10. CASE UNCHANGED led
  BY <1>10, WatchedIs DEF Watched
<1>11. CASE UNCHANGED close
  BY <1>11, <1>10 DEF close
<1>12. QED
  BY <1>1, <1>2, <1>3, <1>4, <1>5, <1>6, <1>7, <1>8, <1>9, <1>10, <1>11, ZenonT(60)
      DEF Next, Settling, Steps, vars, AskPrepare, Prepare, Lapse, Confirm, Cancel,
      PassTime, TickReads, Freeze, Insert, MarkPersisted, Install, Reconcile,
      Uninstall, RuleBTakes, RuleBReads, RuleBMarks, Resume, ManualReads, ManualMarks,
      Arrives, Lose, CopyTrades, WriteTrades, Reload, Die, Reserve, MarkClosed,
      ManualSends, Sends

LEMMA NoTick ==
    ASSUME tick' = Nothing
    PROVE  \A x \in Decisions, s \in Steps : tick' # {<<x, s>>}
<1>1. ASSUME NEW x \in Decisions, NEW s \in Steps
      PROVE  {<<x, s>>} # {None}
  <2>1. <<x, s>> # None
    BY ConstantsAre
  <2>2. QED
    BY <2>1, Zenon
<1>2. QED
  BY <1>1 DEF Nothing

LEMMA OneStep ==
    ASSUME NEW x, NEW s, NEW d, NEW t, {<<x, s>>} = {<<d, t>>}
    PROVE  x = d
<1>1. <<x, s>> = <<d, t>>
  BY Zenon
<1>2. QED
  BY <1>1

LEMMA StepsWatched ==
    ASSUME Inv, [Next]_vars
    PROVE  \A x \in Decisions, s \in Steps : tick' = {<<x, s>>} => row[x].state # "none"
<1>1. ASSUME NEW d \in Decisions, TickReads(d)
      PROVE  \A x \in Decisions, s \in Steps : tick' = {<<x, s>>} => row[x].state # "none"
  <2>1. Watched(d)
    BY <1>1 DEF TickReads, Watched
  <2>2. PICK t : tick' = {<<d, t>>}
    BY <1>1 DEF TickReads
  <2>3. ASSUME NEW x \in Decisions, NEW s, {<<x, s>>} = {<<d, t>>}
        PROVE  x = d
    BY <2>3, OneStep
  <2>4. QED
    BY <2>1, <2>2, <2>3, WatchedIs
<1>2. ASSUME NEW d \in Decisions, NEW step \in {"PLANNED_EXIT", "LATE_EXIT", "MARK_LATE",
          "MARK_UNRESOLVED"}, Record(d, step)
      PROVE  \A x \in Decisions, s \in Steps : tick' = {<<x, s>>} => row[x].state # "none"
  <2>1. Watched(d)
    BY <1>2 DEF Record, Watched, Steps
  <2>2. tick' = Nothing \/ tick' = {<<d, "economics">>}
    BY <1>2 DEF Record
  <2>3. \A x \in Decisions, s \in Steps : tick' = {<<x, s>>} => x = d
    BY <2>2, NoTick, OneStep
  <2>4. QED
    BY <2>1, <2>3, WatchedIs
<1>3. ASSUME NEW d \in Decisions, PutEconomics(d)
      PROVE  \A x \in Decisions, s \in Steps : tick' = {<<x, s>>} => row[x].state # "none"
  BY <1>3, NoTick DEF PutEconomics
<1>4. CASE Die
  BY <1>4, NoTick DEF Die
<1>5. CASE UNCHANGED tick
  BY <1>5, WatchedIs DEF Watched
<1>6. CASE UNCHANGED close
  BY <1>6, <1>5 DEF close
<1>7. QED
  BY <1>1, <1>2, <1>3, <1>4, <1>5, <1>6, ZenonT(60) DEF Next, Settling, Steps, vars,
      AskPrepare, Prepare, Lapse, Confirm, Cancel, PassTime, Freeze, UserCloses,
      UserNotes, Insert, MarkPersisted, Install, Reconcile, Uninstall, RuleBTakes,
      RuleBJournals, RuleBReads, RuleBAcks, RuleBMarks, ManualJournals, Resume,
      Abandon, ManualReads, ManualResult, ManualMarks, Arrives, Lose, CopyTrades,
      WriteTrades, Reload, Reserve, Asks, ManualSends, Sends, MarkClosed

LEMMA OpenWatched ==
    ASSUME Inv, [Next]_vars
    PROVE  \A x \in Decisions : x \in open' => row[x].state # "none"
<1>1. ASSUME NEW d \in Decisions, Install(d)
      PROVE  \A x \in Decisions : x \in open' => row[x].state # "none"
  BY <1>1, WatchedIs DEF Install, Watched
<1>2. ASSUME NEW d \in Decisions, Uninstall(d)
      PROVE  \A x \in Decisions : x \in open' => row[x].state # "none"
  BY <1>2, WatchedIs DEF Uninstall, Watched
<1>3. CASE WriteTrades
  BY <1>3, WatchedIs DEF WriteTrades, Watched
<1>4. CASE UNCHANGED open
  BY <1>4, WatchedIs DEF Watched
<1>5. CASE UNCHANGED position
  BY <1>5, <1>4 DEF position
<1>6. QED
  BY <1>1, <1>2, <1>3, <1>4, <1>5, ZenonT(60) DEF Next, Settling, Steps, vars,
      AskPrepare, Prepare, Lapse, Confirm, Cancel, PassTime, TickReads, PutEconomics,
      Freeze, Record, UserCloses, UserNotes, Insert, MarkPersisted, Reconcile,
      RuleBTakes, RuleBJournals, RuleBReads, RuleBAcks, RuleBMarks, ManualJournals,
      Resume, Abandon, ManualReads, ManualResult, ManualMarks, Arrives, Lose,
      CopyTrades, Reload, Die, Reserve, Asks, ManualSends, Sends, MarkClosed

LEMMA CopyWatched ==
    ASSUME Inv, [Next]_vars
    PROVE  \A x \in Decisions : x \in copy' => row[x].state # "none"
<1>1. CASE CopyTrades
  BY <1>1, WatchedIs DEF CopyTrades, Watched
<1>2. CASE WriteTrades
  BY <1>2, ConstantsAre DEF WriteTrades, Nothing
<1>3. CASE Die
  BY <1>3, ConstantsAre DEF Die, Nothing
<1>4. CASE UNCHANGED copy
  BY <1>4, WatchedIs DEF Watched
<1>5. CASE UNCHANGED position
  BY <1>5, <1>4 DEF position
<1>6. QED
  BY <1>1, <1>2, <1>3, <1>4, <1>5, ZenonT(60) DEF Next, Settling, Steps, vars,
      AskPrepare, Prepare, Lapse, Confirm, Cancel, PassTime, TickReads, PutEconomics,
      Freeze, Record, UserCloses, UserNotes, Insert, MarkPersisted, Install,
      Reconcile, Uninstall, RuleBTakes, RuleBJournals, RuleBReads, RuleBAcks,
      RuleBMarks, ManualJournals, Resume, Abandon, ManualReads, ManualResult,
      ManualMarks, Arrives, Lose, Reload, Reserve, Asks, ManualSends, Sends,
      MarkClosed

LEMMA RowTrueStep ==
    ASSUME Inv, [Next]_vars, NEW x \in Decisions
    PROVE  RowTrue(x)'
<1>1. ASSUME Watched(x)'
      PROVE  row'[x].state # "none"
  <2>1. row[x].state # "none"
    BY <1>1, EntriesWatched, StepsWatched, OpenWatched, CopyWatched DEF Watched
  <2>2. QED
    BY <2>1, RowStands DEF RowStays
<1>2. RowEnds(x)
  BY RowStep
<1>3. \A m \in flight' : row'[m.of].state # "CLOSED"
  BY FlightStep DEF FlightTrue
<1>4. QED
  BY <1>1, <1>2, <1>3 DEF RowTrue, RowEnds

-----------------------------------------------------------------------------
(***************************************************************************)
(* What the ledger, the two deliveries and the tracker say of the row.     *)
(***************************************************************************)
\* The winner that is named: at these calls the row has been read.
LEMMA ConfirmIs ==
    ASSUME Inv, NEW d \in Decisions, ruleB[d].at = "confirm", led[d].state = "EXIT_FILLED"
    PROVE  row[d].by = "ruleB"
<1>1. /\ ruleB[d].patch = led[d].journal /\ ruleB[d].patch # None
      /\ ruleB[d].patch = "unresolved" \/ row[d].by = "ruleB"
  BY LocalIs DEF Local, RuleBTrue
<1>2. led[d].journal = "unresolved" => led[d].state = "UNRESOLVED"
  BY <1>1, LocalIs DEF GoodEntry, EntryShape
<1>3. QED
  BY <1>1, <1>2

ClaimStep(d) ==
    /\ ManualWon(led'[d]) => ManualWon(led[d]) \/ row[d].by = "manual"
    /\ Confirmed(led'[d]) => Confirmed(led[d]) \/ row[d].by = "ruleB"

LEMMA ClaimChanges ==
    ASSUME Inv, NEW d \in Decisions, Changes(d), ClaimStep(d)
    PROVE  \A x \in Decisions : ClaimStep(x)
<1>1. \A x \in Decisions \ {d} : ClaimStep(x)
  <2>1. ASSUME NEW x \in Decisions \ {d}
        PROVE  ClaimStep(x)
    <3>1. led'[x] = led[x]
      BY DEF Changes
    <3>2. (ManualWon(led'[x]) => ManualWon(led[x])) /\ (Confirmed(led'[x]) => Confirmed(led[x]))
      BY <3>1, Zenon
    <3>3. QED
      BY <3>2 DEF ClaimStep
  <2>2. QED
    BY <2>1
<1>2. QED
  BY <1>1

LEMMA ClaimMoves ==
    ASSUME Inv, [Next]_vars
    PROVE  \A x \in Decisions : ClaimStep(x)
<1>1. ASSUME NEW d \in Decisions, PutEconomics(d)
      PROVE  \A x \in Decisions : ClaimStep(x)
  <2>1. Changes(d) /\ ClaimsNothing(led[d], led'[d])
    BY <1>1, EconomicsMoves DEF Quiet
  <2>2. QED
    BY <2>1, ClaimChanges DEF ClaimStep, ClaimsNothing
<1>2. ASSUME NEW d \in Decisions, NEW step \in {"PLANNED_EXIT", "LATE_EXIT", "MARK_LATE",
          "MARK_UNRESOLVED"}, Record(d, step)
      PROVE  \A x \in Decisions : ClaimStep(x)
  <2>1. Changes(d) /\ ClaimsNothing(led[d], led'[d])
    BY <1>2, RecordMoves DEF Quiet, Steps
  <2>2. QED
    BY <2>1, ClaimChanges DEF ClaimStep, ClaimsNothing
<1>3. ASSUME NEW d \in Decisions, NEW patch \in ManualPatches, UserCloses(d, patch)
      PROVE  \A x \in Decisions : ClaimStep(x)
  <2>1. Changes(d) /\ ClaimsNothing(led[d], led'[d])
    BY <1>3, RequestMoves DEF Quiet
  <2>2. QED
    BY <2>1, ClaimChanges DEF ClaimStep, ClaimsNothing
<1>4. ASSUME NEW d \in Decisions, NEW patch \in ManualPatches, UserNotes(d, patch)
      PROVE  \A x \in Decisions : ClaimStep(x)
  <2>1. Changes(d) /\ ClaimsNothing(led[d], led'[d])
    BY <1>4, NoteMoves DEF Quiet
  <2>2. QED
    BY <2>1, ClaimChanges DEF ClaimStep, ClaimsNothing
<1>5. ASSUME NEW d \in Decisions, RuleBJournals(d)
      PROVE  \A x \in Decisions : ClaimStep(x)
  <2>1. Changes(d) /\ ClaimsNothing(led[d], led'[d])
    BY <1>5, JournalMoves DEF Quiet
  <2>2. QED
    BY <2>1, ClaimChanges DEF ClaimStep, ClaimsNothing
<1>6. ASSUME NEW d \in Decisions, RuleBAcks(d)
      PROVE  \A x \in Decisions : ClaimStep(x)
  <2>1. /\ Changes(d) /\ led'[d].state = led[d].state
        /\ ManualWon(led'[d]) => ManualWon(led[d]) \/ ruleB[d].at = "conflict"
        /\ Confirmed(led'[d]) => Confirmed(led[d]) \/ ruleB[d].at = "confirm"
    BY <1>6, AckMoves
  <2>2. ruleB[d].at = "conflict" => row[d].by = "manual"
    BY LocalIs DEF Local, RuleBTrue
  <2>3. Confirmed(led'[d]) /\ ruleB[d].at = "confirm" => row[d].by = "ruleB"
    BY <2>1, ConfirmIs DEF Confirmed
  <2>4. QED
    BY <2>1, <2>2, <2>3, ClaimChanges DEF ClaimStep
<1>7. ASSUME NEW d \in Decisions, ManualJournals(d)
      PROVE  \A x \in Decisions : ClaimStep(x)
  <2>1. Changes(d) /\ ClaimsNothing(led[d], led'[d])
    BY <1>7, ByHandMoves DEF Quiet
  <2>2. QED
    BY <2>1, ClaimChanges DEF ClaimStep, ClaimsNothing
<1>8. ASSUME NEW d \in Decisions, Abandon(d)
      PROVE  \A x \in Decisions : ClaimStep(x)
  <2>1. Changes(d) /\ ClaimsNothing(led[d], led'[d])
    BY <1>8, AbandonMoves DEF Quiet
  <2>2. QED
    BY <2>1, ClaimChanges DEF ClaimStep, ClaimsNothing
<1>9. ASSUME NEW d \in Decisions, ManualResult(d)
      PROVE  \A x \in Decisions : ClaimStep(x)
  <2>1. /\ Changes(d)
        /\ Confirmed(led'[d]) => Confirmed(led[d])
        /\ ManualWon(led'[d]) => ManualWon(led[d]) \/ manual[d].at = "won"
    BY <1>9, ResultMoves
  <2>2. manual[d].at = "won" => row[d].by = "manual"
    BY LocalIs DEF Local, ManualTrue
  <2>3. QED
    BY <2>1, <2>2, ClaimChanges DEF ClaimStep
<1>10. CASE UNCHANGED led
  BY <1>10, Zenon DEF ClaimStep
<1>11. CASE UNCHANGED close
  BY <1>11, <1>10 DEF close
<1>12. QED
  BY <1>1, <1>2, <1>3, <1>4, <1>5, <1>6, <1>7, <1>8, <1>9, <1>10, <1>11, ZenonT(60)
      DEF Next, Settling, Steps, vars, AskPrepare, Prepare, Lapse, Confirm, Cancel,
      PassTime, TickReads, Freeze, Insert, MarkPersisted, Install, Reconcile,
      Uninstall, RuleBTakes, RuleBReads, RuleBMarks, Resume, ManualReads, ManualMarks,
      Arrives, Lose, CopyTrades, WriteTrades, Reload, Die, Reserve, MarkClosed,
      ManualSends, Sends

LEMMA ClaimsStep ==
    ASSUME Inv, [Next]_vars, NEW x \in Decisions
    PROVE  ClaimsTrue(x)'
<1>1. ClaimsTrue(x)
  BY LocalIs DEF Local
<1>2. ClaimStep(x) /\ RowStays(x)
  BY ClaimMoves, RowStands
<1>3. /\ ManualWon(led'[x]) => row[x].by = "manual"
      /\ Confirmed(led'[x]) => row[x].by = "ruleB"
  BY <1>1, <1>2 DEF ClaimsTrue, ClaimStep
<1>4. /\ row[x].by = "manual" => row'[x].by = "manual"
      /\ row[x].by = "ruleB" => row'[x].by = "ruleB"
  BY <1>2, ConstantsAre DEF RowStays
<1>5. (ManualWon(led[x])' <=> ManualWon(led'[x])) /\ (Confirmed(led[x])' <=> Confirmed(led'[x]))
  BY DEF ManualWon, Confirmed
<1>6. QED
  BY <1>3, <1>4, <1>5 DEF ClaimsTrue

RuleBCalls ==
    [at : {"idle", "journal", "read", "conflict", "confirm", "mark"}, patch : Codes \cup {None}]

ManualCalls ==
    [at : {"idle", "journal", "read", "won", "lost", "mark"}, patch : ManualPatches \cup {None}]

LEMMA CallsAre ==
    ASSUME Inv
    PROVE  ruleB \in [Decisions -> RuleBCalls] /\ manual \in [Decisions -> ManualCalls]
  BY DEF Inv, Typed, CloseType, RuleBCalls, ManualCalls

LEMMA IdleIs == Idle.at = "idle" /\ Idle \in RuleBCalls /\ Idle \in ManualCalls
  BY DEF Idle, RuleBCalls, ManualCalls

LEMMA RuleBStays ==
    ASSUME Inv, [Next]_vars, NEW x \in Decisions, ruleB'[x] = ruleB[x] \/ ruleB'[x].at = "idle"
    PROVE  RuleBTrue(x)'
<1>1. RuleBTrue(x) /\ Follows(led[x], led'[x]) /\ RowStays(x)
  BY LocalIs, LedgerKeeps, RowStands DEF Local
<1>2. CASE ruleB'[x].at = "idle"
  BY <1>2 DEF RuleBTrue
<1>3. CASE ruleB'[x] = ruleB[x]
  <2>1. led[x].state \in Exited => led'[x].state = led[x].state
    BY <1>1 DEF Follows
  <2>2. led[x].journal # None => led'[x].journal = led[x].journal
    BY <1>1 DEF Follows, Stands
  <2>3. row[x].by # None => row'[x].by = row[x].by
    BY <1>1 DEF RowStays
  <2>4. row[x].state = "CLOSED" => row'[x].state = "CLOSED"
    BY <1>1 DEF RowStays
  <2>5. QED
    BY <1>1, <1>3, <2>1, <2>2, <2>3, <2>4, ConstantsAre DEF RuleBTrue
<1>4. QED
  BY <1>2, <1>3

\* One decision's delivery moves, the others' are where they were.
LEMMA RuleBMoves ==
    ASSUME Inv, [Next]_vars, NEW d \in Decisions, NEW w \in RuleBCalls,
           ruleB' = [ruleB EXCEPT ![d] = w], w.at # "idle" => RuleBTrue(d)'
    PROVE  ruleB' \in [Decisions -> RuleBCalls] /\ \A x \in Decisions : RuleBTrue(x)'
<1>1. /\ ruleB' \in [Decisions -> RuleBCalls] /\ ruleB'[d] = w
      /\ \A x \in Decisions \ {d} : ruleB'[x] = ruleB[x]
  BY CallsAre
<1>2. \A x \in Decisions \ {d} : RuleBTrue(x)'
  BY <1>1, RuleBStays
<1>3. RuleBTrue(d)'
  BY <1>1, RuleBStays
<1>4. QED
  BY <1>1, <1>2, <1>3

LEMMA RuleBStep ==
    ASSUME Inv, [Next]_vars
    PROVE  ruleB' \in [Decisions -> RuleBCalls] /\ \A x \in Decisions : RuleBTrue(x)'
<1>1. ASSUME NEW d \in Decisions, RuleBTakes(d)
      PROVE  ruleB' \in [Decisions -> RuleBCalls] /\ \A x \in Decisions : RuleBTrue(x)'
  <2> DEFINE w == [at |-> "journal", patch |-> PatchOf(led[d])]
  <2>1. /\ led' = led /\ ruleB' = [ruleB EXCEPT ![d] = w] /\ led[d].state \in Exited
    BY <1>1 DEF RuleBTakes
  <2>2. PatchOf(led[d]) \in Codes /\ (PatchOf(led[d]) = "unresolved" <=> led[d].state = "UNRESOLVED")
    BY <2>1, LocalIs, PatchIs
  <2>3. w \in RuleBCalls
    BY <2>2 DEF RuleBCalls
  <2>4. ruleB'[d] = w
    BY <2>1, CallsAre
  <2>5. RuleBTrue(d)'
    BY <2>1, <2>2, <2>4 DEF RuleBTrue
  <2> HIDE DEF w
  <2>6. QED
    BY <2>1, <2>3, <2>5, RuleBMoves
<1>2. ASSUME NEW d \in Decisions, RuleBJournals(d)
      PROVE  ruleB' \in [Decisions -> RuleBCalls] /\ \A x \in Decisions : RuleBTrue(x)'
  <2>1. ruleB[d] \in RuleBCalls /\ ruleB[d].patch \in Codes /\ led'[d] = Journaled(led[d], ruleB[d].patch)
    BY <1>2, JournalMoves, LocalIs, CallsAre DEF RuleBJournals, Local, RuleBTrue
  <2>2. CASE ruleB' = [ruleB EXCEPT ![d] = Idle]
    BY <2>2, IdleIs, RuleBMoves
  <2>3. CASE /\ ruleB' = [ruleB EXCEPT ![d].at = "read"]
             /\ Journaled(led[d], ruleB[d].patch).journal = ruleB[d].patch
    <3> DEFINE w == [ruleB[d] EXCEPT !.at = "read"]
    <3>1. w \in RuleBCalls /\ w.at = "read" /\ w.patch = ruleB[d].patch
      BY <2>1 DEF RuleBCalls
    <3>2. ruleB' = [ruleB EXCEPT ![d] = w]
      BY <2>3, CallsAre
    <3> HIDE DEF w
    <3>3. ruleB'[d] = w
      BY <3>2, CallsAre
    <3>4. RuleBTrue(d)'
      BY <2>1, <2>3, <3>1, <3>3, ConstantsAre DEF RuleBTrue
    <3>5. QED
      BY <3>1, <3>2, <3>4, RuleBMoves
  <2>4. QED
    BY <1>2, <2>2, <2>3 DEF RuleBJournals
<1>3. ASSUME NEW d \in Decisions, RuleBReads(d)
      PROVE  ruleB' \in [Decisions -> RuleBCalls] /\ \A x \in Decisions : RuleBTrue(x)'
  <2>1. /\ ruleB[d] \in RuleBCalls /\ ruleB[d].patch = led[d].journal /\ ruleB[d].patch # None
        /\ led' = led /\ row' = row
    BY <1>3, LocalIs, CallsAre DEF RuleBReads, Local, RuleBTrue, position
  <2>2. PICK w : /\ ruleB' = [ruleB EXCEPT ![d] = w]
                 /\ \/ w = Idle
                    \/ w = [ruleB[d] EXCEPT !.at = "conflict"] /\ row[d].by = "manual"
                    \/ /\ w = [ruleB[d] EXCEPT !.at = "confirm"]
                       /\ ~(row[d].state = "CLOSED" /\ row[d].by = "manual")
                       /\ row[d].state = "CLOSED" \/ ruleB[d].patch = "unresolved"
    BY <1>3, CallsAre DEF RuleBReads
  <2>3. row[d].state = "CLOSED" => row[d].by \in {"ruleB", "manual"}
    BY LocalIs DEF Local, RowTrue, Typed, PositionType
  <2>4. \/ w = Idle
        \/ /\ w \in RuleBCalls /\ w.patch = ruleB[d].patch
           /\ \/ w.at = "conflict" /\ row[d].by = "manual"
              \/ w.at = "confirm" /\ (ruleB[d].patch = "unresolved" \/ row[d].by = "ruleB")
    BY <2>1, <2>2, <2>3 DEF RuleBCalls
  <2>5. w \in RuleBCalls /\ ruleB'[d] = w
    BY <2>2, <2>4, CallsAre, IdleIs
  <2>6. w.at # "idle" => RuleBTrue(d)'
    BY <2>1, <2>4, <2>5, IdleIs DEF RuleBTrue
  <2>7. QED
    BY <2>2, <2>5, <2>6, RuleBMoves
<1>4. ASSUME NEW d \in Decisions, RuleBAcks(d)
      PROVE  ruleB' \in [Decisions -> RuleBCalls] /\ \A x \in Decisions : RuleBTrue(x)'
  <2>1. ruleB[d] \in RuleBCalls /\ row' = row /\ led'[d].state = led[d].state
    BY <1>4, CallsAre, AckMoves DEF RuleBAcks, position
  <2>2. CASE ruleB' = [ruleB EXCEPT ![d] = Idle]
    BY <2>2, IdleIs, RuleBMoves
  <2>3. CASE ruleB' = [ruleB EXCEPT ![d].at = "mark"] /\ led'[d].state = "EXIT_FILLED"
    <3> DEFINE w == [ruleB[d] EXCEPT !.at = "mark"]
    <3>1. w \in RuleBCalls /\ w.at = "mark"
      BY <2>1 DEF RuleBCalls
    <3>2. ruleB' = [ruleB EXCEPT ![d] = w]
      BY <2>3, CallsAre
    <3> HIDE DEF w
    <3>3. ruleB'[d] = w
      BY <3>2, CallsAre
    <3>4. row[d].by \in {"ruleB", "manual"}
      <4>1. CASE ruleB[d].at = "confirm"
        BY <2>1, <2>3, <4>1, ConfirmIs
      <4>2. CASE ruleB[d].at = "conflict"
        BY <4>2, LocalIs DEF Local, RuleBTrue
      <4>3. QED
        BY <1>4, <4>1, <4>2 DEF RuleBAcks
    <3>5. row[d].state = "CLOSED"
      BY <3>4, LocalIs, ConstantsAre DEF Local, RowTrue
    <3>6. RuleBTrue(d)'
      BY <2>1, <3>1, <3>3, <3>5 DEF RuleBTrue
    <3>7. QED
      BY <3>1, <3>2, <3>6, RuleBMoves
  <2>4. QED
    <3> DEFINE e == Acknowledged(led[d], IF ruleB[d].at = "conflict"
                                         THEN "MANUAL_CLOSE_CONFLICT" ELSE "REMOTE_CONFIRMED")
    <3>1. /\ led' = [led EXCEPT ![d] = e]
          /\ \/ ruleB' = [ruleB EXCEPT ![d] = Idle]
             \/ ruleB' = [ruleB EXCEPT ![d].at = "mark"] /\ e.state = "EXIT_FILLED"
      BY <1>4, CallsAre DEF RuleBAcks
    <3> HIDE DEF e
    <3>2. led'[d] = e
      BY <3>1 DEF Inv, Typed, LedgerType
    <3>3. QED
      BY <2>2, <2>3, <3>1, <3>2
<1>5. ASSUME NEW d \in Decisions, RuleBMarks(d)
      PROVE  ruleB' \in [Decisions -> RuleBCalls] /\ \A x \in Decisions : RuleBTrue(x)'
  BY <1>5, IdleIs, RuleBMoves DEF RuleBMarks
<1>6. CASE Reload
  <2>1. /\ ruleB' \in [Decisions -> RuleBCalls]
        /\ \A x \in Decisions : ruleB'[x] = ruleB[x] \/ ruleB'[x] = Idle
    BY <1>6, CallsAre, IdleIs DEF Reload
  <2>2. QED
    BY <2>1, IdleIs, RuleBStays
<1>7. CASE Die
  <2>1. /\ ruleB' \in [Decisions -> RuleBCalls]
        /\ \A x \in Decisions : ruleB'[x] = ruleB[x] \/ ruleB'[x] = Idle
    BY <1>7, CallsAre, IdleIs DEF Die
  <2>2. QED
    BY <2>1, IdleIs, RuleBStays
<1>8. CASE UNCHANGED ruleB
  BY <1>8, CallsAre, RuleBStays
<1>9. CASE UNCHANGED close
  BY <1>9, <1>8 DEF close
<1>10. QED
  BY <1>1, <1>2, <1>3, <1>4, <1>5, <1>6, <1>7, <1>8, <1>9, ZenonT(60) DEF Next,
      Settling, Steps, vars, AskPrepare, Prepare, Lapse, Confirm, Cancel, PassTime,
      TickReads, PutEconomics, Freeze, Record, UserCloses, UserNotes, Insert,
      MarkPersisted, Install, Reconcile, Uninstall, ManualJournals, Resume, Abandon,
      ManualReads, ManualResult, ManualMarks, Arrives, Lose, CopyTrades, WriteTrades,
      Reserve, Asks, ManualSends, Sends, MarkClosed

LEMMA ManualStays ==
    ASSUME Inv, [Next]_vars, NEW x \in Decisions,
           manual'[x] = manual[x] \/ manual'[x].at \notin {"journal", "won", "mark"}
    PROVE  ManualTrue(x)'
<1>1. ManualTrue(x) /\ RowStays(x)
  BY LocalIs, RowStands DEF Local
<1>2. QED
  BY <1>1, ConstantsAre DEF ManualTrue, RowStays

LEMMA ManualMoves ==
    ASSUME Inv, [Next]_vars, NEW d \in Decisions, NEW w \in ManualCalls,
           manual' = [manual EXCEPT ![d] = w],
           w.at = "journal" => w.patch # None, w.at \in {"won", "mark"} => row'[d].by = "manual"
    PROVE  manual' \in [Decisions -> ManualCalls] /\ \A x \in Decisions : ManualTrue(x)'
<1>1. /\ manual' \in [Decisions -> ManualCalls] /\ manual'[d] = w
      /\ \A x \in Decisions \ {d} : manual'[x] = manual[x]
  BY CallsAre
<1>2. \A x \in Decisions \ {d} : ManualTrue(x)'
  BY <1>1, ManualStays
<1>3. ManualTrue(d)'
  BY <1>1 DEF ManualTrue
<1>4. QED
  BY <1>1, <1>2, <1>3

LEMMA ManualRests ==
    ASSUME Inv, [Next]_vars, manual' = manual
    PROVE  manual' \in [Decisions -> ManualCalls] /\ \A x \in Decisions : ManualTrue(x)'
  BY CallsAre, ManualStays

LEMMA ManualSendsIs ==
    ASSUME Inv, [Next]_vars, NEW d \in Decisions, NEW patch \in ManualPatches, NEW go,
           ManualSends(d, patch, go)
    PROVE  manual' \in [Decisions -> ManualCalls] /\ \A x \in Decisions : ManualTrue(x)'
<1>1. PICK w \in {Idle, [at |-> "read", patch |-> patch]} : manual' = [manual EXCEPT ![d] = w]
  BY DEF ManualSends
<1>2. w \in ManualCalls /\ w.at \in {"idle", "read"}
  BY IdleIs DEF ManualCalls
<1>3. QED
  BY <1>1, <1>2, ManualMoves

LEMMA ManualStep ==
    ASSUME Inv, [Next]_vars
    PROVE  manual' \in [Decisions -> ManualCalls] /\ \A x \in Decisions : ManualTrue(x)'
<1>1. ASSUME NEW d \in Decisions, NEW patch \in ManualPatches, UserCloses(d, patch)
      PROVE  manual' \in [Decisions -> ManualCalls] /\ \A x \in Decisions : ManualTrue(x)'
  BY <1>1, ManualSendsIs DEF UserCloses
<1>2. ASSUME NEW d \in Decisions, NEW patch \in ManualPatches, UserNotes(d, patch)
      PROVE  manual' \in [Decisions -> ManualCalls] /\ \A x \in Decisions : ManualTrue(x)'
  <2>1. CASE manual' = manual
    BY <2>1, ManualRests
  <2>2. CASE manual' = [manual EXCEPT ![d] = [at |-> "journal", patch |-> patch]]
    <3> DEFINE w == [at |-> "journal", patch |-> patch]
    <3>1. w \in ManualCalls /\ w.at = "journal" /\ w.patch # None
      BY ConstantsAre DEF ManualCalls
    <3>2. manual' = [manual EXCEPT ![d] = w]
      BY <2>2
    <3> HIDE DEF w
    <3>3. QED
      BY <3>1, <3>2, ManualMoves
  <2>3. QED
    BY <1>2, <2>1, <2>2 DEF UserNotes
<1>3. ASSUME NEW d \in Decisions, ManualJournals(d)
      PROVE  manual' \in [Decisions -> ManualCalls] /\ \A x \in Decisions : ManualTrue(x)'
  <2>1. manual[d].patch \in ManualPatches
    BY <1>3, CallsAre, LocalIs DEF ManualJournals, Local, ManualTrue, ManualCalls
  <2>2. PICK go : ManualSends(d, manual[d].patch, go)
    BY <1>3 DEF ManualJournals
  <2>3. QED
    BY <2>1, <2>2, ManualSendsIs
<1>4. ASSUME NEW d \in Decisions, Resume(d)
      PROVE  manual' \in [Decisions -> ManualCalls] /\ \A x \in Decisions : ManualTrue(x)'
  <2>1. led[d].manual \in ManualPatches \cup {None} /\ manual[d] \in ManualCalls
    BY CallsAre DEF Inv, Typed, LedgerType, Entry
  <2>2. CASE led[d].manual # None /\ ManualSends(d, led[d].manual, TRUE)
    BY <2>1, <2>2, ManualSendsIs
  <2>3. CASE manual' = [manual EXCEPT ![d].at = "read"]
    <3> DEFINE w == [manual[d] EXCEPT !.at = "read"]
    <3>1. w \in ManualCalls /\ w.at = "read"
      BY <2>1 DEF ManualCalls
    <3>2. manual' = [manual EXCEPT ![d] = w]
      BY <2>3, CallsAre
    <3> HIDE DEF w
    <3>3. QED
      BY <3>1, <3>2, ManualMoves
  <2>4. QED
    BY <1>4, <2>2, <2>3 DEF Resume
<1>5. ASSUME NEW d \in Decisions, ManualReads(d)
      PROVE  manual' \in [Decisions -> ManualCalls] /\ \A x \in Decisions : ManualTrue(x)'
  <2>1. manual[d] \in ManualCalls /\ row' = row
    BY <1>5, CallsAre DEF ManualReads, position
  <2>2. PICK w : /\ manual' = [manual EXCEPT ![d] = w]
                 /\ \/ w = Idle
                    \/ w = [manual[d] EXCEPT !.at = "won"] /\ row[d].by = "manual"
                    \/ w = [manual[d] EXCEPT !.at = "lost"]
    BY <1>5, CallsAre DEF ManualReads
  <2>3. w \in ManualCalls /\ (w.at \in {"idle", "lost"} \/ (w.at = "won" /\ row[d].by = "manual"))
    BY <2>1, <2>2, IdleIs DEF ManualCalls
  <2>4. QED
    BY <2>1, <2>2, <2>3, ManualMoves
<1>6. ASSUME NEW d \in Decisions, ManualResult(d)
      PROVE  manual' \in [Decisions -> ManualCalls] /\ \A x \in Decisions : ManualTrue(x)'
  <2>1. manual[d] \in ManualCalls /\ row' = row
    BY <1>6, CallsAre DEF ManualResult, position
  <2>2. PICK w : /\ manual' = [manual EXCEPT ![d] = w]
                 /\ \/ w = Idle
                    \/ w = [manual[d] EXCEPT !.at = "mark"] /\ manual[d].at = "won"
    BY <1>6, CallsAre DEF ManualResult
  <2>3. w \in ManualCalls /\ (w.at = "idle" \/ (w.at = "mark" /\ manual[d].at = "won"))
    BY <2>1, <2>2, IdleIs DEF ManualCalls
  <2>4. manual[d].at = "won" => row[d].by = "manual"
    BY LocalIs DEF Local, ManualTrue
  <2>5. QED
    BY <2>1, <2>2, <2>3, <2>4, ManualMoves
<1>7. ASSUME NEW d \in Decisions, ManualMarks(d)
      PROVE  manual' \in [Decisions -> ManualCalls] /\ \A x \in Decisions : ManualTrue(x)'
  BY <1>7, IdleIs, ManualMoves DEF ManualMarks
<1>8. CASE Reload
  <2>1. /\ manual' \in [Decisions -> ManualCalls]
        /\ \A x \in Decisions : manual'[x] = manual[x] \/ manual'[x] = Idle
    BY <1>8, CallsAre, IdleIs DEF Reload
  <2>2. QED
    BY <2>1, IdleIs, ManualStays
<1>9. CASE Die
  <2>1. /\ manual' \in [Decisions -> ManualCalls]
        /\ \A x \in Decisions : manual'[x] = manual[x] \/ manual'[x] = Idle
    BY <1>9, CallsAre, IdleIs DEF Die
  <2>2. QED
    BY <2>1, IdleIs, ManualStays
<1>10. CASE UNCHANGED manual
  BY <1>10, ManualRests
<1>11. CASE UNCHANGED close
  BY <1>11, <1>10 DEF close
<1>12. QED
  BY <1>1, <1>2, <1>3, <1>4, <1>5, <1>6, <1>7, <1>8, <1>9, <1>10, <1>11, ZenonT(60)
      DEF Next, Settling, Steps, vars, AskPrepare, Prepare, Lapse, Confirm, Cancel,
      PassTime, TickReads, PutEconomics, Freeze, Record, Insert, MarkPersisted,
      Install, Reconcile, Uninstall, RuleBTakes, RuleBJournals, RuleBReads, RuleBAcks,
      RuleBMarks, Abandon, Arrives, Lose, CopyTrades, WriteTrades, Reserve,
      MarkClosed, Sends

LEMMA SendsTyped ==
    ASSUME Inv, NEW d \in Decisions, NEW by \in {"ruleB", "manual"}, NEW patch \in Patches,
           Sends(d, by, patch)
    PROVE  flight' \subseteq Updates
<1>1. [of |-> d, by |-> by, patch |-> patch] \in Updates
  BY DEF Updates, Patches
<1>2. flight \subseteq Updates
  BY DEF Inv, Typed, CloseType
<1>3. QED
  BY <1>1, <1>2 DEF Sends

LEMMA UpdatesTyped ==
    ASSUME Inv, [Next]_vars
    PROVE  flight' \subseteq Updates
<1>0. flight \subseteq Updates
  BY DEF Inv, Typed, CloseType
<1>1. ASSUME NEW d \in Decisions, RuleBJournals(d)
      PROVE  flight' \subseteq Updates
  <2>1. ruleB[d].patch \in Patches
    BY <1>1, LocalIs, ConstantsAre DEF RuleBJournals, Local, RuleBTrue
  <2>2. UNCHANGED flight \/ Sends(d, "ruleB", ruleB[d].patch)
    BY <1>1 DEF RuleBJournals
  <2>3. QED
    BY <1>0, <2>1, <2>2, SendsTyped
<1>2. ASSUME NEW d \in Decisions, NEW patch \in ManualPatches, UserCloses(d, patch)
      PROVE  flight' \subseteq Updates
  <2>1. UNCHANGED flight \/ Sends(d, "manual", patch)
    BY <1>2 DEF UserCloses, ManualSends
  <2>2. QED
    BY <1>0, <2>1, SendsTyped, ConstantsAre
<1>3. ASSUME NEW d \in Decisions, ManualJournals(d)
      PROVE  flight' \subseteq Updates
  <2>1. manual[d].patch \in ManualPatches
    BY <1>3, CallsAre, LocalIs DEF ManualJournals, Local, ManualTrue, ManualCalls
  <2>2. UNCHANGED flight \/ Sends(d, "manual", manual[d].patch)
    BY <1>3 DEF ManualJournals, ManualSends
  <2>3. QED
    BY <1>0, <2>1, <2>2, SendsTyped, ConstantsAre
<1>4. ASSUME NEW d \in Decisions, Resume(d)
      PROVE  flight' \subseteq Updates
  <2>1. led[d].manual \in ManualPatches \cup {None}
    BY DEF Inv, Typed, LedgerType, Entry
  <2>2. UNCHANGED flight \/ (led[d].manual # None /\ Sends(d, "manual", led[d].manual))
    BY <1>4 DEF Resume, ManualSends
  <2>3. QED
    BY <1>0, <2>1, <2>2, SendsTyped, ConstantsAre
<1>5. ASSUME NEW m \in flight, Arrives(m)
      PROVE  flight' \subseteq Updates
  BY <1>5, <1>0 DEF Arrives
<1>6. ASSUME NEW m \in flight, Lose(m)
      PROVE  flight' \subseteq Updates
  BY <1>6, <1>0 DEF Lose
<1>7. CASE UNCHANGED flight
  BY <1>7, <1>0
<1>8. CASE UNCHANGED close
  BY <1>8, <1>7 DEF close
<1>9. QED
  BY <1>1, <1>2, <1>3, <1>4, <1>5, <1>6, <1>7, <1>8, ZenonT(60) DEF Next, Settling,
      Steps, vars, AskPrepare, Prepare, Lapse, Confirm, Cancel, PassTime, TickReads,
      PutEconomics, Freeze, Record, UserNotes, Insert, MarkPersisted, Install,
      Reconcile, Uninstall, RuleBTakes, RuleBReads, RuleBAcks, RuleBMarks, Abandon,
      ManualReads, ManualResult, ManualMarks, CopyTrades, WriteTrades, Reload, Die,
      Reserve, Asks, MarkClosed

LEMMA CloseStep ==
    ASSUME Inv, [Next]_vars
    PROVE  CloseType'
  BY RuleBStep, ManualStep, UpdatesTyped DEF CloseType, RuleBCalls, ManualCalls

-----------------------------------------------------------------------------
(***************************************************************************)
(* Acceptance: what is taken stays taken and was confirmed while a         *)
(* reservation was shown; a closed acceptance has a closed row.            *)
(***************************************************************************)
Accept(d) ==
    /\ acc[d].state \in Taken => acc'[d].state \in Taken
    /\ acc'[d].state \in Taken => acc[d].state \in Taken \/ dialog[d] # {}
    /\ acc'[d].state = "CLOSED" => acc[d].state = "CLOSED" \/ row[d].state = "CLOSED"

LEMMA AcceptBecomes ==
    ASSUME Inv, NEW d \in Decisions, NEW state, acc' = [acc EXCEPT ![d].state = state],
           acc[d].state \in Taken => state \in Taken,
           state \in Taken => acc[d].state \in Taken \/ dialog[d] # {},
           state = "CLOSED" => acc[d].state = "CLOSED" \/ row[d].state = "CLOSED"
    PROVE  \A x \in Decisions : Accept(x)
<1>1. ASSUME NEW a \in [state : {"none", "RESERVED"} \cup Taken, rid : 0..MaxPrepares]
      PROVE  [a EXCEPT !.state = state].state = state
  OBVIOUS
<1>2. acc \in [Decisions -> [state : {"none", "RESERVED"} \cup Taken, rid : 0..MaxPrepares]]
  BY DEF Inv, Typed, AcceptanceType, RecordsType
<1>3. acc'[d].state = state /\ \A x \in Decisions \ {d} : acc'[x] = acc[x]
  BY <1>1, <1>2
<1>4. QED
  BY <1>3 DEF Accept

LEMMA MarkClosedIs ==
    ASSUME Inv, NEW d \in Decisions, MarkClosed(d), row[d].state = "CLOSED"
    PROVE  \A x \in Decisions : Accept(x)
<1>1. CASE acc[d].state \in Taken
  BY <1>1, AcceptBecomes DEF MarkClosed, Taken
<1>2. CASE acc[d].state \notin Taken
  BY <1>2 DEF MarkClosed, Accept
<1>3. QED
  BY <1>1, <1>2

LEMMA AcceptMoves ==
    ASSUME Inv, [Next]_vars
    PROVE  \A x \in Decisions : Accept(x)
<1>1. ASSUME NEW d \in Decisions, Prepare(d)
      PROVE  \A x \in Decisions : Accept(x)
  <2>1. CASE acc' = acc
    BY <2>1 DEF Accept
  <2>2. CASE Reserve(d)
    <3>1. \A x \in Decisions : acc[x].state \in Taken => acc'[x] = acc[x]
      BY <2>2 DEF Reserve, Taken
    <3>2. ASSUME NEW x \in Decisions
          PROVE  acc'[x] = acc[x] \/ acc'[x].state \in {"none", "RESERVED"}
      BY <2>2, <3>1 DEF Reserve, Inv, Typed, AcceptanceType, RecordsType
    <3>3. QED
      BY <3>1, <3>2 DEF Accept, Taken
  <2>3. QED
    BY <1>1, <2>1, <2>2 DEF Prepare
<1>2. ASSUME NEW d \in Decisions, NEW r \in dialog[d], Confirm(d, r)
      PROVE  \A x \in Decisions : Accept(x)
  <2>1. PICK state \in {"none", "COMMITTED"} : acc' = [acc EXCEPT ![d].state = state]
    BY <1>2 DEF Confirm
  <2>2. acc[d].state = "RESERVED" /\ dialog[d] # {}
    BY <1>2 DEF Confirm
  <2>3. QED
    BY <2>1, <2>2, AcceptBecomes DEF Taken
<1>3. ASSUME NEW d \in Decisions, NEW r \in dialog[d], Cancel(d, r)
      PROVE  \A x \in Decisions : Accept(x)
  <2>1. CASE acc' = acc
    BY <2>1 DEF Accept
  <2>2. CASE acc' = [acc EXCEPT ![d].state = "none"] /\ acc[d].state = "RESERVED"
    BY <2>2, AcceptBecomes DEF Taken
  <2>3. QED
    BY <1>3, <2>1, <2>2 DEF Cancel
<1>4. ASSUME NEW d \in Decisions, MarkPersisted(d)
      PROVE  \A x \in Decisions : Accept(x)
  BY <1>4, AcceptBecomes DEF MarkPersisted, Taken
<1>5. ASSUME NEW d \in Decisions, Reconcile(d)
      PROVE  \A x \in Decisions : Accept(x)
  BY <1>5, MarkClosedIs DEF Reconcile
<1>6. ASSUME NEW d \in Decisions, RuleBMarks(d)
      PROVE  \A x \in Decisions : Accept(x)
  <2>1. row[d].state = "CLOSED"
    BY <1>6, LocalIs DEF RuleBMarks, Local, RuleBTrue
  <2>2. QED
    BY <1>6, <2>1, MarkClosedIs DEF RuleBMarks
<1>7. ASSUME NEW d \in Decisions, ManualMarks(d)
      PROVE  \A x \in Decisions : Accept(x)
  <2>1. row[d].by = "manual"
    BY <1>7, LocalIs DEF ManualMarks, Local, ManualTrue
  <2>2. row[d].state = "CLOSED"
    BY <2>1, LocalIs, ConstantsAre DEF Local, RowTrue
  <2>3. QED
    BY <1>7, <2>2, MarkClosedIs DEF ManualMarks
<1>8. CASE UNCHANGED acc
  BY <1>8 DEF Accept
<1>9. CASE UNCHANGED acceptance
  BY <1>9, <1>8 DEF acceptance
<1>10. QED
  BY <1>1, <1>2, <1>3, <1>4, <1>5, <1>6, <1>7, <1>8, <1>9, ZenonT(60) DEF Next,
      Settling, Steps, vars, AskPrepare, Lapse, PassTime, TickReads, PutEconomics,
      Freeze, Record, UserCloses, UserNotes, Insert, Install, Uninstall, RuleBTakes,
      RuleBJournals, RuleBReads, RuleBAcks, ManualJournals, Resume, Abandon,
      ManualReads, ManualResult, Arrives, Lose, CopyTrades, WriteTrades, Reload, Die,
      Asks, ManualSends, Sends

LEMMA RowAppears ==
    ASSUME Inv, [Next]_vars
    PROVE  \A x \in Decisions : row'[x].state # "none" => row[x].state # "none" \/ acc[x].state = "COMMITTED"
<1>1. ASSUME NEW d \in Decisions, Insert(d)
      PROVE  \A x \in Decisions : row'[x].state # "none" => row[x].state # "none" \/ acc[x].state = "COMMITTED"
  BY <1>1, InsertIs
<1>2. ASSUME NEW m \in flight, Arrives(m)
      PROVE  \A x \in Decisions : row'[x].state # "none" => row[x].state # "none" \/ acc[x].state = "COMMITTED"
  BY <1>2, FlightIs, ArrivesIs
<1>3. CASE UNCHANGED row
  BY <1>3
<1>4. CASE UNCHANGED position
  BY <1>4, <1>3 DEF position
<1>5. QED
  BY <1>1, <1>2, <1>3, <1>4, ZenonT(60) DEF Next, Settling, Steps, vars, AskPrepare,
      Prepare, Lapse, Confirm, Cancel, PassTime, TickReads, PutEconomics, Freeze,
      Record, UserCloses, UserNotes, MarkPersisted, Install, Reconcile, Uninstall,
      RuleBTakes, RuleBJournals, RuleBReads, RuleBAcks, RuleBMarks, ManualJournals,
      Resume, Abandon, ManualReads, ManualResult, ManualMarks, Lose, CopyTrades,
      WriteTrades, Reload, Die, Reserve, Asks, ManualSends, Sends, MarkClosed

\* Nothing is asked or shown of a decision whose day has passed.
DayOver(x) == when'[x] # "before" => ask'[x] = Nothing /\ dialog'[x] = {}

LEMMA DayStep ==
    ASSUME Inv, [Next]_vars
    PROVE  \A x \in Decisions : DayOver(x)
<1>0. /\ ask \in [Decisions -> SUBSET (Decisions \cup {None})]
      /\ dialog \in [Decisions -> SUBSET (1..MaxPrepares)]
      /\ when \in [Decisions -> {"before", "window", "late", "expired", "overdue"}]
      /\ \A x \in Decisions : when[x] # "before" => ask[x] = Nothing /\ dialog[x] = {}
  BY DEF Inv, Typed, AcceptanceType, PositionType, Local, AcceptedTrue
<1>1. ASSUME NEW d \in Decisions, AskPrepare(d)
      PROVE  \A x \in Decisions : DayOver(x)
  BY <1>1, <1>0 DEF DayOver, AskPrepare, Nothing, position, close
<1>2. ASSUME NEW d \in Decisions, Prepare(d)
      PROVE  \A x \in Decisions : DayOver(x)
  <2>1. PICK shown : dialog' = [dialog EXCEPT ![d] = shown]
    BY <1>2, <1>0 DEF Prepare, Reserve
  <2>2. when' = when /\ ask' = [ask EXCEPT ![d] = Nothing] /\ ask[d] # Nothing
    BY <1>2 DEF Prepare, position
  <2>3. QED
    BY <1>0, <2>1, <2>2 DEF DayOver
<1>3. ASSUME NEW d \in Decisions, NEW r \in dialog[d], Cancel(d, r)
      PROVE  \A x \in Decisions : DayOver(x)
  BY <1>3, <1>0 DEF DayOver, Cancel, position, close
<1>4. ASSUME NEW d \in Decisions, PassTime(d)
      PROVE  \A x \in Decisions : DayOver(x)
  <2>1. /\ ask' = ask /\ ask[d] = Nothing /\ dialog' = [dialog EXCEPT ![d] = {}]
        /\ \A x \in Decisions \ {d} : when'[x] = when[x]
    BY <1>4, <1>0 DEF PassTime
  <2>2. QED
    BY <1>0, <2>1 DEF DayOver
<1>5. CASE Reload
  BY <1>5, <1>0 DEF DayOver, Reload, position
<1>6. CASE Die
  BY <1>6, <1>0 DEF DayOver, Die, Nothing
<1>7. CASE UNCHANGED <<when, ask, dialog>>
  BY <1>7, <1>0 DEF DayOver
<1>8. CASE UNCHANGED <<acceptance, when>>
  BY <1>8, <1>7 DEF acceptance
<1>9. CASE UNCHANGED <<position, ask, dialog>>
  BY <1>9, <1>7 DEF position
<1>10. CASE UNCHANGED <<acceptance, position>>
  BY <1>10, <1>7 DEF acceptance, position
<1>11. QED
  BY <1>1, <1>2, <1>3, <1>4, <1>5, <1>6, <1>7, <1>8, <1>9, <1>10, ZenonT(60) DEF Next,
      Settling, Steps, vars, Lapse, Confirm, TickReads, PutEconomics, Freeze, Record,
      UserCloses, UserNotes, Insert, MarkPersisted, Install, Reconcile, Uninstall,
      RuleBTakes, RuleBJournals, RuleBReads, RuleBAcks, RuleBMarks, ManualJournals,
      Resume, Abandon, ManualReads, ManualResult, ManualMarks, Arrives, Lose,
      CopyTrades, WriteTrades, Asks, ManualSends, Sends, MarkClosed

LEMMA DayStays ==
    ASSUME Inv, [Next]_vars
    PROVE  \A x \in Decisions : when[x] # "before" => when'[x] # "before"
<1>1. ASSUME NEW d \in Decisions, PassTime(d)
      PROVE  \A x \in Decisions : when[x] # "before" => when'[x] # "before"
  <2>1. PICK i \in 1 .. 4 : when' = [when EXCEPT ![d] = Times[i + 1]]
    BY <1>1 DEF PassTime
  <2>2. i = 1 \/ i = 2 \/ i = 3 \/ i = 4
    OBVIOUS
  <2>3. Times[i + 1] # "before"
    BY <2>2 DEF Times
  <2>4. QED
    BY <2>1, <2>3 DEF Inv, Typed, PositionType
<1>2. CASE UNCHANGED when
  BY <1>2
<1>3. CASE UNCHANGED position
  BY <1>3, <1>2 DEF position
<1>4. QED
  BY <1>1, <1>2, <1>3, ZenonT(60) DEF Next, Settling, Steps, vars, AskPrepare,
      Prepare, Lapse, Confirm, Cancel, TickReads, PutEconomics, Freeze, Record,
      UserCloses, UserNotes, Insert, MarkPersisted, Install, Reconcile, Uninstall,
      RuleBTakes, RuleBJournals, RuleBReads, RuleBAcks, RuleBMarks, ManualJournals,
      Resume, Abandon, ManualReads, ManualResult, ManualMarks, Arrives, Lose,
      CopyTrades, WriteTrades, Reload, Die, Reserve, Asks, ManualSends, Sends,
      MarkClosed

LEMMA AcceptedStep ==
    ASSUME Inv, [Next]_vars, NEW x \in Decisions
    PROVE  AcceptedTrue(x)'
<1>1. AcceptedTrue(x)
  BY LocalIs DEF Local
<1>2. Accept(x) /\ RowStays(x) /\ DayOver(x)
  BY AcceptMoves, RowStands, DayStep
<1>3. row'[x].state # "none" => row[x].state # "none" \/ acc[x].state = "COMMITTED"
  BY RowAppears
<1>4. QED
  BY <1>1, <1>2, <1>3 DEF AcceptedTrue, Accept, RowStays, DayOver, Taken

-----------------------------------------------------------------------------
(***************************************************************************)
(* The frozen outcome.                                                     *)
(***************************************************************************)
LEMMA OutcomeStays ==
    ASSUME Inv, [Next]_vars, NEW x \in Decisions, outcome'[x] = outcome[x]
    PROVE  OutcomeIs(x)'
<1>1. OutcomeIs(x) /\ AcceptedTrue(x) /\ Follows(led[x], led'[x]) /\ RowStays(x) /\ Accept(x)
  BY LocalIs, LedgerKeeps, RowStands, AcceptMoves DEF Local
<1>2. row[x].by # None => row'[x].by = row[x].by
  BY <1>1 DEF RowStays
<1>3. led[x].fill # None => led'[x].fill = led[x].fill
  BY <1>1 DEF Follows, Stands
<1>4. led[x].state = "UNRESOLVED" => led'[x].state = "UNRESOLVED"
  BY <1>1 DEF Follows, Exited
<1>5. acc[x].state \notin Taken /\ when[x] # "before" =>
          acc'[x].state \notin Taken /\ when'[x] # "before"
  BY <1>1, DayStays DEF Accept, AcceptedTrue
<1>6. /\ outcome'[x] = "MANUAL_EARLY_CLOSE" => row'[x].by = "manual"
      /\ outcome'[x] = "UNRESOLVED" => led'[x].state = "UNRESOLVED"
      /\ outcome'[x] = "NEVER_ACCEPTED" => acc'[x].state \notin Taken /\ when'[x] # "before"
  BY <1>1, <1>2, <1>4, <1>5, ConstantsAre DEF OutcomeIs
<1>7. outcome'[x] \in {"PLANNED_EXIT", "LATE_EXIT"} =>
          row'[x].by = "ruleB" /\ led'[x].fill = outcome'[x]
  BY <1>1, <1>2, <1>3, ConstantsAre DEF OutcomeIs
<1>8. QED
  BY <1>6, <1>7 DEF OutcomeIs

\* What the readers of acceptances, ledger and row may freeze as final.
LEMMA FinalIs ==
    ASSUME Inv, NEW d \in Decisions, NEW seen \in {FALSE, (row[d].state = "CLOSED")},
           AcceptedOutcome(d, seen).final
    PROVE  LET status == AcceptedOutcome(d, seen).status
           IN /\ status \in {"MANUAL_EARLY_CLOSE", "PLANNED_EXIT", "LATE_EXIT",
                             "NEVER_ACCEPTED", "UNRESOLVED"}
              /\ status = "MANUAL_EARLY_CLOSE" => row[d].by = "manual"
              /\ status \in {"PLANNED_EXIT", "LATE_EXIT"} =>
                    row[d].by = "ruleB" /\ led[d].fill = status
              /\ status = "NEVER_ACCEPTED" => acc[d].state \notin Taken
              /\ status = "UNRESOLVED" => led[d].state = "UNRESOLVED"
<1>1. /\ ManualWon(led[d]) => row[d].by = "manual"
      /\ Confirmed(led[d]) => row[d].by = "ruleB"
  BY LocalIs DEF Local, ClaimsTrue
<1>2. led[d].fill \in Fills /\ (led[d].state = "EXIT_FILLED" <=> led[d].fill # None)
  BY LocalIs DEF GoodEntry, Entry, EntryShape
<1>3. CASE acc[d].state \notin Taken
  BY <1>3 DEF AcceptedOutcome
<1>4. CASE acc[d].state \in Taken /\ ManualWon(led[d])
  BY <1>1, <1>4 DEF AcceptedOutcome
<1>5. CASE acc[d].state \in Taken /\ ~ManualWon(led[d]) /\ led[d].state \in Terminal
  <2>1. led[d].delivery = "REMOTE_CONFIRMED"
    BY <1>5 DEF AcceptedOutcome
  <2>2. AcceptedOutcome(d, seen).status =
            IF led[d].state = "EXIT_FILLED" THEN led[d].fill ELSE "UNRESOLVED"
    BY <1>5 DEF AcceptedOutcome
  <2>3. CASE led[d].state = "EXIT_FILLED"
    BY <1>1, <1>2, <2>1, <2>2, <2>3 DEF Confirmed, Fills
  <2>4. CASE led[d].state # "EXIT_FILLED"
    <3>1. led[d].state = "UNRESOLVED"
      BY <1>5, <2>1, <2>4 DEF ManualWon, Terminal
    <3>2. QED
      BY <2>2, <2>4, <3>1
  <2>5. QED
    BY <2>3, <2>4
<1>6. CASE acc[d].state \in Taken /\ ~ManualWon(led[d]) /\ led[d].state \notin Terminal
  BY <1>6 DEF AcceptedOutcome
<1>7. QED
  BY <1>3, <1>4, <1>5, <1>6

LEMMA OutcomeStep ==
    ASSUME Inv, [Next]_vars
    PROVE  \A x \in Decisions : OutcomeIs(x)'
<1>1. ASSUME NEW d \in Decisions, Freeze(d)
      PROVE  \A x \in Decisions : OutcomeIs(x)'
  <2>1. /\ when[d] \in {"expired", "overdue"} /\ led' = led /\ acc' = acc
        /\ row' = row /\ when' = when
    BY <1>1 DEF Freeze, acceptance, position, close
  <2>2. PICK seen \in {FALSE, (row[d].state = "CLOSED")} :
           outcome' = [outcome EXCEPT ![d] = IF AcceptedOutcome(d, seen).final
                                             THEN AcceptedOutcome(d, seen).status ELSE "UNKNOWN"]
    BY <1>1 DEF Freeze
  <2>3. /\ \A x \in Decisions \ {d} : outcome'[x] = outcome[x]
        /\ outcome'[d] = IF AcceptedOutcome(d, seen).final
                         THEN AcceptedOutcome(d, seen).status ELSE "UNKNOWN"
    BY <2>2 DEF Inv, Typed, CountType
  <2>4. OutcomeIs(d)'
    <3>1. CASE AcceptedOutcome(d, seen).final
      BY <2>1, <2>3, <3>1, FinalIs DEF OutcomeIs
    <3>2. CASE ~AcceptedOutcome(d, seen).final
      BY <2>3, <3>2 DEF OutcomeIs
    <3>3. QED
      BY <3>1, <3>2
  <2>5. QED
    BY <2>3, <2>4, OutcomeStays
<1>2. CASE UNCHANGED outcome
  BY <1>2, OutcomeStays
<1>3. QED
  BY <1>1, <1>2, ZenonT(60) DEF Next, Settling, Steps, vars, AskPrepare, Prepare,
      Lapse, Confirm, Cancel, PassTime, TickReads, PutEconomics, Record, UserCloses,
      UserNotes, Insert, MarkPersisted, Install, Reconcile, Uninstall, RuleBTakes,
      RuleBJournals, RuleBReads, RuleBAcks, RuleBMarks, ManualJournals, Resume,
      Abandon, ManualReads, ManualResult, ManualMarks, Arrives, Lose, CopyTrades,
      WriteTrades, Reload, Die, Reserve, Asks, ManualSends, Sends, MarkClosed

-----------------------------------------------------------------------------
(***************************************************************************)
(* The limit.  A reservation counts until another prepare drops it.        *)
(***************************************************************************)
LEMMA HeldIs ==
    ASSUME Inv
    PROVE  IsFiniteSet(Held) /\ Held \subseteq Decisions
<1>1. Held \subseteq Decisions
  BY DEF Held
<1>2. QED
  BY <1>1, ConstantsAre, FS_Subset

LEMMA HeldShrinks ==
    ASSUME Inv, Held' \subseteq Held
    PROVE  HeldFit'
<1>1. Cardinality(Held') <= Cardinality(Held) /\ Cardinality(Held') \in Nat
  BY HeldIs, FS_Subset, FS_CardinalityType
<1>2. Cardinality(Held) \in Nat
  BY HeldIs, FS_CardinalityType
<1>3. Cardinality(Held') <= MaxOpen
  BY <1>1, <1>2, ConstantsAre DEF Inv, HeldFit
<1>4. QED
  BY <1>3 DEF Inv, HeldFit

LEMMA HeldBecomes ==
    ASSUME Inv, NEW d \in Decisions, NEW state, acc' = [acc EXCEPT ![d].state = state],
           acc[d].state \in {"RESERVED", "COMMITTED", "PERSISTED"} \/ state \in {"none", "CLOSED"}
    PROVE  HeldFit'
<1>1. ASSUME NEW a \in [state : {"none", "RESERVED"} \cup Taken, rid : 0..MaxPrepares]
      PROVE  [a EXCEPT !.state = state].state = state
  OBVIOUS
<1>2. acc \in [Decisions -> [state : {"none", "RESERVED"} \cup Taken, rid : 0..MaxPrepares]]
  BY DEF Inv, Typed, AcceptanceType, RecordsType
<1>3. acc'[d].state = state /\ \A x \in Decisions \ {d} : acc'[x] = acc[x]
  BY <1>1, <1>2
<1>4. Held' \subseteq Held
  BY <1>3 DEF Held
<1>5. QED
  BY <1>4, HeldShrinks

LEMMA HeldSame ==
    ASSUME Inv, acc' = acc
    PROVE  HeldFit'
<1>1. Held' = Held
  BY DEF Held
<1>2. QED
  BY <1>1, HeldShrinks

LEMMA HeldMark ==
    ASSUME Inv, NEW d \in Decisions, MarkClosed(d)
    PROVE  HeldFit'
<1>1. CASE acc[d].state \in Taken
  BY <1>1, HeldBecomes DEF MarkClosed
<1>2. CASE acc[d].state \notin Taken
  BY <1>2, HeldSame DEF MarkClosed
<1>3. QED
  BY <1>1, <1>2

\* A new reservation joins positions it was compared with.
LEMMA ReserveFits ==
    ASSUME Inv, NEW d \in Decisions, Reserve(d)
    PROVE  HeldFit'
<1> DEFINE live == LivePositions(d, ask[d])
<1>1. /\ \A x \in live : StructureOf[x] # StructureOf[d]
      /\ Cardinality(live) < MaxOpen
  BY DEF Reserve
<1>2. live \subseteq Decisions
  BY DEF LivePositions
<1>3. acc \in [Decisions -> [state : {"none", "RESERVED"} \cup Taken, rid : 0..MaxPrepares]]
  BY DEF Inv, Typed, AcceptanceType, RecordsType
<1>4. ASSUME NEW x \in Decisions, x # d, acc'[x].state \in {"RESERVED", "COMMITTED", "PERSISTED"}
      PROVE  x \in live /\ x \in Held
  <2>1. CASE acc[x].state = "RESERVED" /\ x \in lapsed
    <3>1. acc'[x] = [acc[x] EXCEPT !.state = "none"]
      BY <1>4, <2>1 DEF Reserve
    <3>2. acc'[x].state = "none"
      BY <1>3, <3>1
    <3>3. QED
      BY <1>4, <3>2
  <2>2. CASE ~(acc[x].state = "RESERVED" /\ x \in lapsed)
    <3>1. acc'[x] = acc[x]
      BY <1>4, <2>2 DEF Reserve
    <3>2. QED
      BY <1>4, <2>2, <3>1 DEF LivePositions, Held
  <2>3. QED
    BY <2>1, <2>2
<1>5. Held' \subseteq live \cup {d} /\ \A x \in Held' : x = d \/ (x \in Held /\ x \in live)
  BY <1>4 DEF Held
<1> HIDE DEF live
<1>6. IsFiniteSet(live) /\ Cardinality(live) \in Nat
  BY <1>2, ConstantsAre, FS_Subset, FS_CardinalityType
<1>7. /\ IsFiniteSet(live \cup {d}) /\ Cardinality(live \cup {d}) \in Nat
      /\ Cardinality(live \cup {d}) <= Cardinality(live) + 1
  BY <1>6, FS_AddElement, FS_CardinalityType
<1>8. Cardinality(Held') <= Cardinality(live \cup {d}) /\ Cardinality(Held') \in Nat
  BY <1>5, <1>7, FS_Subset, FS_CardinalityType
<1>9. Cardinality(Held') <= MaxOpen
  BY <1>1, <1>6, <1>7, <1>8, ConstantsAre
<1>10. \A x, y \in Held' : StructureOf[x] = StructureOf[y] => x = y
  BY <1>1, <1>5 DEF Inv, HeldFit
<1>11. QED
  BY <1>9, <1>10 DEF HeldFit

LEMMA HeldStep ==
    ASSUME Inv, [Next]_vars
    PROVE  HeldFit'
<1>1. ASSUME NEW d \in Decisions, Prepare(d)
      PROVE  HeldFit'
  BY <1>1, HeldSame, ReserveFits DEF Prepare
<1>2. ASSUME NEW d \in Decisions, NEW r \in dialog[d], Confirm(d, r)
      PROVE  HeldFit'
  <2>1. PICK state : acc' = [acc EXCEPT ![d].state = state]
    BY <1>2 DEF Confirm
  <2>2. acc[d].state = "RESERVED"
    BY <1>2 DEF Confirm
  <2>3. QED
    BY <2>1, <2>2, HeldBecomes
<1>3. ASSUME NEW d \in Decisions, NEW r \in dialog[d], Cancel(d, r)
      PROVE  HeldFit'
  BY <1>3, HeldSame, HeldBecomes DEF Cancel
<1>4. ASSUME NEW d \in Decisions, MarkPersisted(d)
      PROVE  HeldFit'
  BY <1>4, HeldBecomes DEF MarkPersisted
<1>5. ASSUME NEW d \in Decisions, Reconcile(d)
      PROVE  HeldFit'
  BY <1>5, HeldMark DEF Reconcile
<1>6. ASSUME NEW d \in Decisions, RuleBMarks(d)
      PROVE  HeldFit'
  BY <1>6, HeldMark DEF RuleBMarks
<1>7. ASSUME NEW d \in Decisions, ManualMarks(d)
      PROVE  HeldFit'
  BY <1>7, HeldMark DEF ManualMarks
<1>8. CASE UNCHANGED acc
  BY <1>8, HeldSame
<1>9. CASE UNCHANGED acceptance
  BY <1>9, <1>8 DEF acceptance
<1>10. QED
  BY <1>1, <1>2, <1>3, <1>4, <1>5, <1>6, <1>7, <1>8, <1>9, ZenonT(60) DEF Next,
      Settling, Steps, vars, AskPrepare, Lapse, PassTime, TickReads, PutEconomics,
      Freeze, Record, UserCloses, UserNotes, Insert, Install, Uninstall, RuleBTakes,
      RuleBJournals, RuleBReads, RuleBAcks, ManualJournals, Resume, Abandon,
      ManualReads, ManualResult, Arrives, Lose, CopyTrades, WriteTrades, Reload, Die,
      Asks, ManualSends, Sends

-----------------------------------------------------------------------------
(***************************************************************************)
(* The invariant holds in every state, and what follows from it.           *)
(***************************************************************************)
LEMMA InvInit ==
    ASSUME Init
    PROVE  Inv
<1>1. AcceptanceType /\ PositionType /\ CountType
  <2>1. RecordsType
    <3>1. [state |-> "none", rid |-> 0] \in [state : {"none", "RESERVED"} \cup Taken, rid : 0..MaxPrepares]
      BY ConstantsAre
    <3>2. acc = [d \in Decisions |-> [state |-> "none", rid |-> 0]]
      BY DEF Init
    <3>3. QED
      BY <3>1, <3>2 DEF RecordsType
  <2>2. AcceptanceType
    BY <2>1 DEF Init, AcceptanceType, Nothing
  <2>3. PositionType
    BY DEF Init, PositionType
  <2>4. CountType
    BY ConstantsAre DEF Init, CountType
  <2>5. QED
    BY <2>2, <2>3, <2>4
<1>2. LedgerType
  <2>1. led = [d \in Decisions |-> NoEntry] /\ tick = Nothing
    BY DEF Init
  <2>2. NoEntry \in Entry /\ EntryShape(NoEntry)
    BY NoEntryIs DEF GoodEntry
  <2>3. QED
    BY <2>1, <2>2 DEF LedgerType
<1>3. CloseType
  <2>1. /\ ruleB = [d \in Decisions |-> Idle] /\ manual = [d \in Decisions |-> Idle]
        /\ flight = {}
    BY DEF Init
  <2>2. QED
    BY <2>1 DEF CloseType, Idle
<1>4. ASSUME NEW d \in Decisions
      PROVE  Local(d)
  <2>1. /\ acc[d].state = "none" /\ row[d].state = "none" /\ row[d].by = None
        /\ when[d] = "before" /\ outcome[d] = None /\ flight = {}
        /\ led[d] = NoEntry /\ ruleB[d].at = "idle" /\ manual[d].at = "idle"
    BY DEF Init, Idle
  <2>2. ~Watched(d)
    <3>1. open = {} /\ copy = Nothing /\ tick = Nothing
      BY DEF Init
    <3>2. \A s \in Steps : <<d, s>> # None
      BY ConstantsAre
    <3>3. \A s \in Steps : tick # {<<d, s>>}
      BY <3>1, <3>2 DEF Nothing
    <3>4. led[d].state = "OPEN" /\ d \notin open /\ d \notin copy
      BY <2>1, <3>1, ConstantsAre DEF NoEntry, Nothing
    <3>5. QED
      BY <3>3, <3>4 DEF Watched
  <2>3. AcceptedTrue(d) /\ RowTrue(d) /\ SentTrue(d)
    BY <2>1, <2>2, ConstantsAre DEF AcceptedTrue, RowTrue, SentTrue
  <2>4. ClaimsTrue(d)
    BY <2>1 DEF ClaimsTrue, ManualWon, Confirmed, NoEntry
  <2>5. RuleBTrue(d) /\ ManualTrue(d) /\ OutcomeIs(d)
    BY <2>1, ConstantsAre DEF RuleBTrue, ManualTrue, OutcomeIs
  <2>6. QED
    BY <2>3, <2>4, <2>5 DEF Local
<1>5. HeldFit
  <2>1. Held = {}
    BY DEF Init, Held
  <2>2. QED
    BY <2>1, FS_EmptySet, ConstantsAre DEF HeldFit
<1>6. QED
  BY <1>1, <1>2, <1>3, <1>4, <1>5 DEF Inv, Typed

LEMMA InvAlways == Spec => []Inv
<1>1. ASSUME Inv, [Next]_vars
      PROVE  Inv'
  <2>1. Typed'
    BY <1>1, AcceptanceStep, PositionStep, LedgerStep, CloseStep, CountStep DEF Typed
  <2>2. ASSUME NEW d \in Decisions
        PROVE  Local(d)'
    BY <1>1, AcceptedStep, RowTrueStep, SentStep, ClaimsStep, RuleBStep, ManualStep, OutcomeStep
       DEF Local
  <2>3. QED
    BY <1>1, <2>1, <2>2, HeldStep DEF Inv
<1>2. QED
  BY <1>1, InvInit, PTL DEF Spec

\* Every variable keeps its type: the documents of the acceptances and of the
\* ledger, the rows, the two deliveries and the updates under way.
THEOREM TypeCorrect == Spec => []TypeOK
<1>1. ASSUME Inv
      PROVE  TypeOK
  <2>1. AcceptanceType /\ PositionType /\ LedgerType /\ CloseType /\ CountType
    BY <1>1 DEF Inv, Typed
  <2>2. when \in [Decisions -> {Times[i] : i \in 1 .. 5}]
    <3>1. /\ Times[1] = "before" /\ Times[2] = "window" /\ Times[3] = "late"
          /\ Times[4] = "expired" /\ Times[5] = "overdue"
      BY DEF Times
    <3>2. {"before", "window", "late", "expired", "overdue"} \subseteq {Times[i] : i \in 1 .. 5}
      BY <3>1
    <3>3. QED
      BY <2>1, <3>2 DEF PositionType
  <2>3. led \in [Decisions -> Entry] /\ \A d \in Decisions : led[d].state = "EXIT_FILLED" <=> led[d].fill # None
    BY <2>1 DEF LedgerType, EntryShape
  <2>4. /\ tick \subseteq Decisions \X {"PLANNED_EXIT", "LATE_EXIT", "MARK_LATE",
                                       "MARK_UNRESOLVED", "economics"} \cup {None}
        /\ \E t : tick = {t}
    <3>1. CASE tick = {None}
      BY <3>1
    <3>2. ASSUME NEW d \in Decisions, NEW step \in Steps, tick = {<<d, step>>}
          PROVE  tick \subseteq Decisions \X Steps /\ \E t : tick = {t}
      BY <3>2
    <3>3. QED
      BY <2>1, <3>1, <3>2 DEF LedgerType, Nothing, Steps
  <2>5. Cardinality(tick) = 1
    BY <2>4, FS_Singleton
  <2>6. copy \subseteq Decisions \cup {None}
    BY <2>1 DEF PositionType, Nothing
  <2>7. \A d \in Decisions : ruleB[d].patch \in Patches \cup {None}
                             /\ manual[d].patch \in ManualPatches \cup {None}
    BY <2>1, ConstantsAre DEF CloseType
  <2>8. QED
    BY <2>1, <2>2, <2>3, <2>4, <2>5, <2>6, <2>7
       DEF TypeOK, AcceptanceType, RecordsType, PositionType, CloseType, CountType, Entry, States,
           Deliveries, Fills
<1>2. QED
  BY <1>1, InvAlways, PTL

\* However reservations, confirmations, stale copies of open_trades and restarts
\* interleave, prepare keeps the positions, taken or on the server, within the
\* limit, and no two of them of one structure and expiry.
THEOREM LimitKept == Spec => []LimitHolds
<1>1. ASSUME Inv
      PROVE  LimitHolds
  <2>1. ASSUME NEW d \in Positions
        PROVE  d \in Held
    <3>1. d \in Decisions /\ AcceptedTrue(d)
      BY <1>1, LocalIs DEF Positions, Local
    <3>2. QED
      BY <3>1 DEF Positions, Held, AcceptedTrue, Taken
  <2>2. Positions \subseteq Held
    BY <2>1
  <2>3. Cardinality(Positions) <= Cardinality(Held) /\ Cardinality(Positions) \in Nat
        /\ Cardinality(Held) \in Nat
    BY <1>1, <2>2, HeldIs, FS_Subset, FS_CardinalityType
  <2>4. Cardinality(Positions) <= MaxOpen
    BY <1>1, <2>3, ConstantsAre DEF Inv, HeldFit
  <2>5. QED
    BY <1>1, <2>2, <2>4 DEF Inv, HeldFit, LimitHolds
<1>2. QED
  BY <1>1, InvAlways, PTL

\* Whatever reached the server or is on its way to it is the patch the ledger
\* keeps for its writer, which a restart would send again and a readback compares.
THEOREM RowIsJournaled == Spec => []JournalTellsRow
<1>1. ASSUME Inv
      PROVE  JournalTellsRow
  <2>1. ASSUME NEW d \in Decisions
        PROVE  SentTrue(d)
    BY <1>1, LocalIs DEF Local
  <2>2. QED
    BY <2>1 DEF JournalTellsRow, SentTrue
<1>2. QED
  BY <1>1, InvAlways, PTL

\* Neither the acceptances nor the Rule B ledger name a close, or its writer,
\* that the row does not have.
THEOREM ClaimsHold == Spec => []ClaimsProven
<1>1. ASSUME Inv
      PROVE  ClaimsProven
  <2>1. ASSUME NEW d \in Decisions
        PROVE  AcceptedTrue(d) /\ ClaimsTrue(d)
    BY <1>1, LocalIs DEF Local
  <2>2. QED
    BY <2>1 DEF ClaimsProven, AcceptedTrue, ClaimsTrue, Confirmed
<1>2. QED
  BY <1>1, InvAlways, PTL

\* The outcome step_trackers freezes as final is what became of the position,
\* whatever the row and the ledger go through afterwards.
THEOREM OutcomesTrue == Spec => []OutcomeTrue
<1>1. ASSUME Inv
      PROVE  OutcomeTrue
  <2>1. ASSUME NEW d \in Decisions
        PROVE  /\ OutcomeIs(d) /\ AcceptedTrue(d) /\ RowTrue(d) /\ SentTrue(d) /\ GoodEntry(led[d])
    BY <1>1, LocalIs DEF Local
  <2>2. ASSUME NEW d \in Decisions, outcome[d] = "UNRESOLVED"
        PROVE  row[d].by # "ruleB"
    <3>1. led[d].state = "UNRESOLVED"
      BY <2>1, <2>2 DEF OutcomeIs
    <3>2. led[d].journal \in {None, "unresolved"}
      BY <2>1, <3>1 DEF GoodEntry, EntryShape
    <3>3. row[d].by # None => row[d].patch \notin {None, "unresolved"}
      BY <2>1 DEF RowTrue
    <3>4. QED
      BY <2>1, <3>2, <3>3, ConstantsAre DEF SentTrue
  <2>3. ASSUME NEW d \in Decisions, outcome[d] = "NEVER_ACCEPTED"
        PROVE  row[d].state = "none"
    BY <2>1, <2>3 DEF OutcomeIs, AcceptedTrue
  <2>4. QED
    BY <2>1, <2>2, <2>3 DEF OutcomeTrue, OutcomeIs
<1>2. QED
  BY <1>1, InvAlways, PTL

\* No call of the service or of the PWA takes back a frozen exit, a journaled
\* patch or a proven winner, nor the position from a close by hand that has its
\* patch.
THEOREM ClosesStand == Spec => CloseStands
<1>1. ASSUME Inv, [Next]_vars
      PROVE  [\A d \in Decisions :
                 /\ led[d].fill # None => led'[d].fill = led[d].fill
                 /\ led[d].journal # None => led'[d].journal = led[d].journal
                 /\ led[d].manual # None => led'[d].manual = led[d].manual
                 /\ led[d].state = "MANUAL_CLOSED" /\ led[d].manual # None =>
                       led'[d].state = "MANUAL_CLOSED"
                 /\ ManualWon(led[d]) => ManualWon(led'[d])]_vars
  BY <1>1, LedgerKeeps DEF Follows, Stands
<1>2. QED
  BY <1>1, InvAlways, PTL DEF Spec, CloseStands

=============================================================================
