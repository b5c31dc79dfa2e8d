-------------------------- MODULE SingleLegStoreProofs --------------------------
(***************************************************************************)
(* Proofs about the single-leg store, for any number of taps, indices,     *)
(* proposals and sessions, and whatever the limits of the document are:    *)
(* every variable keeps its type, one managed position per index, and a    *)
(* decided exit is final, without any other assumption; positions, entries *)
(* and accounts agree while the positions fit among the tombstones         *)
(* (TombstonesFit); answers stay true and verdicts stand while no outcome  *)
(* is dropped (NothingPruned).                                             *)
(***************************************************************************)
EXTENDS SingleLegStore, FiniteSetTheorems, TLAPS

\* More time for a leaf than by default, for slow or busy machines.
USE SMTT(30), ZenonT(30)

-----------------------------------------------------------------------------
(***************************************************************************)
(* What the limits leave of a document.                                    *)
(***************************************************************************)
LEMMA EmptyDocType ==
    EmptyDoc \in Documents
  BY DEF EmptyDoc, Documents, Keys

LEMMA CompactIs ==
    ASSUME NEW p \in Positions
    PROVE  /\ Compact(p) \in Positions
           /\ Compact(p).key = p.key /\ Compact(p).day = p.day
           /\ Compact(p).status = p.status
           /\ Compact(p).request = None /\ Compact(p).reason = None
           /\ Compact(Compact(p)) = Compact(p)
  BY DEF Compact, Positions

LEMMA PrunedIs ==
    ASSUME NEW f \in [Requests -> Outcomes \cup {None}], NEW h \in Pruned(f)
    PROVE  /\ h \in [Requests -> Outcomes \cup {None}]
           /\ \A q \in Requests : h[q] \in {f[q], None}
<1> DEFINE g(k) == [q \in Requests |-> IF q \in k THEN f[q] ELSE None]
<1>1. h = f \/ \E k \in SUBSET Requests : h = g(k)
  BY DEF Pruned
<1>2. ASSUME NEW k \in SUBSET Requests
      PROVE  /\ g(k) \in [Requests -> Outcomes \cup {None}]
             /\ \A q \in Requests : g(k)[q] \in {f[q], None}
  OBVIOUS
<1> HIDE DEF g
<1>3. QED
  BY <1>1, <1>2

\* Positions, entries and accounts of d are cut to those of w: a closed position
\* may be compacted or gone, an entry or an account may be gone.
Distinct(d) == \A p, q \in d.positions : p.key = q.key => p = q

Cut(d, w) ==
    /\ \A q \in w.positions : \E p \in d.positions :
          q = p \/ (p.status = "CLOSED" /\ q = Compact(p))
    /\ Distinct(w)
    /\ Live(d) \subseteq w.positions
    /\ w.history \subseteq d.history /\ w.closed \subseteq d.closed

\* No position is gone.
SameKeys(d, w) ==
    \A p \in d.positions : \E q \in w.positions : q.key = p.key /\ q.day = p.day

LEMMA CutFrom ==
    ASSUME NEW d \in Documents, NEW w, Cut(d, w), NEW q \in w.positions
    PROVE  \E p \in d.positions :
            /\ p \in Positions
            /\ q.key = p.key /\ q.day = p.day /\ q.status = p.status
            /\ \/ q = p
               \/ p.status = "CLOSED" /\ q = Compact(p) /\ q.reason = None
<1>1. PICK p \in d.positions : q = p \/ (p.status = "CLOSED" /\ q = Compact(p))
  BY DEF Cut
<1>2. p \in Positions
  BY DEF Documents
<1>3. QED
  BY <1>1, <1>2, CompactIs

LEMMA CutTransitive ==
    ASSUME NEW d \in Documents, NEW e, NEW w, Cut(d, e), Cut(e, w)
    PROVE  Cut(d, w)
<1>1. ASSUME NEW q \in w.positions
      PROVE  \E p \in d.positions : q = p \/ (p.status = "CLOSED" /\ q = Compact(p))
  <2>1. PICK s \in e.positions : q = s \/ (s.status = "CLOSED" /\ q = Compact(s))
    BY <1>1 DEF Cut
  <2>2. PICK p \in d.positions : s = p \/ (p.status = "CLOSED" /\ s = Compact(p))
    BY DEF Cut
  <2>3. p \in Positions
    BY DEF Documents
  <2>4. QED
    BY <2>1, <2>2, <2>3, CompactIs
<1>2. Live(d) \subseteq Live(e)
  BY DEF Cut, Live
<1>3. QED
  BY <1>1, <1>2 DEF Cut

LEMMA KeepingIs ==
    ASSUME NEW d \in Documents, Distinct(d), NEW full \in SUBSET Full(d),
           NEW w, w = Keeping(d, full)
    PROVE  /\ w \in Documents /\ Cut(d, w) /\ SameKeys(d, w)
           /\ w.history = d.history /\ w.closed = d.closed /\ w.requests = d.requests
<1> DEFINE gone == Full(d) \ full
           left == (d.positions \ Full(d)) \cup full \cup {Compact(p) : p \in gone}
<1>1. /\ d.positions \subseteq Positions
      /\ \A p \in Full(d) : p \in d.positions /\ p.status = "CLOSED"
  BY DEF Documents, Full, Closed, Live
<1>2. \A p \in gone : p \in d.positions /\ p \in Positions /\ p.status = "CLOSED"
                      /\ Compact(p) \in Positions /\ Compact(p).key = p.key
                      /\ Compact(p).day = p.day
  BY <1>1, CompactIs
<1>3. w = [d EXCEPT !.positions = left]
  BY DEF Keeping
<1>4. \A q \in left : (q \in d.positions /\ q \notin gone) \/ \E p \in gone : q = Compact(p)
  BY <1>1
<1>5. \A p \in d.positions : p \notin gone => p \in left
  OBVIOUS
<1>6. \A p \in gone : Compact(p) \in left
  OBVIOUS
<1>6a. Live(d) \cap gone = {}
  BY <1>2 DEF Live
<1>6b. Live(d) \subseteq d.positions
  BY DEF Live
<1> HIDE DEF left, gone
<1>7. left \subseteq Positions
  BY <1>1, <1>2, <1>4
<1>8. /\ w \in Documents /\ w.positions = left
      /\ w.history = d.history /\ w.closed = d.closed /\ w.requests = d.requests
  BY <1>3, <1>7 DEF Documents
<1>9. Distinct(w)
  <2> SUFFICES ASSUME NEW p \in left, NEW q \in left, p.key = q.key
               PROVE  p = q
    BY <1>8 DEF Distinct
  <2>1. \E s \in d.positions :
          s.key = p.key /\ ((p = s /\ s \notin gone) \/ (s \in gone /\ p = Compact(s)))
    BY <1>2, <1>4
  <2>2. \E s \in d.positions :
          s.key = q.key /\ ((q = s /\ s \notin gone) \/ (s \in gone /\ q = Compact(s)))
    BY <1>2, <1>4
  <2>3. QED
    BY <2>1, <2>2 DEF Distinct
<1>10. SameKeys(d, w)
  BY <1>2, <1>5, <1>6, <1>8 DEF SameKeys
<1>11. Cut(d, w)
  BY <1>2, <1>4, <1>5, <1>6a, <1>6b, <1>8, <1>9 DEF Cut
<1>12. QED
  BY <1>8, <1>10, <1>11

LEMMA NewestIs ==
    ASSUME NEW S, NEW n, NEW T \in Newest(S, n)
    PROVE  T \subseteq S /\ (Cardinality(S) <= n => T = S)
  BY DEF Newest, Suffixes

LEMMA RetainedIs ==
    ASSUME NEW d \in Documents, Distinct(d), NEW w \in Retained(d)
    PROVE  /\ w \in Documents /\ Cut(d, w)
           /\ w.requests \in Pruned(d.requests)
           /\ Cardinality({t \in Tombstones(d) : t.day \in Recent(d)}) <= MaxTombstones =>
                \A p \in d.positions : p.day \in Recent(d) => p \in w.positions
<1> DEFINE recent == {t \in Tombstones(d) : t.day \in Recent(d)}
<1>1. PICK tombstones \in Newest(recent, MaxTombstones),
           accounts \in Newest({a \in d.closed : {a.day, a.exit} \cap Recent(d) # {}}, MaxClosed),
           entries \in Newest(d.history, MaxHistory),
           outcomes \in Pruned(d.requests) :
        w = CutTo(d, tombstones, accounts, entries, outcomes)
  BY DEF Retained
<1>2. /\ tombstones \subseteq recent
      /\ Cardinality(recent) <= MaxTombstones => tombstones = recent
      /\ accounts \subseteq d.closed /\ entries \subseteq d.history
  BY NewestIs
<1>3. Tombstones(d) \subseteq d.positions /\ Tombstones(d) \cap Live(d) = {}
      /\ Live(d) \subseteq d.positions
  BY DEF Tombstones, Closed, Live
<1>4. outcomes \in [Requests -> Outcomes \cup {None}]
  BY PrunedIs DEF Documents
<1>5. (d.positions \ Tombstones(d)) \cup tombstones \subseteq d.positions
  BY <1>2, <1>3
<1>6. /\ w \in Documents /\ w.positions = (d.positions \ Tombstones(d)) \cup tombstones
      /\ w.closed = accounts /\ w.history = entries /\ w.requests = outcomes
  <2> DEFINE left == (d.positions \ Tombstones(d)) \cup tombstones
  <2>1. /\ left \subseteq Positions /\ accounts \subseteq Accounts
        /\ entries \subseteq [key : Keys, day : 1..MaxDays, exited : BOOLEAN]
    BY <1>2, <1>5 DEF Documents
  <2>2. w = [d EXCEPT !.positions = left, !.closed = accounts,
                      !.history = entries, !.requests = outcomes]
    BY <1>1 DEF CutTo
  <2> HIDE DEF recent, left
  <2>3. /\ w \in Documents /\ w.positions = left
        /\ w.closed = accounts /\ w.history = entries /\ w.requests = outcomes
    BY <1>4, <2>1, <2>2 DEF Documents
  <2>4. QED
    BY <2>3 DEF left
<1>7. Cut(d, w)
  BY <1>2, <1>3, <1>5, <1>6 DEF Cut, Distinct
<1>8. ASSUME Cardinality(recent) <= MaxTombstones, NEW p \in d.positions, p.day \in Recent(d)
      PROVE  p \in w.positions
  BY <1>2, <1>6, <1>8
<1>9. QED
  BY <1>6, <1>7, <1>8

LEMMA ShedIs ==
    ASSUME NEW d \in Documents, Distinct(d), NEW w \in Shed(d)
    PROVE  /\ w \in Documents /\ Cut(d, w) /\ SameKeys(d, w)
           /\ w.requests = d.requests
<1>1. CASE w = d
  BY <1>1 DEF Cut, SameKeys, Live
<1>2. ASSUME NEW full \in Suffixes(Full(d)), w = Keeping(d, full)
      PROVE  w \in Documents /\ Cut(d, w) /\ SameKeys(d, w) /\ w.requests = d.requests
  BY <1>2, KeepingIs DEF Suffixes
<1>3. ASSUME NEW accounts \in Suffixes(d.closed),
             w = [Keeping(d, {}) EXCEPT !.closed = accounts]
      PROVE  w \in Documents /\ Cut(d, w) /\ SameKeys(d, w) /\ w.requests = d.requests
  <2>1. PICK e : e = Keeping(d, {})
    OBVIOUS
  <2>2. e \in Documents /\ Cut(d, e) /\ SameKeys(d, e) /\ e.requests = d.requests
    BY <2>1, KeepingIs
  <2>3. accounts \subseteq d.closed
    BY DEF Suffixes
  <2>4. /\ w \in Documents /\ w.positions = e.positions /\ w.history = e.history
        /\ w.closed = accounts /\ w.requests = e.requests
    BY <1>3, <2>1, <2>2, <2>3 DEF Documents
  <2>5. QED
    BY <2>2, <2>3, <2>4 DEF Cut, SameKeys, Distinct
<1>4. QED
  BY <1>1, <1>2, <1>3 DEF Shed

(***************************************************************************)
(* _bound: a document stays one, what is live stays, and the outcomes are  *)
(* cut to the newest.                                                      *)
(***************************************************************************)
LEMMA BoundedIs ==
    ASSUME NEW d \in Documents, Distinct(d), NEW w \in Bounded(d)
    PROVE  /\ w \in Documents /\ Cut(d, w)
           /\ w.requests \in Pruned(d.requests)
<1>0. PICK full \in Newest(Full(d), MaxFull) : \E e \in Retained(Keeping(d, full)) : w \in Shed(e)
  BY DEF Bounded
<1>2. PICK c : c = Keeping(d, full)
  OBVIOUS
<1>1. PICK e \in Retained(c) : w \in Shed(e)
  BY <1>0, <1>2
<1>3. c \in Documents /\ Cut(d, c) /\ c.requests = d.requests
  BY <1>2, KeepingIs, NewestIs
<1>4. e \in Documents /\ Cut(c, e) /\ e.requests \in Pruned(c.requests)
  BY <1>1, <1>3, RetainedIs DEF Cut
<1>5. w \in Documents /\ Cut(e, w) /\ w.requests = e.requests
  BY <1>1, <1>4, ShedIs DEF Cut
<1>6. QED
  BY <1>3, <1>4, <1>5, CutTransitive

(***************************************************************************)
(* No more elements than another set has of their keys.                    *)
(***************************************************************************)
LEMMA NoMore ==
    ASSUME NEW S, NEW T, IsFiniteSet(T),
           \A x, y \in S : x.key = y.key => x = y,
           \A x \in S : \E y \in T : y.key = x.key
    PROVE  IsFiniteSet(S) /\ Cardinality(S) <= Cardinality(T)
<1> DEFINE f == [x \in S |-> CHOOSE y \in T : y.key = x.key]
<1>1. \A x \in S : f[x] \in T /\ f[x].key = x.key
  OBVIOUS
<1>2. f \in [S -> T]
  BY <1>1
<1>3. f \in Injection(S, T)
  BY <1>1, <1>2 DEF Injection, IsInjective
<1>4. QED
  BY <1>3, FS_Injection

\* The closed positions do not fill the tombstones.
Few(d) == IsFiniteSet(Closed(d)) /\ Cardinality(Closed(d)) <= MaxTombstones

(***************************************************************************)
(* _bound: no position of the session is forgotten while the tombstones    *)
(* have room, because no session is more recent.                           *)
(***************************************************************************)
LEMMA BoundedKeeps ==
    ASSUME StoreAssumption, NEW d \in Documents, Distinct(d), NEW w \in Bounded(d),
           day \in 1..MaxDays, Few(d),
           \A p \in d.positions : p.day <= day, \A a \in d.closed : a.exit <= day
    PROVE  \A p \in d.positions : p.day = day =>
              \E q \in w.positions : q.key = p.key /\ q.day = day
<1>0. PICK full \in Newest(Full(d), MaxFull) : \E e \in Retained(Keeping(d, full)) : w \in Shed(e)
  BY DEF Bounded
<1>2. PICK c : c = Keeping(d, full)
  OBVIOUS
<1>1. PICK e \in Retained(c) : w \in Shed(e)
  BY <1>0, <1>2
<1>3. c \in Documents /\ Cut(d, c) /\ SameKeys(d, c) /\ c.closed = d.closed
  BY <1>2, KeepingIs, NewestIs
<1>4. ASSUME NEW q \in c.positions
      PROVE  \E p \in d.positions : q.key = p.key /\ q.day = p.day /\ q.status = p.status
  BY <1>3, CutFrom
<1>5. \A s \in Sessions(c) : s \in Nat /\ s <= day
  <2>1. /\ \A p \in c.positions : p.day \in Nat /\ p.day <= day
        /\ \A a \in c.closed : a.exit \in Nat /\ a.exit <= day
    BY <1>3, <1>4 DEF Documents, Positions, Accounts
  <2>2. QED
    BY <2>1 DEF Sessions
<1>6. ASSUME NEW p \in c.positions, p.day = day
      PROVE  p.day \in Recent(c)
  <2>1. {t \in Sessions(c) : t > day} = {}
    BY <1>5
  <2>2. day \in Sessions(c)
    BY <1>6 DEF Sessions
  <2>3. QED
    BY <1>6, <2>1, <2>2, FS_EmptySet DEF Recent, StoreAssumption
<1>7. Cardinality({t \in Tombstones(c) : t.day \in Recent(c)}) <= MaxTombstones
  <2> DEFINE S == {t \in Tombstones(c) : t.day \in Recent(c)}
  <2>1. \A x \in S : x \in c.positions /\ x.status = "CLOSED"
    BY DEF Tombstones, Closed, Live
  <2>2. \A x \in S : \E y \in Closed(d) : y.key = x.key
    BY <1>4, <2>1 DEF Closed, Live
  <2>3. \A x, y \in S : x.key = y.key => x = y
    BY <1>3, <2>1 DEF Cut, Distinct
  <2> HIDE DEF S
  <2>4. IsFiniteSet(S) /\ Cardinality(S) <= Cardinality(Closed(d))
    BY <2>2, <2>3, NoMore DEF Few
  <2>5. Cardinality(S) \in Nat /\ Cardinality(Closed(d)) \in Nat
    BY <2>4, FS_CardinalityType DEF Few
  <2>6. QED
    BY <2>4, <2>5 DEF Few, StoreAssumption, S
<1>8. \A p \in c.positions : p.day = day => p \in e.positions
  BY <1>1, <1>3, <1>6, <1>7, RetainedIs DEF Cut
<1>9. e \in Documents /\ Distinct(e)
  BY <1>1, <1>3, RetainedIs DEF Cut
<1>10. SameKeys(e, w)
  BY <1>1, <1>9, ShedIs
<1>11. QED
  BY <1>3, <1>8, <1>10 DEF SameKeys

(***************************************************************************)
(* What is written when an outcome is recorded: the document cut to its    *)
(* limits, and of the outcomes only that of the request is new.            *)
(***************************************************************************)
LEMMA WithOutcomeIs ==
    ASSUME NEW d \in Documents, NEW r \in Requests, NEW outcome \in Outcomes
    PROVE  LET e == WithOutcome(d, r, outcome)
           IN /\ e \in Documents
              /\ e.positions = d.positions /\ e.history = d.history /\ e.closed = d.closed
              /\ e.requests = [d.requests EXCEPT ![r] = outcome]
<1> DEFINE f == [d.requests EXCEPT ![r] = outcome]
           e == WithOutcome(d, r, outcome)
<1>1. f \in [Requests -> Outcomes \cup {None}]
  BY DEF Documents
<1>2. e = [d EXCEPT !.requests = f]
  BY DEF Documents, WithOutcome
<1> HIDE DEF f, e
<1>3. e \in Documents /\ e.requests = f
      /\ e.positions = d.positions /\ e.history = d.history /\ e.closed = d.closed
  BY <1>1, <1>2 DEF Documents
<1>4. QED
  BY <1>1, <1>3 DEF f, e

LEMMA RecordingIs ==
    ASSUME NEW d \in Documents, Distinct(d), NEW r \in Requests, NEW outcome \in Outcomes,
           NEW w \in Recording(d, r, outcome)
    PROVE  /\ w \in Documents /\ Cut(d, w)
           /\ w.requests \in Pruned([d.requests EXCEPT ![r] = outcome])
<1>1. PICK e : e = WithOutcome(d, r, outcome)
  OBVIOUS
<1>1a. w \in Bounded(e)
  BY <1>1 DEF Recording
<1>2. /\ e \in Documents /\ w \in Bounded(e)
      /\ e.positions = d.positions /\ e.history = d.history /\ e.closed = d.closed
      /\ e.requests = [d.requests EXCEPT ![r] = outcome]
  BY <1>1, <1>1a, WithOutcomeIs
<1>3. w \in Documents /\ Cut(e, w) /\ w.requests \in Pruned(e.requests)
  BY <1>2, BoundedIs DEF Distinct
<1>4. QED
  BY <1>2, <1>3 DEF Cut, Live

LEMMA RecordingKeeps ==
    ASSUME StoreAssumption, NEW d \in Documents, Distinct(d), NEW r \in Requests,
           NEW outcome \in Outcomes, NEW w \in Recording(d, r, outcome),
           day \in 1..MaxDays, Few(d),
           \A p \in d.positions : p.day <= day, \A a \in d.closed : a.exit <= day
    PROVE  \A p \in d.positions : p.day = day =>
              \E q \in w.positions : q.key = p.key /\ q.day = day
<1>1. PICK e : e = WithOutcome(d, r, outcome)
  OBVIOUS
<1>1a. w \in Bounded(e)
  BY <1>1 DEF Recording
<1>2. e \in Documents /\ e.positions = d.positions /\ e.closed = d.closed
  BY <1>1, WithOutcomeIs
<1>3. Distinct(e) /\ Few(e)
  BY <1>2 DEF Distinct, Few, Closed, Live
<1>4. QED
  BY <1>1a, <1>2, <1>3, BoundedKeeps

LEMMA FewCut ==
    ASSUME NEW d \in Documents, NEW w, Cut(d, w), Few(d), StoreAssumption
    PROVE  Few(w)
<1>1. ASSUME NEW q \in Closed(w)
      PROVE  \E p \in Closed(d) : p.key = q.key
  BY <1>1, CutFrom DEF Closed, Live
<1>2. \A x, y \in Closed(w) : x.key = y.key => x = y
  BY DEF Cut, Distinct, Closed
<1>3. IsFiniteSet(Closed(w)) /\ Cardinality(Closed(w)) <= Cardinality(Closed(d))
  BY <1>1, <1>2, NoMore DEF Few
<1>4. Cardinality(Closed(w)) \in Nat /\ Cardinality(Closed(d)) \in Nat
  BY <1>3, FS_CardinalityType DEF Few
<1>5. QED
  BY <1>3, <1>4 DEF Few, StoreAssumption

(***************************************************************************)
(* evaluate_exit: it keeps what identifies the position, never reopens a   *)
(* decided exit and gives a closed position its reason.                    *)
(***************************************************************************)
LEMMA EvaluateExitIs ==
    ASSUME NEW p \in Positions, p.day <= day, day \in 1..MaxDays, StoreAssumption,
           p.status \in {"OPEN", "EXIT_PENDING"}, NEW quote \in Quotes, NEW opposed \in BOOLEAN
    PROVE  LET q == EvaluateExit(p, quote, opposed)
           IN /\ q \in Positions
              /\ q.key = p.key /\ q.day = p.day /\ q.request = p.request
              /\ p.reason # None => q.reason = p.reason /\ q.status # "OPEN"
              /\ q.reason # None /\ p.reason = None => q.status # "OPEN"
              /\ q.reason = None => q.status = p.status
<1> DEFINE reason == ExitReason(p, quote, opposed)
           status == CASE reason = None -> p.status
                       [] reason # None /\ quote \in {"mark", "stop"} -> "CLOSED"
                       [] OTHER -> "EXIT_PENDING"
           q == EvaluateExit(p, quote, opposed)
<1>1. /\ reason \in {None, "STOP", "OPPOSITE", "TIME", "OVERDUE"}
      /\ p.reason # None => reason = p.reason
  <2>1. CASE p.reason # None
    BY <2>1 DEF ExitReason, Positions
  <2>2. CASE p.reason = None /\ day > p.day
    BY <2>2 DEF ExitReason, Positions, StoreAssumption
  <2>3. CASE p.reason = None /\ day = p.day /\ phase = "exit"
    BY <2>3 DEF ExitReason, Positions, StoreAssumption
  <2>4. CASE p.reason = None /\ day = p.day /\ phase # "exit"
    BY <2>4 DEF ExitReason, Positions, StoreAssumption
  <2>5. QED
    BY <2>1, <2>2, <2>3, <2>4 DEF Positions, StoreAssumption
<1> HIDE DEF reason
<1>2. /\ status \in {"OPEN", "EXIT_PENDING", "CLOSED"}
      /\ reason = None => status = p.status
      /\ reason # None => status # "OPEN"
  <2>1. CASE reason = None
    BY <2>1
  <2>2. CASE reason # None /\ quote \in {"mark", "stop"}
    BY <2>2
  <2>3. CASE reason # None /\ quote \notin {"mark", "stop"}
    BY <2>3
  <2>4. QED
    BY <2>1, <2>2, <2>3
<1>3. q = [p EXCEPT !.reason = reason, !.status = status]
  BY DEF EvaluateExit, reason
<1> HIDE DEF status, q
<1>4. /\ q \in Positions
      /\ q.key = p.key /\ q.day = p.day /\ q.request = p.request
      /\ q.reason = reason /\ q.status = status
  BY <1>1, <1>2, <1>3 DEF Positions
<1>5. QED
  BY <1>1, <1>2, <1>4 DEF q

-----------------------------------------------------------------------------
(***************************************************************************)
(* Type correctness.  TypeOK is not inductive: a plan's key is a key only  *)
(* because a call that needs it has the state its tap copied (Planned), an *)
(* exit has a rule only because positions are not from the future, and the *)
(* document an admission writes is well typed because it is the one of the *)
(* file (Locked).                                                          *)
(***************************************************************************)
Planned ==
    /\ \A r \in Requests :
        /\ call[r] \in {"waiting", "entered", "probed"} => seen[r] \in States
        /\ call[r] = "returned" => reply[r] \in Outcomes
        /\ tap[r] = "fetching" => seen[r] \in States
        /\ tap[r] \in {"new", "queued", "fetching"} => call[r] = "none"
    /\ settings.rev <= troubles
    /\ \A p \in doc.positions : p.day <= day
    /\ Distinct(doc)

(***************************************************************************)
(* The lock: an admission between reading the document and writing it is   *)
(* the one holder, and the file is still what it read.                     *)
(***************************************************************************)
Locked ==
    /\ \A r \in Requests : call[r] \in {"entered", "probed"} => lock = r
    /\ lock # None =>
        /\ call[lock] \in {"entered", "probed"}
        /\ copy = doc /\ doc.requests[lock] = None

Typed == TypeOK /\ Planned /\ Locked

(***************************************************************************)
(* How a step may change the document: not at all; a refused or ignored    *)
(* request is recorded that had no outcome; the holder of the lock enters  *)
(* its position in the file as it is, or finds it too large and is         *)
(* refused; or the monitor advances positions.                             *)
(***************************************************************************)
Records(r, outcome) ==
    /\ doc.requests[r] = None
    /\ outcome = "DUPLICATE_IGNORED" => Duplicates(doc, r) # {}
    /\ doc' \in Recording(doc, r, outcome)
    /\ UNCHANGED past

\* The holder of the lock, whose plan passed.
Plans(r) ==
    /\ lock = r /\ doc.requests[r] = None
    /\ Key(r) \in Keys /\ Key(r)[1] = IndexOf[r]
    /\ seen[r] \in States /\ seen[r].decision > aged[IndexOf[r]]
    /\ Duplicates(doc, r) = {}
    /\ ~ExposureReasons(doc, IndexOf[r])

Enters(r) ==
    /\ Plans(r)
    /\ doc' \in Recording(Entered(doc, r), r, "ADMITTED")
    /\ entered' = entered \cup {<<r, Key(r)>>} /\ UNCHANGED filled

Overflows(r) ==
    /\ Plans(r)
    /\ \E d \in Recording(Entered(doc, r), r, "ADMITTED") :
        doc' \in Recording(TakenBack(d, r), r, "REJECTED")
    /\ UNCHANGED past

Advances ==
    /\ lock = None
    /\ \E now \in Evaluations(doc) :
        /\ doc' \in Bounded(Advanced(doc, now))
        /\ filled' = filled \cup {p.key : p \in Exits(now)}
    /\ UNCHANGED entered

DocStep ==
    \/ UNCHANGED <<doc, past>>
    \/ \E r \in Requests, outcome \in {"REJECTED", "DUPLICATE_IGNORED"} : Records(r, outcome)
    \/ \E r \in Requests : Enters(r) \/ Overflows(r)
    \/ Advances

LEMMA KeyType ==
    ASSUME Typed, StoreAssumption, NEW r \in Requests,
           call[r] \in {"waiting", "entered", "probed"}
    PROVE  Key(r) \in Keys /\ IndexOf[r] \in Indices /\ Key(r)[1] = IndexOf[r]
           /\ seen[r] \in States
<1>1. seen[r] \in States
  BY DEF Typed, TypeOK, Planned
<1>2. QED
  BY <1>1 DEF States, Key, Keys, StoreAssumption

(***************************************************************************)
(* An entered document is a document with one more position and entry; of  *)
(* one that is too large both are taken back.                              *)
(***************************************************************************)
LEMMA EnteredIs ==
    ASSUME Typed, StoreAssumption, NEW r \in Requests, Plans(r),
           NEW e, e = Entered(doc, r)
    PROVE  /\ NewPosition(r) \in Positions
           /\ NewPosition(r).key = Key(r) /\ NewPosition(r).request = r
           /\ NewPosition(r).status = "OPEN" /\ NewPosition(r).reason = None
           /\ NewPosition(r).day = day
           /\ NewEntry(r).key = Key(r) /\ NewEntry(r).exited = FALSE
           /\ e \in Documents /\ Distinct(e)
           /\ e.positions = doc.positions \cup {NewPosition(r)}
           /\ e.history = doc.history \cup {NewEntry(r)}
           /\ e.closed = doc.closed /\ e.requests = doc.requests
           /\ \A p \in doc.positions : p.key # Key(r)
           /\ \A p \in Live(doc) : p.key[1] # Key(r)[1]
<1>1. day \in 1..MaxDays /\ doc \in Documents /\ Distinct(doc)
  BY DEF Typed, TypeOK, Planned
<1>2. /\ Key(r) \in Keys /\ Key(r)[1] = IndexOf[r]
      /\ \A p \in doc.positions : p.key # Key(r)
      /\ \A p \in Live(doc) : p.key[1] # IndexOf[r]
  BY DEF Plans, Duplicates, ExposureReasons
<1>3. /\ NewPosition(r) \in Positions
      /\ NewPosition(r).key = Key(r) /\ NewPosition(r).request = r
      /\ NewPosition(r).status = "OPEN" /\ NewPosition(r).reason = None
      /\ NewPosition(r).day = day
  BY <1>1, <1>2 DEF NewPosition, Positions
<1>4. /\ NewEntry(r) \in [key : Keys, day : 1..MaxDays, exited : BOOLEAN]
      /\ NewEntry(r).key = Key(r) /\ NewEntry(r).exited = FALSE
  BY <1>1, <1>2 DEF NewEntry
<1>5. /\ e \in Documents
      /\ e.positions = doc.positions \cup {NewPosition(r)}
      /\ e.history = doc.history \cup {NewEntry(r)}
      /\ e.closed = doc.closed /\ e.requests = doc.requests
  BY <1>1, <1>3, <1>4 DEF Entered, Documents
<1>6. Distinct(e)
  BY <1>1, <1>2, <1>3, <1>5 DEF Distinct
<1>7. QED
  BY <1>2, <1>3, <1>4, <1>5, <1>6

LEMMA TakenBackIs ==
    ASSUME Typed, StoreAssumption, NEW r \in Requests, Plans(r),
           NEW d \in Documents, Cut(Entered(doc, r), d),
           NEW t, t = TakenBack(d, r)
    PROVE  /\ t \in Documents /\ Distinct(t) /\ Cut(doc, t)
           /\ t.requests = d.requests
           /\ \A q \in d.positions : q.key # Key(r) => q \in t.positions
           /\ t.positions \subseteq d.positions /\ t.closed = d.closed
<1>1. PICK e : e = Entered(doc, r)
  OBVIOUS
<1>2. /\ NewPosition(r) \in Positions
      /\ NewPosition(r).key = Key(r) /\ NewPosition(r).status = "OPEN"
      /\ e.positions = doc.positions \cup {NewPosition(r)}
      /\ e.history = doc.history \cup {NewEntry(r)}
      /\ e.closed = doc.closed
      /\ \A p \in doc.positions : p.key # Key(r)
  BY <1>1, EnteredIs
<1>3. Cut(e, d)
  BY <1>1
<1>4. /\ t \in Documents
      /\ t.positions = d.positions \ {NewPosition(r)}
      /\ t.history = d.history \ {NewEntry(r)}
      /\ t.closed = d.closed /\ t.requests = d.requests
  BY DEF TakenBack, Documents
<1>5. ASSUME NEW q \in t.positions
      PROVE  \E p \in doc.positions : q = p \/ (p.status = "CLOSED" /\ q = Compact(p))
  BY <1>2, <1>3, <1>4 DEF Cut
<1>6. Live(doc) \subseteq t.positions
  BY <1>2, <1>3, <1>4 DEF Cut, Live
<1>7. t.history \subseteq doc.history /\ t.closed \subseteq doc.closed
  BY <1>2, <1>3, <1>4 DEF Cut
<1>8. Distinct(t)
  BY <1>3, <1>4 DEF Cut, Distinct
<1>9. QED
  BY <1>2, <1>4, <1>5, <1>6, <1>7, <1>8 DEF Cut

\* An entry of the history, and the stamp the monitor gives it.
Entries == [key : Keys, day : 1..MaxDays, exited : BOOLEAN]
Stamped(h, exits) == [h EXCEPT !.exited = h.exited \/ \E p \in exits : p.key = h.key]

LEMMA StampedIs ==
    ASSUME NEW h \in Entries, NEW exits
    PROVE  /\ Stamped(h, exits) \in Entries
           /\ Stamped(h, exits).key = h.key
           /\ Stamped(h, exits).exited <=> h.exited \/ \E p \in exits : p.key = h.key
<1>1. PICK b \in BOOLEAN : b = (h.exited \/ \E p \in exits : p.key = h.key)
  BY Zenon
<1>2. Stamped(h, exits) = [h EXCEPT !.exited = b]
  BY <1>1, Zenon DEF Stamped
<1>3. /\ [h EXCEPT !.exited = b] \in Entries
      /\ [h EXCEPT !.exited = b].key = h.key
      /\ [h EXCEPT !.exited = b].exited = b
  BY DEF Entries
<1>4. QED
  BY <1>1, <1>2, <1>3, Zenon

LEMMA AccountIs ==
    ASSUME NEW d, NEW p \in Positions, p.reason # None, day \in 1..MaxDays
    PROVE  /\ Account(d, p) \in Accounts
           /\ Account(d, p).key = p.key /\ Account(d, p).reason = p.reason
           /\ Account(d, p).exit = day
<1>1. PICK b \in BOOLEAN : b = (\E a \in d.closed : a.key = p.key)
  BY Zenon
<1>2. Account(d, p) = [key |-> p.key, day |-> p.day, exit |-> day,
                       reason |-> p.reason, again |-> b]
  BY <1>1, Zenon DEF Account
<1>3. QED
  BY <1>2 DEF Accounts, Positions

\* What the monitor makes of each position it looks at.
Onward(now) ==
    \A p \in Monitored(doc) :
        /\ p \in doc.positions /\ p.status \in {"OPEN", "EXIT_PENDING"}
        /\ now[p] \in Positions
        /\ now[p].key = p.key /\ now[p].day = p.day /\ now[p].request = p.request
        /\ p.reason # None => now[p].reason = p.reason /\ now[p].status # "OPEN"
        /\ now[p].reason # None /\ p.reason = None => now[p].status # "OPEN"
        /\ now[p].status = "CLOSED" => now[p].reason # None

LEMMA OnwardIs ==
    ASSUME Typed, StoreAssumption, NEW now \in Evaluations(doc)
    PROVE  DOMAIN now = Monitored(doc) /\ Onward(now)
<1>1. PICK quote \in [Monitored(doc) -> Quotes], opposed \in [Monitored(doc) -> BOOLEAN] :
        now = Evaluated(doc, quote, opposed)
  BY DEF Evaluations
<1>2. doc \in Documents /\ day \in 1..MaxDays /\ \A p \in doc.positions : p.day <= day
  BY DEF Typed, TypeOK, Planned
<1>3. ASSUME NEW p \in Monitored(doc)
      PROVE  /\ p \in Positions /\ p \in doc.positions /\ p.status \in {"OPEN", "EXIT_PENDING"}
             /\ now[p] = EvaluateExit(p, quote[p], opposed[p])
  BY <1>1, <1>2 DEF Monitored, Documents, Evaluated
<1>4. DOMAIN now = Monitored(doc)
  BY <1>1 DEF Evaluated
<1>5. QED
  BY <1>1, <1>2, <1>3, <1>4, EvaluateExitIs DEF Onward

LEMMA AdvancedIs ==
    ASSUME Typed, StoreAssumption, NEW now \in Evaluations(doc), NEW e, e = Advanced(doc, now)
    PROVE  /\ e \in Documents /\ Distinct(e)
           /\ e.requests = doc.requests
           /\ \A q : q \in e.positions <=>
                 (q \in doc.positions \ Monitored(doc)) \/ \E p \in Monitored(doc) : q = now[p]
           /\ \A q : q \in Exits(now) <=>
                 \E p \in Monitored(doc) : q = now[p] /\ now[p].status = "CLOSED"
           /\ \E d : e.closed = doc.closed \cup {Account(d, p) : p \in Exits(now)}
           /\ \A p \in Exits(now) : \A d : Account(d, p) \in Accounts
           /\ e.history = {Stamped(h, Exits(now)) : h \in doc.history}
<1> DEFINE exits == Exits(now)
           positions == (doc.positions \ Monitored(doc)) \cup {now[p] : p \in Monitored(doc)}
           d == [doc EXCEPT !.positions = positions]
           history == {Stamped(h, exits) : h \in doc.history}
           closed == doc.closed \cup {Account(d, p) : p \in exits}
<1>1. doc \in Documents /\ day \in 1..MaxDays /\ Distinct(doc)
  BY DEF Typed, TypeOK, Planned
<1>2. DOMAIN now = Monitored(doc) /\ Onward(now)
  BY OnwardIs
<1>3. \A q : q \in exits <=> \E p \in Monitored(doc) : q = now[p] /\ now[p].status = "CLOSED"
  BY <1>2 DEF Exits
<1>4. \A q \in exits : q \in Positions /\ q.reason # None
  BY <1>2, <1>3 DEF Onward
<1>5. positions \subseteq Positions
  BY <1>1, <1>2 DEF Documents, Onward
<1> HIDE DEF exits, d
<1>6. \A p \in exits : \A c : Account(c, p) \in Accounts
  BY <1>1, <1>4, AccountIs
<1>7. closed \subseteq Accounts
  BY <1>1, <1>6 DEF Documents
<1>8. history \subseteq Entries
  <2>1. doc.history \subseteq Entries
    BY <1>1 DEF Documents, Entries
  <2>2. QED
    BY <2>1, StampedIs
<1>9. e = Accounted(d, exits)
  BY <1>2 DEF Advanced, d, exits
<1>10. /\ d.history = doc.history /\ d.closed = doc.closed
       /\ d.positions = positions /\ d.requests = doc.requests
       /\ d \in Documents
  <2> HIDE DEF positions
  <2> QED
    BY <1>1, <1>5 DEF Documents, d
<1>11. e = [d EXCEPT !.closed = closed, !.history = history]
  BY <1>9, <1>10, Zenon DEF Accounted, Stamped
<1> HIDE DEF positions, closed, history
<1>12. /\ e \in Documents /\ e.requests = doc.requests
       /\ e.positions = positions /\ e.closed = closed /\ e.history = history
  BY <1>1, <1>5, <1>7, <1>8, <1>10, <1>11 DEF Documents, Entries
<1>13. \A q : q \in positions <=>
          (q \in doc.positions \ Monitored(doc)) \/ \E p \in Monitored(doc) : q = now[p]
  BY DEF positions
<1>14. Distinct(e)
  BY <1>1, <1>2, <1>12, <1>13 DEF Distinct, Onward, Monitored
<1>15. QED
  BY <1>3, <1>6, <1>12, <1>13, <1>14 DEF exits, closed, history

(***************************************************************************)
(* A critical section of the admission leaves the document as DocStep says *)
(* and the lock free.                                                      *)
(***************************************************************************)
LEMMA RefuseStep ==
    ASSUME Typed, StoreAssumption, NEW r \in Requests, call[r] \in {"entered", "probed"},
           NEW outcome \in {"REJECTED", "DUPLICATE_IGNORED"},
           outcome = "DUPLICATE_IGNORED" => Duplicates(copy, r) # {},
           Refuse(r, outcome), UNCHANGED past
    PROVE  /\ UNCHANGED <<doc, past>> \/ Records(r, outcome)
           /\ lock = r /\ copy = doc /\ doc.requests[r] = None
  BY DEF Typed, TypeOK, Locked, Refuse, Concludes, Records, StoreAssumption

LEMMA FenceStep ==
    ASSUME Typed, NEW r \in Requests, NEW outcome \in Outcomes, Fence(r, outcome),
           UNCHANGED past
    PROVE  /\ lock = None
           /\ UNCHANGED <<doc, past>> \/ Records(r, "REJECTED")
  BY DEF Fence, Records

LEMMA MonitorStep ==
    ASSUME Typed, Monitor
    PROVE  lock = None /\ (UNCHANGED <<doc, past>> \/ Advances)
  BY DEF Monitor, Advances, past

LEMMA PassesStep ==
    ASSUME Typed, StoreAssumption, NEW r \in Requests, Passes(r)
    PROVE  Plans(r) /\ copy = doc /\ call[r] = "probed"
<1>1. lock = r /\ copy = doc /\ doc.requests[r] = None
  BY DEF Passes, Typed, Locked, StoreAssumption
<1>2. QED
  BY <1>1, KeyType DEF Passes, Admissible, Plans

(***************************************************************************)
(* An admitted tap: its position is live, so it is in what is written.     *)
(***************************************************************************)
LEMMA OpenStep ==
    ASSUME Typed, StoreAssumption, NEW r \in Requests, Open(r)
    PROVE  UNCHANGED <<doc, past>> \/ Enters(r)
<1>1. Plans(r) /\ copy = doc
  BY PassesStep DEF Open
<1>2. PICK e : e = Entered(doc, r)
  OBVIOUS
<1>2a. /\ e \in Documents /\ Distinct(e)
       /\ e.positions = doc.positions \cup {NewPosition(r)}
       /\ NewPosition(r).key = Key(r) /\ NewPosition(r).status = "OPEN"
       /\ \A p \in doc.positions : p.key # Key(r)
  BY <1>1, <1>2, EnteredIs
<1>3. /\ e \in Documents /\ Distinct(e)
      /\ NewPosition(r) \in Live(e) /\ NewPosition(r) \notin doc.positions
  BY <1>2a DEF Live
<1>4. CASE doc' \in Recording(e, r, "ADMITTED")
  <2>1. Cut(e, doc')
    <3>1. e \in Documents /\ Distinct(e) /\ "ADMITTED" \in Outcomes
      BY <1>3 DEF Outcomes
    <3>2. PICK w : w = doc'
      OBVIOUS
    <3>3. w \in Recording(e, r, "ADMITTED")
      BY <1>4, <3>2
    <3>4. Cut(e, w)
      BY <3>1, <3>3, RecordingIs
    <3>5. QED
      BY <3>2, <3>4
  <2>2. NewPosition(r) \in doc'.positions
    BY <1>3, <2>1 DEF Cut
  <2>3. QED
    BY <1>1, <1>2, <1>4, <2>2 DEF Open, Enters
<1>5. CASE UNCHANGED doc
  BY <1>3, <1>5 DEF Open, past
<1>6. QED
  BY <1>1, <1>2, <1>4, <1>5 DEF Open, Concludes

LEMMA StoreFullStep ==
    ASSUME Typed, StoreAssumption, NEW r \in Requests, StoreFull(r)
    PROVE  UNCHANGED <<doc, past>> \/ Overflows(r)
<1>1. Plans(r) /\ copy = doc
  BY PassesStep DEF StoreFull
<1>2. \/ UNCHANGED doc
      \/ \E d \in Recording(Entered(copy, r), r, "ADMITTED") :
            doc' \in Recording(TakenBack(d, r), r, "REJECTED")
  BY DEF StoreFull, Concludes
<1>3. QED
  BY <1>1, <1>2 DEF StoreFull, Overflows

LEMMA StepKinds ==
    ASSUME Typed, [Next]_vars, StoreAssumption
    PROVE  DocStep
<1>1. ASSUME NEW r \in Requests, Tap(r)
      PROVE  DocStep
  <2>1. CASE Submit(r) \/ Run(r) \/ Commit(r) \/ Answered(r) \/ TimesOut(r) \/ Reconcile(r)
    BY <2>1 DEF Submit, Run, Commit, Answered, TimesOut, Reconcile, DocStep
  <2>2. CASE Expire(r) \/ Status(r)
    <3>1. PICK outcome \in Outcomes : Fence(r, outcome) /\ UNCHANGED past
      BY <2>2 DEF Expire, Status
    <3>2. QED
      BY <3>1, FenceStep DEF DocStep
  <2>3. QED
    BY <1>1, <2>1, <2>2 DEF Tap
<1>2. ASSUME NEW r \in Requests, Admission(r)
      PROVE  DocStep
  <2>1. CASE LockTimeout(r) \/ Enter(r) \/ Probe(r)
    BY <2>1 DEF LockTimeout, Enter, Probe, DocStep
  <2>2. CASE ProbeRefuses(r) \/ Duplicate(r) \/ Reject(r)
    <3>1. \E outcome \in {"REJECTED", "DUPLICATE_IGNORED"} :
            /\ Refuse(r, outcome) /\ call[r] \in {"entered", "probed"} /\ UNCHANGED past
            /\ outcome = "DUPLICATE_IGNORED" => Duplicates(copy, r) # {}
      BY <2>2 DEF ProbeRefuses, Duplicate, Reject
    <3>2. QED
      BY <3>1, RefuseStep DEF DocStep
  <2>3. CASE Open(r) \/ StoreFull(r)
    BY <2>3, OpenStep, StoreFullStep DEF DocStep
  <2>4. QED
    BY <1>2, <2>1, <2>2, <2>3 DEF Admission
<1>3. CASE Monitor
  BY <1>3, MonitorStep DEF DocStep
<1>4. CASE World
  BY <1>4 DEF World, Publish, HalfHour, ChangeSettings, SessionMoves, ClockAdvances,
              ClockSetBack, ProcessDies, DocStep
<1>5. CASE UNCHANGED vars
  BY <1>5 DEF vars, DocStep
<1>6. QED
  BY <1>1, <1>2, <1>3, <1>4, <1>5 DEF Next

(***************************************************************************)
(* What a step does to positions, entries and accounts: it loses some, or  *)
(* after a position was entered, or after positions were advanced.         *)
(***************************************************************************)
Loses == doc' \in Documents /\ Cut(doc, doc') /\ UNCHANGED past

Gains(r) ==
    /\ Plans(r) /\ doc' \in Documents /\ Cut(Entered(doc, r), doc')
    /\ entered' = entered \cup {<<r, Key(r)>>} /\ UNCHANGED filled

Moves(now) ==
    /\ lock = None /\ doc' \in Documents /\ Cut(Advanced(doc, now), doc')
    /\ filled' = filled \cup {p.key : p \in Exits(now)} /\ UNCHANGED entered

LEMMA StepCuts ==
    ASSUME Typed, StoreAssumption, DocStep
    PROVE  Loses \/ (\E r \in Requests : Gains(r)) \/ \E now \in Evaluations(doc) : Moves(now)
<1>1. doc \in Documents /\ Distinct(doc)
  BY DEF Typed, TypeOK, Planned
<1>2. CASE UNCHANGED <<doc, past>>
  BY <1>1, <1>2 DEF Loses, Cut, Live
<1>3. ASSUME NEW r \in Requests, NEW outcome \in {"REJECTED", "DUPLICATE_IGNORED"},
             Records(r, outcome)
      PROVE  Loses
  BY <1>1, <1>3, RecordingIs DEF Records, Loses, Outcomes
<1>4. ASSUME NEW r \in Requests, Enters(r)
      PROVE  Gains(r)
  <2>1. PICK e : e = Entered(doc, r)
    OBVIOUS
  <2>2. e \in Documents /\ Distinct(e)
    BY <1>4, <2>1, EnteredIs DEF Enters
  <2>3. doc' \in Documents /\ Cut(e, doc')
    BY <1>4, <2>1, <2>2, RecordingIs DEF Enters, Outcomes
  <2>4. QED
    BY <1>4, <2>1, <2>3 DEF Enters, Gains
<1>5. ASSUME NEW r \in Requests, Overflows(r)
      PROVE  Loses
  <2>1. PICK e : e = Entered(doc, r)
    OBVIOUS
  <2>2. Plans(r) /\ e \in Documents /\ Distinct(e) /\ UNCHANGED past
    BY <1>5, <2>1, EnteredIs DEF Overflows
  <2>3. PICK d \in Recording(e, r, "ADMITTED") : doc' \in Recording(TakenBack(d, r), r, "REJECTED")
    BY <1>5, <2>1 DEF Overflows
  <2>4. d \in Documents /\ Cut(e, d)
    BY <2>2, <2>3, RecordingIs DEF Outcomes
  <2>5. PICK t : t = TakenBack(d, r)
    OBVIOUS
  <2>6. t \in Documents /\ Distinct(t) /\ Cut(doc, t)
    BY <2>1, <2>2, <2>4, <2>5, TakenBackIs
  <2>7. doc' \in Documents /\ Cut(t, doc')
    BY <2>3, <2>5, <2>6, RecordingIs DEF Outcomes
  <2>8. QED
    BY <1>1, <2>2, <2>6, <2>7, CutTransitive DEF Loses
<1>6. ASSUME Advances
      PROVE  \E now \in Evaluations(doc) : Moves(now)
  <2>1. PICK now \in Evaluations(doc) :
          /\ doc' \in Bounded(Advanced(doc, now))
          /\ filled' = filled \cup {p.key : p \in Exits(now)}
    BY <1>6 DEF Advances
  <2>2. PICK e : e = Advanced(doc, now)
    OBVIOUS
  <2>3. e \in Documents /\ Distinct(e)
    BY <2>2, AdvancedIs
  <2>4. doc' \in Documents /\ Cut(e, doc')
    BY <2>1, <2>2, <2>3, BoundedIs
  <2>5. QED
    BY <1>6, <2>1, <2>2, <2>4 DEF Advances, Moves
<1>7. QED
  BY <1>2, <1>3, <1>4, <1>5, <1>6 DEF DocStep

(***************************************************************************)
(* Every change of the document yields a document, without positions from  *)
(* the future and without two of one key.                                  *)
(***************************************************************************)
LEMMA DocStepType ==
    ASSUME Typed, StoreAssumption, DocStep
    PROVE  /\ doc' \in Documents /\ Distinct(doc')
           /\ \A p \in doc'.positions : p.day <= day
           /\ (entered \subseteq Requests \X Keys)' /\ (filled \subseteq Keys)'
<1>1. /\ doc \in Documents /\ \A p \in doc.positions : p.day <= day
      /\ day \in 1..MaxDays
      /\ entered \subseteq Requests \X Keys /\ filled \subseteq Keys
  BY DEF Typed, TypeOK, Planned
<1>2. CASE Loses
  BY <1>1, <1>2, CutFrom DEF Loses, Cut, past
<1>3. ASSUME NEW r \in Requests, Gains(r)
      PROVE  /\ doc' \in Documents /\ Distinct(doc')
             /\ \A p \in doc'.positions : p.day <= day
             /\ entered' \subseteq Requests \X Keys /\ filled' \subseteq Keys
  <2>1. PICK e : e = Entered(doc, r)
    OBVIOUS
  <2>2. Plans(r) /\ Cut(e, doc') /\ doc' \in Documents
    BY <1>3, <2>1 DEF Gains
  <2>3. /\ e \in Documents /\ e.positions = doc.positions \cup {NewPosition(r)}
        /\ NewPosition(r).day = day
    BY <2>1, <2>2, EnteredIs
  <2>4. \A p \in doc'.positions : p.day <= day
    BY <1>1, <2>2, <2>3, CutFrom
  <2>5. QED
    BY <1>1, <1>3, <2>2, <2>4 DEF Gains, Plans, Cut
<1>4. ASSUME NEW now \in Evaluations(doc), Moves(now)
      PROVE  /\ doc' \in Documents /\ Distinct(doc')
             /\ \A p \in doc'.positions : p.day <= day
             /\ entered' \subseteq Requests \X Keys /\ filled' \subseteq Keys
  <2>1. PICK e : e = Advanced(doc, now)
    OBVIOUS
  <2>2. Cut(e, doc') /\ doc' \in Documents
    BY <1>4, <2>1 DEF Moves
  <2>3. /\ e \in Documents
        /\ \A q \in e.positions :
              (q \in doc.positions \ Monitored(doc)) \/ \E p \in Monitored(doc) : q = now[p]
        /\ \A q \in Exits(now) : \E p \in Monitored(doc) : q = now[p]
    BY <2>1, AdvancedIs
  <2>4. \A p \in Monitored(doc) : p \in doc.positions /\ now[p].day = p.day
                                  /\ now[p].key \in Keys
    BY OnwardIs DEF Onward, Positions
  <2>5. \A p \in doc'.positions : p.day <= day
    BY <1>1, <2>2, <2>3, <2>4, CutFrom
  <2>6. {p.key : p \in Exits(now)} \subseteq Keys
    BY <2>3, <2>4
  <2>7. QED
    BY <1>1, <1>4, <2>2, <2>5, <2>6 DEF Moves, Cut
<1>5. QED
  BY <1>2, <1>3, <1>4, StepCuts

(***************************************************************************)
(* The part of Typed that is not about the document.                       *)
(***************************************************************************)
Shaped ==
    /\ decision \in [Indices -> 0..MaxDecisions]
    /\ aged \in [Indices -> 0..MaxDecisions]
    /\ rested \subseteq Keys
    /\ settings \in [open : BOOLEAN, rev : 0..MaxTroubles]
    /\ day \in 1..MaxDays /\ phase \in {"entry", "exit"}
    /\ late \in [Requests -> 0..2]
    /\ troubles \in 0..MaxTroubles
    /\ settings.rev <= troubles

Called ==
    /\ tap \in [Requests -> {"new", "queued", "fetching", "awaiting",
                             "reconciling", "completed", "lost"}]
    /\ seen \in [Requests -> States \cup {None}]
    /\ call \in [Requests -> {"none", "waiting", "entered", "probed", "returned"}]
    /\ reply \in [Requests -> Outcomes \cup {None}]
    /\ gate \in BOOLEAN
    /\ told \in [Requests -> SUBSET Outcomes]
    /\ \A r \in Requests :
        /\ call[r] \in {"waiting", "entered", "probed"} => seen[r] \in States
        /\ call[r] = "returned" => reply[r] \in Outcomes
        /\ tap[r] = "fetching" => seen[r] \in States
        /\ tap[r] \in {"new", "queued", "fetching"} => call[r] = "none"

Held ==
    /\ lock \in Requests \cup {None} /\ copy \in Documents
    /\ Locked

LEMMA TypedParts ==
    Typed <=> /\ Shaped /\ Called /\ Held /\ doc \in Documents
              /\ \A p \in doc.positions : p.day <= day
              /\ Distinct(doc)
              /\ entered \subseteq Requests \X Keys /\ filled \subseteq Keys
  BY DEF Typed, TypeOK, Planned, Shaped, Called, Held

LEMMA ShapedStep ==
    ASSUME Typed, [Next]_vars, StoreAssumption
    PROVE  Shaped' /\ day <= day'
<1>1. Shaped
  BY TypedParts
<1> USE DEF Shaped
<1>2. ASSUME NEW r \in Requests, Tap(r)
      PROVE  Shaped' /\ day' = day
  <2>1. CASE Submit(r) \/ Run(r) \/ Commit(r) \/ TimesOut(r) \/ Reconcile(r)
    BY <1>1, <2>1 DEF Submit, Run, Commit, TimesOut, Reconcile, world
  <2>2. CASE Answered(r)
    BY <1>1, <2>2 DEF Answered, world
  <2>3. CASE Expire(r) \/ Status(r)
    BY <1>1, <2>3 DEF Expire, Status, world
  <2>4. QED
    BY <1>2, <2>1, <2>2, <2>3 DEF Tap
<1>3. ASSUME NEW r \in Requests, Admission(r)
      PROVE  Shaped' /\ day' = day
  <2>1. /\ UNCHANGED <<world, late>>
        /\ UNCHANGED troubles \/ Trouble
    BY <1>3 DEF Admission, LockTimeout, Enter, ProbeRefuses, Probe, Duplicate, Reject, Open,
                StoreFull, Refuse, Concludes
  <2>2. QED
    BY <1>1, <2>1 DEF world, Trouble, StoreAssumption
<1>4. CASE Monitor
  <2>1. UNCHANGED <<world, late>> /\ (UNCHANGED troubles \/ Trouble)
    BY <1>4 DEF Monitor
  <2>2. QED
    BY <1>1, <2>1 DEF world, Trouble, StoreAssumption
<1>5. CASE World
  <2>1. ASSUME NEW i \in Indices, Publish(i)
        PROVE  Shaped' /\ day' = day
    BY <1>1, <2>1 DEF Publish, StoreAssumption
  <2>2. doc \in Documents /\ Exited(doc) \subseteq Keys
    BY DEF Typed, TypeOK, Documents, Exited
  <2>3. ASSUME NEW i \in Indices, HalfHour(i)
        PROVE  Shaped' /\ day' = day
    BY <1>1, <2>2, <2>3 DEF HalfHour
  <2>4. CASE ChangeSettings
    BY <1>1, <2>4 DEF ChangeSettings, Trouble, StoreAssumption
  <2>5. CASE SessionMoves
    BY <1>1, <2>2, <2>5 DEF SessionMoves, StoreAssumption
  <2>6. ASSUME NEW r \in Requests, ClockAdvances(r) \/ ClockSetBack(r)
        PROVE  Shaped' /\ day' = day
    BY <1>1, <2>6 DEF ClockAdvances, ClockSetBack, Ticking, Trouble, world, StoreAssumption
  <2>7. CASE ProcessDies
    BY <1>1, <2>7 DEF ProcessDies, Trouble, world, StoreAssumption
  <2>8. QED
    BY <1>1, <1>5, <2>1, <2>3, <2>4, <2>5, <2>6, <2>7 DEF World
<1>6. CASE UNCHANGED vars
  BY <1>1, <1>6 DEF vars, world
<1>7. QED
  BY <1>1, <1>2, <1>3, <1>4, <1>5, <1>6 DEF Next

LEMMA StateType ==
    ASSUME Shaped, StoreAssumption, NEW r \in Requests, decision[IndexOf[r]] # 0
    PROVE  State(r) \in States
  BY DEF Shaped, State, States, StoreAssumption

LEMMA CalledStep ==
    ASSUME Typed, [Next]_vars, StoreAssumption
    PROVE  Called'
<1>1. Shaped /\ Called /\ Held /\ doc \in Documents
  BY TypedParts
<1>2. \A r \in Requests : doc.requests[r] # None => doc.requests[r] \in Outcomes
  BY <1>1 DEF Documents
<1> USE DEF Called
<1>3. ASSUME NEW r \in Requests, Tap(r)
      PROVE  Called'
  <2>1. CASE Submit(r)
    BY <1>1, <2>1 DEF Submit, Goto, python
  <2>2. CASE Run(r)
    <3>1. CASE decision[IndexOf[r]] = 0
      BY <1>1, <2>2, <3>1 DEF Run, Goto, Tell, python, Outcomes
    <3>2. CASE decision[IndexOf[r]] # 0
      <4>1. State(r) \in States
        BY <1>1, <3>2, StateType
      <4>2. QED
        BY <1>1, <2>2, <3>2, <4>1 DEF Run, Goto, python
    <3>3. QED
      BY <3>1, <3>2
  <2>3. CASE Commit(r)
    <3>1. CASE seen[r] # State(r)
      BY <1>1, <2>3, <3>1 DEF Commit, Goto, Tell, Outcomes
    <3>2. CASE seen[r] = State(r)
      BY <1>1, <2>3, <3>2 DEF Commit, Goto
    <3>3. QED
      BY <3>1, <3>2
  <2>4. CASE Answered(r)
    BY <1>1, <2>4 DEF Answered, Goto, Tell
  <2>5. CASE TimesOut(r)
    BY <1>1, <2>5 DEF TimesOut, Goto, python
  <2>6. CASE Reconcile(r)
    BY <1>1, <1>2, <2>6 DEF Reconcile, Goto, Tell, python
  <2>7. CASE Expire(r)
    BY <1>1, <2>7 DEF Expire, Goto, Tell, python
  <2>8. CASE Status(r)
    BY <1>1, <2>8 DEF Status, Tell, python, native
  <2>9. QED
    BY <1>3, <2>1, <2>2, <2>3, <2>4, <2>5, <2>6, <2>7, <2>8 DEF Tap
<1>4. ASSUME NEW r \in Requests, Admission(r)
      PROVE  Called'
  <2>1. ASSUME NEW outcome \in Outcomes, Returns(r, outcome), call[r] # "none"
        PROVE  /\ call' \in [Requests -> {"none", "waiting", "entered", "probed", "returned"}]
               /\ reply' \in [Requests -> Outcomes \cup {None}]
               /\ call'[r] \in {"none", "returned"}
               /\ call'[r] = "returned" => reply'[r] \in Outcomes
               /\ \A q \in Requests \ {r} : call'[q] = call[q] /\ reply'[q] = reply[q]
               /\ call'[r] = "returned" => tap[r] = "awaiting"
    BY <1>1, <2>1 DEF Returns
  <2>2. CASE LockTimeout(r)
    BY <1>1, <2>1, <2>2 DEF LockTimeout, native, Outcomes
  <2>3. CASE Enter(r)
    <3>1. CASE doc.requests[r] # None
      BY <1>1, <1>2, <2>1, <2>3, <3>1 DEF Enter, native
    <3>2. CASE doc.requests[r] = None
      BY <1>1, <2>3, <3>2 DEF Enter, native
    <3>3. QED
      BY <3>1, <3>2
  <2>4. CASE Probe(r)
    BY <1>1, <2>4 DEF Probe, native, Shaped
  <2>5. CASE ProbeRefuses(r) \/ Duplicate(r) \/ Reject(r) \/ Open(r) \/ StoreFull(r)
    <3>1. /\ \E outcome \in Outcomes : Returns(r, outcome)
          /\ gate' = FALSE /\ call[r] # "none" /\ UNCHANGED <<native, told>>
      BY <2>5 DEF ProbeRefuses, Duplicate, Reject, Open, StoreFull, Passes, Refuse, Concludes,
                  Release, Outcomes
    <3>2. QED
      BY <1>1, <2>1, <3>1 DEF native
  <2>6. QED
    BY <1>4, <2>2, <2>3, <2>4, <2>5 DEF Admission
<1>5. CASE Monitor
  BY <1>1, <1>5 DEF Monitor, native, python
<1>6. CASE World
  <2>1. CASE ProcessDies
    BY <1>1, <2>1 DEF ProcessDies, Release
  <2>2. CASE ~ProcessDies
    BY <1>1, <1>6, <2>2 DEF World, Publish, HalfHour, ChangeSettings, SessionMoves,
        ClockAdvances, ClockSetBack, native, python
  <2>3. QED
    BY <2>1, <2>2
<1>7. CASE UNCHANGED vars
  BY <1>1, <1>7 DEF vars, native, python
<1>8. QED
  BY <1>3, <1>4, <1>5, <1>6, <1>7 DEF Next

LEMMA HeldStep ==
    ASSUME Typed, [Next]_vars, StoreAssumption
    PROVE  Held'
<1>1. Called /\ Held /\ doc \in Documents /\ None \notin Requests
  BY TypedParts DEF StoreAssumption
<1> USE DEF Held, Locked
<1>2. ASSUME lock = None, UNCHANGED <<lock, copy>>,
             \A r \in Requests : call'[r] \in {"entered", "probed"} => call'[r] = call[r]
      PROVE  Held'
  BY <1>1, <1>2
<1>3. ASSUME UNCHANGED <<lock, copy, doc>>,
             \A r \in Requests : call'[r] \in {"entered", "probed"}
                                  <=> call[r] \in {"entered", "probed"}
      PROVE  Held'
  BY <1>1, <1>3
<1>4. ASSUME NEW r \in Requests, Tap(r)
      PROVE  Held'
  <2>1. CASE Submit(r) \/ Run(r) \/ TimesOut(r) \/ Reconcile(r)
    BY <1>3, <2>1 DEF Submit, Run, TimesOut, Reconcile, python
  <2>2. CASE Commit(r)
    BY <1>1, <1>3, <2>2 DEF Commit, Called
  <2>3. CASE Answered(r)
    BY <1>1, <1>3, <2>3 DEF Answered, Called
  <2>4. CASE Expire(r) \/ Status(r)
    <3>1. lock = None /\ UNCHANGED python
      BY <2>4, FenceStep DEF Expire, Status
    <3>2. QED
      BY <1>2, <3>1 DEF python
  <2>5. QED
    BY <1>4, <2>1, <2>2, <2>3, <2>4 DEF Tap
<1>5. ASSUME NEW r \in Requests, Admission(r)
      PROVE  Held'
  <2>1. ASSUME NEW outcome \in Outcomes, Returns(r, outcome), call[r] # "none"
        PROVE  /\ call'[r] \in {"none", "returned"}
               /\ \A q \in Requests \ {r} : call'[q] = call[q]
    BY <1>1, <2>1 DEF Returns, Called
  <2>2. CASE LockTimeout(r)
    BY <1>3, <2>1, <2>2 DEF LockTimeout, Outcomes
  <2>3. CASE Enter(r)
    <3>1. CASE doc.requests[r] # None
      BY <1>1, <1>3, <2>1, <2>3, <3>1 DEF Enter, Documents
    <3>2. CASE doc.requests[r] = None
      BY <1>1, <2>3, <3>2 DEF Enter, Called
    <3>3. QED
      BY <3>1, <3>2
  <2>4. CASE Probe(r)
    BY <1>1, <1>3, <2>4 DEF Probe, Called
  <2>5. CASE ProbeRefuses(r) \/ Duplicate(r) \/ Reject(r) \/ Open(r) \/ StoreFull(r)
    <3>1. /\ \E outcome \in Outcomes : Returns(r, outcome)
          /\ lock' = None /\ copy' = EmptyDoc /\ call[r] \in {"entered", "probed"}
      BY <2>5 DEF ProbeRefuses, Duplicate, Reject, Open, StoreFull, Passes, Refuse, Concludes,
                  Release, Outcomes
    <3>2. lock = r
      BY <1>1, <3>1
    <3>3. QED
      BY <1>1, <2>1, <3>1, <3>2, EmptyDocType
  <2>6. QED
    BY <1>5, <2>2, <2>3, <2>4, <2>5 DEF Admission
<1>6. CASE Monitor
  BY <1>2, <1>6, MonitorStep DEF Monitor, python
<1>7. CASE World
  <2>1. CASE ProcessDies
    BY <1>1, <2>1, EmptyDocType DEF ProcessDies, Release
  <2>2. CASE ~ProcessDies
    BY <1>3, <1>7, <2>2 DEF World, Publish, HalfHour, ChangeSettings, SessionMoves,
        ClockAdvances, ClockSetBack, python
  <2>3. QED
    BY <2>1, <2>2
<1>8. CASE UNCHANGED vars
  BY <1>3, <1>8 DEF vars, python
<1>9. QED
  BY <1>4, <1>5, <1>6, <1>7, <1>8 DEF Next

LEMMA TypedInit ==
    ASSUME Init, StoreAssumption
    PROVE  Typed
<1>1. Shaped
  BY DEF Init, Shaped, StoreAssumption
<1>2. Called
  BY DEF Init, Called
<1>3. Held
  BY EmptyDocType DEF Init, Held, Locked
<1>4. /\ doc \in Documents /\ \A p \in doc.positions : p.day <= day
      /\ Distinct(doc) /\ entered \subseteq Requests \X Keys /\ filled \subseteq Keys
  BY EmptyDocType DEF Init, EmptyDoc, Distinct
<1>5. QED
  BY <1>1, <1>2, <1>3, <1>4, TypedParts

LEMMA TypedStep ==
    ASSUME Typed, [Next]_vars, StoreAssumption
    PROVE  Typed'
<1>1. Shaped' /\ day <= day'
  BY ShapedStep
<1>2. Called' /\ Held'
  BY CalledStep, HeldStep
<1>3. /\ doc' \in Documents /\ Distinct(doc')
      /\ \A p \in doc'.positions : p.day <= day
      /\ (entered \subseteq Requests \X Keys)' /\ (filled \subseteq Keys)'
  BY StepKinds, DocStepType
<1>4. \A p \in doc'.positions : p.day <= day'
  BY <1>1, <1>3 DEF Documents, Positions, Shaped, Typed, TypeOK
<1>5. QED
  BY <1>1, <1>2, <1>3, <1>4, TypedParts
     DEF Typed, TypeOK, Planned, Shaped, Called, Held, Distinct

LEMMA TypedAlways == Spec => []Typed
<1> USE StoreAssumption
<1>1. Init => Typed
  BY TypedInit
<1>2. Typed /\ [Next]_vars => Typed'
  BY TypedStep
<1>3. QED
  BY <1>1, <1>2, PTL DEF Spec

(***************************************************************************)
(* Every variable keeps its type.                                          *)
(***************************************************************************)
THEOREM TypeCorrect == Spec => []TypeOK
<1>1. Typed => TypeOK
  BY DEF Typed
<1>2. QED
  BY <1>1, TypedAlways, PTL

-----------------------------------------------------------------------------
(***************************************************************************)
(* What is live is never cut; where entries come from; what the monitor    *)
(* leaves.                                                                 *)
(***************************************************************************)
LEMMA CutLive ==
    ASSUME NEW d \in Documents, NEW w, Cut(d, w)
    PROVE  Live(w) = Live(d)
<1>1. ASSUME NEW q \in Live(w)
      PROVE  q \in Live(d)
  BY <1>1, CutFrom DEF Live
<1>2. QED
  BY <1>1 DEF Cut, Live

LEMMA Gained ==
    ASSUME Typed, StoreAssumption, NEW r \in Requests, Gains(r)
    PROVE  /\ \E e : /\ e \in Documents /\ Distinct(e) /\ Cut(e, doc')
                     /\ e.positions = doc.positions \cup {NewPosition(r)}
                     /\ e.history = doc.history \cup {NewEntry(r)}
                     /\ e.closed = doc.closed
           /\ NewPosition(r).key = Key(r) /\ NewPosition(r).day = day
           /\ NewPosition(r).status = "OPEN" /\ NewPosition(r).reason = None
           /\ NewEntry(r).key = Key(r) /\ NewEntry(r).exited = FALSE
           /\ NewPosition(r) \in doc'.positions
           /\ \A p \in doc.positions : p.key # Key(r)
           /\ \A p \in Live(doc) : p.key[1] # Key(r)[1]
<1>1. PICK e : e = Entered(doc, r)
  OBVIOUS
<1>2. Cut(e, doc') /\ Plans(r)
  BY <1>1 DEF Gains
<1>3. /\ e \in Documents /\ Distinct(e)
      /\ e.positions = doc.positions \cup {NewPosition(r)}
      /\ e.history = doc.history \cup {NewEntry(r)}
      /\ e.closed = doc.closed
  BY <1>1, <1>2, EnteredIs
<1>4. /\ NewPosition(r).key = Key(r) /\ NewPosition(r).day = day
      /\ NewPosition(r).status = "OPEN" /\ NewPosition(r).reason = None
      /\ NewEntry(r).key = Key(r) /\ NewEntry(r).exited = FALSE
      /\ \A p \in doc.positions : p.key # Key(r)
      /\ \A p \in Live(doc) : p.key[1] # Key(r)[1]
  BY <1>1, <1>2, EnteredIs
<1>5. NewPosition(r) \in doc'.positions
  BY <1>2, <1>3, <1>4 DEF Cut, Live
<1>6. QED
  BY <1>2, <1>3, <1>4, <1>5

LEMMA Moved ==
    ASSUME Typed, StoreAssumption, NEW now \in Evaluations(doc), Moves(now)
    PROVE  /\ Onward(now)
           /\ \A p \in doc.positions \ Monitored(doc) : p.status = "CLOSED"
           /\ \A q \in doc'.positions :
                \/ \E p \in doc.positions \ Monitored(doc) : q = p \/ q = Compact(p)
                \/ \E p \in Monitored(doc) :
                      q = now[p] \/ (now[p].status = "CLOSED" /\ q = Compact(now[p]))
           /\ \A p \in Monitored(doc) : now[p].status # "CLOSED" => now[p] \in doc'.positions
           /\ \A k : k \in filled' <=>
                k \in filled \/ \E p \in Monitored(doc) : p.key = k /\ now[p].status = "CLOSED"
           /\ \A a \in doc'.closed \ doc.closed : \E p \in Monitored(doc) :
                p.key = a.key /\ now[p].status = "CLOSED" /\ a.reason = now[p].reason
           /\ \A h \in doc'.history : \E g \in doc.history :
                /\ h = Stamped(g, Exits(now)) /\ h.key = g.key
                /\ h.exited <=> g.exited \/ \E p \in Monitored(doc) :
                                              p.key = g.key /\ now[p].status = "CLOSED"
<1>1. PICK e : e = Advanced(doc, now)
  OBVIOUS
<1>2. Cut(e, doc') /\ filled' = filled \cup {p.key : p \in Exits(now)}
  BY <1>1 DEF Moves
<1>3. Onward(now) /\ doc \in Documents /\ day \in 1..MaxDays
  BY OnwardIs DEF Typed, TypeOK
<1>4. /\ e \in Documents
      /\ \A q : q \in e.positions <=>
            (q \in doc.positions \ Monitored(doc)) \/ \E p \in Monitored(doc) : q = now[p]
      /\ \A q : q \in Exits(now) <=>
            \E p \in Monitored(doc) : q = now[p] /\ now[p].status = "CLOSED"
      /\ \E d : e.closed = doc.closed \cup {Account(d, p) : p \in Exits(now)}
      /\ e.history = {Stamped(h, Exits(now)) : h \in doc.history}
  BY <1>1, AdvancedIs
<1>5. \A p \in doc.positions \ Monitored(doc) : p.status = "CLOSED"
  BY <1>3 DEF Documents, Positions, Monitored
<1>6. ASSUME NEW q \in doc'.positions
      PROVE  \/ \E p \in doc.positions \ Monitored(doc) : q = p \/ q = Compact(p)
             \/ \E p \in Monitored(doc) :
                   q = now[p] \/ (now[p].status = "CLOSED" /\ q = Compact(now[p]))
  <2>1. PICK p \in e.positions : q = p \/ (p.status = "CLOSED" /\ q = Compact(p))
    BY <1>2 DEF Cut
  <2>2. QED
    BY <1>4, <2>1
<1>7. ASSUME NEW p \in Monitored(doc), now[p].status # "CLOSED"
      PROVE  now[p] \in doc'.positions
  BY <1>2, <1>4, <1>7 DEF Cut, Live
<1>8. \A q \in Exits(now) : \E p \in Monitored(doc) :
        q = now[p] /\ q.key = p.key /\ q.status = "CLOSED" /\ q \in Positions /\ q.reason # None
  BY <1>3, <1>4 DEF Onward
<1>9. \A p \in Monitored(doc) : now[p].status = "CLOSED" => now[p] \in Exits(now)
                                                             /\ now[p].key = p.key
  BY <1>3, <1>4 DEF Onward
<1>10. \A k : (\E q \in Exits(now) : q.key = k)
                <=> \E p \in Monitored(doc) : p.key = k /\ now[p].status = "CLOSED"
  BY <1>8, <1>9
<1>11. \A k : k \in filled' <=>
        k \in filled \/ \E p \in Monitored(doc) : p.key = k /\ now[p].status = "CLOSED"
  BY <1>2, <1>10
<1>12. ASSUME NEW a \in doc'.closed \ doc.closed
       PROVE  \E p \in Monitored(doc) :
                p.key = a.key /\ now[p].status = "CLOSED" /\ a.reason = now[p].reason
  <2>0. PICK d : e.closed = doc.closed \cup {Account(d, p) : p \in Exits(now)}
    BY <1>4
  <2>0a. a \in {Account(d, p) : p \in Exits(now)}
    BY <1>2, <2>0 DEF Cut
  <2>1. PICK q \in Exits(now) : a = Account(d, q)
    BY <2>0a
  <2>2. a.key = q.key /\ a.reason = q.reason
    BY <1>3, <1>8, <2>1, AccountIs
  <2>3. QED
    BY <1>8, <2>2
<1>13. ASSUME NEW h \in doc'.history
       PROVE  \E g \in doc.history :
                /\ h = Stamped(g, Exits(now)) /\ h.key = g.key
                /\ h.exited <=> g.exited \/ \E p \in Monitored(doc) :
                                              p.key = g.key /\ now[p].status = "CLOSED"
  <2>1. PICK g \in doc.history : h = Stamped(g, Exits(now))
    BY <1>2, <1>4 DEF Cut
  <2>2. g \in Entries
    BY <1>3 DEF Documents, Entries
  <2>3. h.key = g.key /\ (h.exited <=> g.exited \/ \E p \in Exits(now) : p.key = g.key)
    BY <2>1, <2>2, StampedIs
  <2>4. QED
    BY <1>10, <2>1, <2>3
<1>14. QED
  BY <1>3, <1>5, <1>6, <1>7, <1>11, <1>12, <1>13

(***************************************************************************)
(* Whoever holds the lock has just read the file (Locked), so the exposure *)
(* it checks is that of the file it replaces; and what is live is never    *)
(* cut.                                                                    *)
(***************************************************************************)
LEMMA OneLiveStep ==
    ASSUME Typed, OneLivePerIndex, DocStep, StoreAssumption
    PROVE  OneLivePerIndex'
<1>1. doc \in Documents
  BY DEF Typed, TypeOK
<1>2. CASE Loses
  BY <1>1, <1>2, CutLive DEF Loses, OneLivePerIndex
<1>3. ASSUME NEW r \in Requests, Gains(r)
      PROVE  OneLivePerIndex'
  <2>1. PICK e : /\ e \in Documents /\ Cut(e, doc')
                 /\ e.positions = doc.positions \cup {NewPosition(r)}
    BY <1>3, Gained
  <2>2. Live(doc') = Live(e) /\ Live(e) \subseteq Live(doc) \cup {NewPosition(r)}
    BY <2>1, CutLive DEF Live
  <2>3. NewPosition(r).key = Key(r) /\ \A p \in Live(doc) : p.key[1] # Key(r)[1]
    BY <1>3, Gained
  <2>4. QED
    BY <2>2, <2>3 DEF OneLivePerIndex
<1>4. ASSUME NEW now \in Evaluations(doc), Moves(now)
      PROVE  OneLivePerIndex'
  <2>1. Onward(now) /\ \A p \in doc.positions \ Monitored(doc) : p.status = "CLOSED"
    BY <1>4, Moved
  <2>2. ASSUME NEW q \in Live(doc')
        PROVE  \E p \in Monitored(doc) : q = now[p]
    <3>1. PICK e : e = Advanced(doc, now)
      OBVIOUS
    <3>2. /\ e \in Documents
          /\ \A s : s \in e.positions <=>
                (s \in doc.positions \ Monitored(doc)) \/ \E p \in Monitored(doc) : s = now[p]
      BY <3>1, AdvancedIs
    <3>3. q \in Live(e)
      BY <1>4, <2>2, <3>1, <3>2, CutLive DEF Moves
    <3>4. QED
      BY <2>1, <3>2, <3>3 DEF Live
  <2>3. ASSUME NEW p \in Monitored(doc), NEW q \in Monitored(doc), p.key[1] = q.key[1]
        PROVE  p = q
    BY <2>1, <2>3 DEF Onward, OneLivePerIndex, Live
  <2>4. QED
    BY <2>1, <2>2, <2>3 DEF OneLivePerIndex, Onward
<1>5. QED
  BY <1>2, <1>3, <1>4, StepCuts

(***************************************************************************)
(* At most one managed position of an index is live (exposure_state as     *)
(* admit checks it), although taps are decided on state that was copied    *)
(* before they waited for the lock.                                        *)
(***************************************************************************)
THEOREM OneLive == Spec => []OneLivePerIndex
<1> USE StoreAssumption
<1>1. Init => OneLivePerIndex
  BY DEF Init, EmptyDoc, OneLivePerIndex, Live
<1>2. Typed /\ OneLivePerIndex /\ [Next]_vars => OneLivePerIndex'
  BY StepKinds, OneLiveStep
<1>3. Spec => []Typed
  BY TypedAlways
<1>4. QED
  BY <1>1, <1>2, <1>3, PTL DEF Spec

-----------------------------------------------------------------------------
(***************************************************************************)
(* Exits.  One that is decided is under way: the monitor has had the       *)
(* position and left it pending or closed.                                 *)
(***************************************************************************)
Decided == \A p \in doc.positions : p.reason # None => p.status # "OPEN"

LEMMA DecidedStep ==
    ASSUME Typed, Decided, DocStep, StoreAssumption
    PROVE  Decided'
<1>1. doc \in Documents
  BY DEF Typed, TypeOK
<1>2. CASE Loses
  BY <1>1, <1>2, CutFrom DEF Loses, Decided
<1>3. ASSUME NEW r \in Requests, Gains(r)
      PROVE  Decided'
  <2>1. PICK e : /\ e \in Documents /\ Cut(e, doc')
                 /\ e.positions = doc.positions \cup {NewPosition(r)}
    BY <1>3, Gained
  <2>2. NewPosition(r).reason = None
    BY <1>3, Gained
  <2>3. QED
    BY <2>1, <2>2, CutFrom DEF Decided
<1>4. ASSUME NEW now \in Evaluations(doc), Moves(now)
      PROVE  Decided'
  <2>1. Onward(now) /\ \A p \in doc.positions \ Monitored(doc) : p.status = "CLOSED"
    BY <1>4, Moved
  <2>2. ASSUME NEW q \in doc'.positions
        PROVE  q.reason # None => q.status # "OPEN"
    <3>1. CASE \E p \in doc.positions \ Monitored(doc) : q = p \/ q = Compact(p)
      BY <1>1, <2>1, <3>1, CompactIs DEF Documents
    <3>2. CASE \E p \in Monitored(doc) :
                 q = now[p] \/ (now[p].status = "CLOSED" /\ q = Compact(now[p]))
      BY <2>1, <3>2, CompactIs DEF Onward, Decided
    <3>3. QED
      BY <1>4, <2>2, <3>1, <3>2, Moved
  <2>3. QED
    BY <2>2 DEF Decided
<1>5. QED
  BY <1>2, <1>3, <1>4, StepCuts

LEMMA CutStands ==
    ASSUME Typed, Decided, NEW e \in Documents, Distinct(e), Cut(e, doc'),
           doc.positions \subseteq e.positions, e.closed = doc.closed
    PROVE  ExitStands
<1>1. doc \in Documents
  BY DEF Typed, TypeOK
<1>2. \A p \in Live(doc) : p \in doc.positions /\ p \in Live(e) /\ p \in Live(doc')
  BY CutLive DEF Live
<1>3. ASSUME NEW p \in Live(doc)
      PROVE  \E q \in Live(doc') :
              /\ q.key = p.key /\ q.request = p.request
              /\ p.reason # None => q.reason = p.reason /\ q.status # "OPEN"
  BY <1>2 DEF Decided
<1>4. ASSUME NEW p \in Live(doc), NEW q \in doc'.positions, q.key = p.key
      PROVE  q = p
  BY <1>2, <1>4 DEF Cut, Distinct, Live
<1>5. ASSUME NEW p \in Closed(doc), NEW q \in doc'.positions, q.key = p.key
      PROVE  q \in {p, Compact(p)}
  BY <1>5, CutFrom DEF Distinct, Closed
<1>6. doc'.closed \ doc.closed = {}
  BY DEF Cut
<1>7. QED
  BY <1>3, <1>4, <1>5, <1>6 DEF ExitStands

LEMMA ExitStep ==
    ASSUME Typed, Decided, DocStep, StoreAssumption
    PROVE  ExitStands
<1>1. doc \in Documents /\ Distinct(doc)
  BY DEF Typed, TypeOK, Planned
<1>2. CASE Loses
  BY <1>1, <1>2, CutStands DEF Loses
<1>3. ASSUME NEW r \in Requests, Gains(r)
      PROVE  ExitStands
  <2>1. \E e : /\ e \in Documents /\ Distinct(e) /\ Cut(e, doc')
               /\ e.positions = doc.positions \cup {NewPosition(r)}
               /\ e.closed = doc.closed
    BY <1>3, Gained
  <2>2. QED
    BY <2>1, CutStands
<1>4. ASSUME NEW now \in Evaluations(doc), Moves(now)
      PROVE  ExitStands
  <2>1. /\ Onward(now)
        /\ \A p \in doc.positions \ Monitored(doc) : p.status = "CLOSED"
        /\ \A p \in Monitored(doc) : now[p].status # "CLOSED" => now[p] \in doc'.positions
    BY <1>4, Moved
  <2>2. \A p \in Live(doc) : p \in Monitored(doc)
    BY <2>1 DEF Live
  <2>3. \A p \in Monitored(doc) : now[p].status = "CLOSED" => p.key \in filled'
    BY <1>4, Moved
  <2>4. ASSUME NEW p \in Live(doc), p.key \notin filled'
        PROVE  \E q \in Live(doc') :
                /\ q.key = p.key /\ q.request = p.request
                /\ p.reason # None => q.reason = p.reason /\ q.status # "OPEN"
    BY <2>1, <2>2, <2>3, <2>4 DEF Onward, Live
  <2>5. ASSUME NEW q \in doc'.positions
        PROVE  \E p \in doc.positions :
                /\ p.key = q.key
                /\ \/ p \in Closed(doc) /\ q \in {p, Compact(p)}
                   \/ p \in Live(doc) /\ (q \in Tombstones(doc') \/ p.reason \in {None, q.reason})
    <3>1. CASE \E p \in doc.positions \ Monitored(doc) : q = p \/ q = Compact(p)
      BY <1>1, <2>1, <3>1, CompactIs DEF Documents, Closed, Live
    <3>2. ASSUME NEW p \in Monitored(doc), q = now[p]
          PROVE  /\ p \in doc.positions /\ p.key = q.key
                 /\ p \in Live(doc) /\ p.reason \in {None, q.reason}
      BY <2>1, <3>2 DEF Onward, Live
    <3>3. ASSUME NEW p \in Monitored(doc), now[p].status = "CLOSED", q = Compact(now[p])
          PROVE  /\ p \in doc.positions /\ p.key = q.key
                 /\ p \in Live(doc) /\ q \in Tombstones(doc')
      BY <2>1, <2>5, <3>3, CompactIs DEF Onward, Live, Tombstones, Closed
    <3>4. QED
      BY <1>4, <2>5, <3>1, <3>2, <3>3, Moved
  <2>6. ASSUME NEW p \in Live(doc), NEW q \in doc'.positions, q.key = p.key
        PROVE  q \in Tombstones(doc') \/ p.reason \in {None, q.reason}
    BY <1>1, <2>5, <2>6 DEF Distinct, Live, Closed
  <2>7. ASSUME NEW p \in Closed(doc), NEW q \in doc'.positions, q.key = p.key
        PROVE  q \in {p, Compact(p)}
    BY <1>1, <2>5, <2>7 DEF Distinct, Live, Closed
  <2>8. ASSUME NEW a \in doc'.closed \ doc.closed
        PROVE  \E p \in Live(doc) :
                a.key = p.key /\ a.key \in filled' /\ p.reason \in {None, a.reason}
    <3>1. PICK p \in Monitored(doc) :
            p.key = a.key /\ now[p].status = "CLOSED" /\ a.reason = now[p].reason
      BY <1>4, Moved
    <3>2. QED
      BY <2>1, <2>3, <3>1 DEF Onward, Live
  <2>9. QED
    BY <2>4, <2>6, <2>7, <2>8 DEF ExitStands
<1>5. QED
  BY <1>2, <1>3, <1>4, StepCuts

(***************************************************************************)
(* A decided exit is final, whatever is cut: the position stays until the  *)
(* exit is filled, a closed one changes only by losing its evidence, and   *)
(* an account gives the reason that was decided.                           *)
(***************************************************************************)
THEOREM ExitsAreFinal == Spec => ExitsStand
<1> USE StoreAssumption
<1>1. Init => Decided
  BY DEF Init, EmptyDoc, Decided
<1>2. Typed /\ Decided /\ [Next]_vars => Decided'
  BY StepKinds, DecidedStep
<1>3. Typed /\ Decided /\ [Next]_vars => [ExitStands]_doc
  BY StepKinds, ExitStep
<1>4. QED
  BY <1>1, <1>2, <1>3, TypedAlways, PTL DEF Spec, ExitsStand

-----------------------------------------------------------------------------
(***************************************************************************)
(* Time.  Nobody plans a proposal that is not published, every position    *)
(* was entered, and one whose proposal may still be admitted is of this    *)
(* session: when a session ends, all that was published is too old.        *)
(***************************************************************************)
Dated ==
    /\ \A i \in Indices : aged[i] <= decision[i]
    /\ \A r \in Requests : seen[r] # None => seen[r].decision <= decision[IndexOf[r]]
    /\ \A e \in entered : e[2][2] <= decision[e[2][1]]
    /\ \A p \in doc.positions : \E e \in entered : e[2] = p.key
    /\ \A p \in doc.positions : p.key[2] > aged[p.key[1]] => p.day = day
    /\ \A a \in doc.closed : a.exit <= day
    /\ IsFiniteSet(doc.positions)

\* A step writes the document at one point in time, or time passes.
Writes ==
    /\ UNCHANGED <<decision, aged, day>>
    /\ \A r \in Requests :
        seen'[r] \in {seen[r], None} \/ seen'[r].decision = decision[IndexOf[r]]

Passing ==
    /\ UNCHANGED <<doc, past>>
    /\ \A r \in Requests : seen'[r] \in {seen[r], None}
    /\ \A i \in Indices : decision[i] <= decision'[i]
    /\ \A i \in Indices : aged'[i] \in {aged[i], decision[i]}
    /\ day' = day \/ (day' = day + 1 /\ aged' = decision /\ UNCHANGED decision)

LEMMA StepTimes ==
    ASSUME Typed, [Next]_vars, StoreAssumption
    PROVE  Writes \/ Passing
<1>1. Shaped /\ Called
  BY TypedParts
<1>2. ASSUME NEW r \in Requests, Tap(r)
      PROVE  Writes
  <2>1. CASE Submit(r) \/ Answered(r) \/ TimesOut(r) \/ Reconcile(r) \/ Expire(r) \/ Status(r)
    BY <1>1, <2>1 DEF Submit, Answered, TimesOut, Reconcile, Expire, Status, world, native,
                      Writes, Called
  <2>2. CASE Run(r)
    BY <1>1, <2>2 DEF Run, world, State, Writes, Called
  <2>3. CASE Commit(r)
    BY <1>1, <2>3 DEF Commit, world, Writes, Called
  <2>4. QED
    BY <1>2, <2>1, <2>2, <2>3 DEF Tap
<1>3. ASSUME NEW r \in Requests, Admission(r)
      PROVE  Writes
  BY <1>3 DEF Admission, LockTimeout, Enter, ProbeRefuses, Probe, Duplicate, Reject, Open,
              StoreFull, world, native, Writes
<1>4. CASE Monitor
  BY <1>4 DEF Monitor, world, native, Writes
<1>5. CASE World
  <2>1. ASSUME NEW i \in Indices, Publish(i)
        PROVE  Passing
    BY <1>1, <2>1 DEF Publish, native, Passing, Shaped
  <2>2. ASSUME NEW i \in Indices, HalfHour(i)
        PROVE  Passing
    BY <1>1, <2>2 DEF HalfHour, native, Passing, Shaped
  <2>3. CASE ChangeSettings
    BY <1>1, <2>3 DEF ChangeSettings, native, Passing, Shaped
  <2>4. CASE SessionMoves
    BY <1>1, <2>4 DEF SessionMoves, native, Passing, Shaped
  <2>5. CASE (\E r \in Requests : ClockAdvances(r) \/ ClockSetBack(r)) \/ ProcessDies
    BY <1>1, <2>5 DEF ClockAdvances, ClockSetBack, ProcessDies, world, native, Passing, Shaped
  <2>6. QED
    BY <1>5, <2>1, <2>2, <2>3, <2>4, <2>5 DEF World
<1>6. CASE UNCHANGED vars
  BY <1>6 DEF vars, world, native, Writes
<1>7. QED
  BY <1>2, <1>3, <1>4, <1>5, <1>6 DEF Next

LEMMA CutFinite ==
    ASSUME NEW d \in Documents, NEW w, Cut(d, w), IsFiniteSet(d.positions)
    PROVE  IsFiniteSet(w.positions)
<1>1. \A x \in w.positions : \E y \in d.positions : y.key = x.key
  BY CutFrom
<1>2. \A x, y \in w.positions : x.key = y.key => x = y
  BY DEF Cut, Distinct
<1>3. QED
  BY <1>1, <1>2, NoMore

LEMMA AdvancedFinite ==
    ASSUME Typed, StoreAssumption, IsFiniteSet(doc.positions), NEW now \in Evaluations(doc),
           NEW e, e = Advanced(doc, now)
    PROVE  /\ IsFiniteSet(e.positions)
           /\ Cardinality(e.positions) <= Cardinality(doc.positions)
           /\ \A q \in e.positions : \E p \in doc.positions : p.key = q.key /\ p.day = q.day
<1>1. Distinct(e) /\ \A q \in e.positions :
        (q \in doc.positions \ Monitored(doc)) \/ \E p \in Monitored(doc) : q = now[p]
  BY AdvancedIs
<1>2. \A q \in e.positions : \E p \in doc.positions : p.key = q.key /\ p.day = q.day
  BY <1>1, OnwardIs DEF Onward
<1>3. QED
  BY <1>1, <1>2, NoMore DEF Distinct

LEMMA DatedWrites ==
    ASSUME Typed, Dated, DocStep, Writes, StoreAssumption
    PROVE  Dated'
<1>1. doc \in Documents /\ day \in 1..MaxDays /\ decision \in [Indices -> 0..MaxDecisions]
  BY DEF Typed, TypeOK
<1>2. \A r \in Requests : seen'[r] # None => seen'[r].decision <= decision[IndexOf[r]]
  BY <1>1 DEF Dated, Writes, StoreAssumption
<1> DEFINE Keyed(k) == (\E e \in entered' : e[2] = k)
           Fresh(k, d) == k[2] > aged[k[1]] => d = day
<1>3. CASE Loses
  <2>1. Cut(doc, doc') /\ UNCHANGED past
    BY <1>3 DEF Loses
  <2>2. \A q \in doc'.positions : \E p \in doc.positions : q.key = p.key /\ q.day = p.day
    BY <1>1, <2>1, CutFrom
  <2>3. IsFiniteSet(doc'.positions)
    BY <1>1, <2>1, CutFinite DEF Dated
  <2>4. QED
    BY <1>2, <2>1, <2>2, <2>3 DEF Dated, Writes, past, Cut
<1>4. ASSUME NEW r \in Requests, Gains(r)
      PROVE  Dated'
  <2>1. PICK e : /\ e \in Documents /\ Cut(e, doc')
                 /\ e.positions = doc.positions \cup {NewPosition(r)}
                 /\ e.closed = doc.closed
    BY <1>4, Gained
  <2>2. NewPosition(r).key = Key(r) /\ NewPosition(r).day = day
    BY <1>4, Gained
  <2>3. /\ seen[r] \in States /\ Key(r)[1] = IndexOf[r] /\ Key(r)[2] = seen[r].decision
        /\ entered' = entered \cup {<<r, Key(r)>>}
    BY <1>4 DEF Gains, Plans, Key
  <2>4. seen[r] # None
    BY <2>3 DEF StoreAssumption
  <2>5. \A x \in entered' : x[2][2] <= decision[x[2][1]]
    BY <2>3, <2>4 DEF Dated
  <2>6. \A q \in doc'.positions : \E p \in e.positions : q.key = p.key /\ q.day = p.day
    BY <2>1, CutFrom
  <2>7a. \A p \in doc.positions : Keyed(p.key) /\ Fresh(p.key, p.day)
    BY <2>3 DEF Dated
  <2>7b. <<r, Key(r)>> \in entered' /\ <<r, Key(r)>>[2] = Key(r)
    BY <2>3
  <2>7. \A p \in e.positions : Keyed(p.key) /\ Fresh(p.key, p.day)
    BY <2>1, <2>2, <2>7a, <2>7b
  <2>8. IsFiniteSet(e.positions)
    BY <2>1, FS_AddElement DEF Dated
  <2>9. IsFiniteSet(doc'.positions)
    BY <2>1, <2>8, CutFinite
  <2>10. QED
    BY <1>2, <2>1, <2>5, <2>6, <2>7, <2>9 DEF Dated, Writes, Cut
<1>5. ASSUME NEW now \in Evaluations(doc), Moves(now)
      PROVE  Dated'
  <2>1. PICK e : e = Advanced(doc, now)
    OBVIOUS
  <2>2. Cut(e, doc') /\ UNCHANGED entered
    BY <1>5, <2>1 DEF Moves
  <2>3. /\ e \in Documents /\ IsFiniteSet(e.positions)
        /\ \A q \in e.positions : \E p \in doc.positions : p.key = q.key /\ p.day = q.day
    BY <2>1, AdvancedIs, AdvancedFinite DEF Dated
  <2>4. \A q \in doc'.positions : \E p \in doc.positions : q.key = p.key /\ q.day = p.day
    BY <2>2, <2>3, CutFrom
  <2>5. IsFiniteSet(doc'.positions)
    BY <2>2, <2>3, CutFinite
  <2>6. ASSUME NEW a \in doc'.closed
        PROVE  a.exit <= day
    <3>1. PICK d : e.closed = doc.closed \cup {Account(d, p) : p \in Exits(now)}
      BY <2>1, AdvancedIs
    <3>2. a \in doc.closed \/ \E p \in Exits(now) : a = Account(d, p)
      BY <2>2, <3>1 DEF Cut
    <3>3. \A p \in Exits(now) : p \in Positions /\ p.reason # None
      BY <2>1, AdvancedIs, OnwardIs DEF Onward
    <3>4. QED
      BY <1>1, <3>2, <3>3, AccountIs DEF Dated
  <2>7. QED
    BY <1>2, <2>2, <2>4, <2>5, <2>6 DEF Dated, Writes
<1>6. QED
  BY <1>3, <1>4, <1>5, StepCuts

LEMMA DatedPasses ==
    ASSUME Typed, Dated, Passing, Shaped', StoreAssumption
    PROVE  Dated' /\ \A i \in Indices : aged[i] <= aged'[i]
<1>1. /\ doc \in Documents /\ day \in 1..MaxDays /\ UNCHANGED <<doc, past>>
      /\ \A i \in Indices : decision[i] \in Nat /\ aged[i] \in Nat /\ decision'[i] \in Nat
      /\ entered \subseteq Requests \X Keys
  BY DEF Typed, TypeOK, Shaped, Passing
<1>2. \A e \in entered : e[2][1] \in Indices /\ e[2][2] \in Nat
  BY <1>1 DEF Keys
<1>3. \A i \in Indices : aged[i] <= aged'[i] /\ aged'[i] <= decision'[i]
  BY <1>1 DEF Dated, Passing
<1>4. \A r \in Requests : seen'[r] # None => seen'[r].decision <= decision'[IndexOf[r]]
  <2>1. ASSUME NEW r \in Requests, seen'[r] # None
        PROVE  seen'[r].decision <= decision'[IndexOf[r]]
    <3>1. seen'[r] = seen[r] /\ seen[r] \in States
      BY <2>1 DEF Passing, Typed, TypeOK
    <3>2. seen[r].decision \in Nat /\ seen[r].decision <= decision[IndexOf[r]]
      BY <2>1, <3>1 DEF States, Dated
    <3>3. IndexOf[r] \in Indices
      BY DEF StoreAssumption
    <3>4. decision[IndexOf[r]] <= decision'[IndexOf[r]]
      BY <3>3 DEF Passing
    <3>5. QED
      BY <1>1, <3>1, <3>2, <3>3, <3>4
  <2>2. QED
    BY <2>1
<1>5. \A e \in entered : e[2][2] <= decision'[e[2][1]]
  <2>1. ASSUME NEW e \in entered
        PROVE  e[2][2] <= decision'[e[2][1]]
    <3>1. e[2][2] <= decision[e[2][1]] /\ decision[e[2][1]] <= decision'[e[2][1]]
      BY <1>2 DEF Dated, Passing
    <3>2. QED
      BY <1>1, <1>2, <3>1
  <2>2. QED
    BY <2>1
<1>6. \A p \in doc.positions : p.key[2] > aged'[p.key[1]] => p.day = day'
  <2>1. ASSUME NEW p \in doc.positions, p.key[2] > aged'[p.key[1]]
        PROVE  p.day = day'
    <3>1. PICK e \in entered : e[2] = p.key
      BY DEF Dated
    <3>2. /\ p.key[1] \in Indices /\ p.key[2] \in Nat
          /\ p.key[2] <= decision[p.key[1]]
      BY <1>2, <3>1 DEF Dated
    <3>3. aged'[p.key[1]] \in Nat /\ aged[p.key[1]] <= aged'[p.key[1]]
      BY <1>1, <1>3, <3>2 DEF Passing
    <3>4. ~(aged' = decision)
      BY <1>1, <2>1, <3>2
    <3>5. p.key[2] > aged[p.key[1]]
      BY <1>1, <2>1, <3>2, <3>3
    <3>6. QED
      BY <3>4, <3>5 DEF Dated, Passing
  <2>2. QED
    BY <2>1
<1>7. \A a \in doc.closed : a.exit <= day'
  <2>1. \A a \in doc.closed : a.exit \in Nat /\ a.exit <= day
    BY <1>1 DEF Documents, Accounts, Dated
  <2>2. day \in Nat /\ (day' = day \/ day' = day + 1)
    BY <1>1 DEF Passing
  <2>3. QED
    BY <2>1, <2>2
<1>8. QED
  BY <1>1, <1>3, <1>4, <1>5, <1>6, <1>7 DEF Dated, past

LEMMA DatedAlways == Spec => []Dated
<1> USE StoreAssumption
<1>1. Init => Dated
  BY FS_EmptySet DEF Init, EmptyDoc, Dated
<1>2. Typed /\ Dated /\ [Next]_vars => Dated'
  BY StepKinds, StepTimes, DatedWrites, DatedPasses, ShapedStep
<1>3. QED
  BY <1>1, <1>2, TypedAlways, PTL DEF Spec

-----------------------------------------------------------------------------
(***************************************************************************)
(* While the tombstones have room, no position of the session is dropped.  *)
(***************************************************************************)
TombstonesFit == Cardinality(doc.positions) <= MaxTombstones

LEMMA FewAre ==
    ASSUME NEW d, IsFiniteSet(d.positions), Cardinality(d.positions) <= MaxTombstones,
           StoreAssumption
    PROVE  Few(d)
<1>1. Closed(d) \subseteq d.positions
  BY DEF Closed
<1>2. /\ IsFiniteSet(Closed(d)) /\ Cardinality(Closed(d)) <= Cardinality(d.positions)
      /\ Cardinality(Closed(d)) \in Nat /\ Cardinality(d.positions) \in Nat
  BY <1>1, FS_Subset, FS_CardinalityType
<1>3. QED
  BY <1>2 DEF Few, StoreAssumption

LEMMA StepKeeps ==
    ASSUME Typed, Dated, TombstonesFit, DocStep, StoreAssumption
    PROVE  \A p \in doc.positions : p.day = day => \E q \in doc'.positions : q.key = p.key
<1>1. /\ doc \in Documents /\ Distinct(doc) /\ day \in 1..MaxDays
      /\ \A p \in doc.positions : p.day <= day
      /\ \A a \in doc.closed : a.exit <= day
      /\ IsFiniteSet(doc.positions)
  BY DEF Typed, TypeOK, Planned, Dated
<1>2. Few(doc)
  BY <1>1, FewAre DEF TombstonesFit
<1>3. CASE UNCHANGED <<doc, past>>
  BY <1>3
<1>4. ASSUME NEW r \in Requests, NEW outcome \in {"REJECTED", "DUPLICATE_IGNORED"},
             Records(r, outcome)
      PROVE  \A p \in doc.positions : p.day = day => \E q \in doc'.positions : q.key = p.key
  BY <1>1, <1>2, <1>4, RecordingKeeps DEF Records, Outcomes
<1>5. ASSUME NEW r \in Requests, Plans(r), NEW d \in Recording(Entered(doc, r), r, "ADMITTED")
      PROVE  /\ d \in Documents /\ Cut(Entered(doc, r), d)
             /\ \A p \in doc.positions : p.day = day =>
                  \E q \in d.positions : q.key = p.key /\ q.day = day
  <2>1. PICK e : e = Entered(doc, r)
    OBVIOUS
  <2>2. /\ e \in Documents /\ Distinct(e)
        /\ e.positions = doc.positions \cup {NewPosition(r)} /\ e.closed = doc.closed
        /\ NewPosition(r).day = day /\ NewPosition(r).status = "OPEN"
    BY <1>5, <2>1, EnteredIs
  <2>3. Few(e)
    <3>1. Closed(e) = Closed(doc)
      BY <2>2 DEF Closed, Live
    <3>2. QED
      BY <1>2, <3>1 DEF Few
  <2>4. d \in Recording(e, r, "ADMITTED") /\ "ADMITTED" \in Outcomes
    BY <2>1 DEF Outcomes
  <2>5. \A p \in e.positions : p.day <= day
    BY <1>1, <2>2
  <2>6. \A a \in e.closed : a.exit <= day
    BY <1>1, <2>2
  <2>7. \A p \in e.positions : p.day = day =>
          \E q \in d.positions : q.key = p.key /\ q.day = day
    BY <1>1, <2>2, <2>3, <2>4, <2>5, <2>6, RecordingKeeps
  <2>8. d \in Documents /\ Cut(e, d)
    BY <2>2, <2>4, RecordingIs
  <2>9. QED
    BY <2>1, <2>2, <2>7, <2>8
<1>6. ASSUME NEW r \in Requests, Enters(r)
      PROVE  \A p \in doc.positions : p.day = day => \E q \in doc'.positions : q.key = p.key
  BY <1>5, <1>6 DEF Enters
<1>7. ASSUME NEW r \in Requests, Overflows(r)
      PROVE  \A p \in doc.positions : p.day = day => \E q \in doc'.positions : q.key = p.key
  <2>1. PICK d \in Recording(Entered(doc, r), r, "ADMITTED") :
          doc' \in Recording(TakenBack(d, r), r, "REJECTED")
    BY <1>7 DEF Overflows
  <2>2. /\ Plans(r) /\ d \in Documents /\ Cut(Entered(doc, r), d)
        /\ \A p \in doc.positions : p.day = day =>
              \E q \in d.positions : q.key = p.key /\ q.day = day
    BY <1>5, <1>7, <2>1 DEF Overflows
  <2>3. PICK t : t = TakenBack(d, r)
    OBVIOUS
  <2>4. /\ t \in Documents /\ Distinct(t) /\ Cut(doc, t)
        /\ \A q \in d.positions : q.key # Key(r) => q \in t.positions
    BY <2>2, <2>3, TakenBackIs
  <2>5. \A p \in doc.positions : p.key # Key(r)
    BY <2>2 DEF Plans, Duplicates
  <2>6. Few(t)
    BY <1>1, <1>2, <2>4, FewCut
  <2>7. /\ \A q \in t.positions : q.day <= day
        /\ \A a \in t.closed : a.exit <= day
    BY <1>1, <2>4, CutFrom DEF Cut
  <2>8. doc' \in Recording(t, r, "REJECTED") /\ "REJECTED" \in Outcomes
    BY <2>1, <2>3 DEF Outcomes
  <2>9. \A p \in t.positions : p.day = day =>
          \E q \in doc'.positions : q.key = p.key /\ q.day = day
    BY <1>1, <2>4, <2>6, <2>7, <2>8, RecordingKeeps
  <2>10. QED
    BY <2>2, <2>4, <2>5, <2>9
<1>8. ASSUME Advances
      PROVE  \A p \in doc.positions : p.day = day => \E q \in doc'.positions : q.key = p.key
  <2>1. PICK now \in Evaluations(doc) : doc' \in Bounded(Advanced(doc, now))
    BY <1>8 DEF Advances
  <2>2. PICK e : e = Advanced(doc, now)
    OBVIOUS
  <2>3. e \in Documents /\ Distinct(e)
    BY <2>2, AdvancedIs
  <2>4. /\ IsFiniteSet(e.positions)
        /\ Cardinality(e.positions) <= Cardinality(doc.positions)
        /\ \A q \in e.positions : \E p \in doc.positions : p.key = q.key /\ p.day = q.day
    BY <1>1, <2>2, AdvancedFinite
  <2>5. Few(e)
    <3>1. Cardinality(e.positions) \in Nat /\ Cardinality(doc.positions) \in Nat
      BY <1>1, <2>4, FS_CardinalityType
    <3>2. Cardinality(e.positions) <= MaxTombstones
      BY <2>4, <3>1 DEF TombstonesFit, StoreAssumption
    <3>3. QED
      BY <2>4, <3>2, FewAre
  <2>6. \A q \in e.positions : q.day <= day
    BY <1>1, <2>4
  <2>7. ASSUME NEW a \in e.closed
        PROVE  a.exit <= day
    <3>1. PICK d : e.closed = doc.closed \cup {Account(d, p) : p \in Exits(now)}
      BY <2>2, AdvancedIs
    <3>2. \A p \in Exits(now) : p \in Positions /\ p.reason # None
      BY <2>2, AdvancedIs, OnwardIs DEF Onward
    <3>3. QED
      BY <1>1, <3>1, <3>2, AccountIs
  <2>8. \A p \in e.positions : p.day = day =>
          \E q \in doc'.positions : q.key = p.key /\ q.day = day
    BY <1>1, <2>1, <2>2, <2>3, <2>5, <2>6, <2>7, BoundedKeeps
  <2>9. ASSUME NEW p \in doc.positions, p.day = day
        PROVE  \E q \in e.positions : q.key = p.key /\ q.day = day
    BY <2>2, <2>9, AdvancedIs, OnwardIs DEF Onward
  <2>10. QED
    BY <2>8, <2>9
<1>9. QED
  BY <1>3, <1>4, <1>6, <1>7, <1>8 DEF DocStep

-----------------------------------------------------------------------------
(***************************************************************************)
(* Positions, entries and accounts without their numbers.  A document tells *)
(* the story of the taps entered (E, with their keys) and of the exits     *)
(* filled (F): keys identify taps, entries and accounts, all of them have  *)
(* their tap, exactly the closed positions and stamped entries are of      *)
(* filled exits, and a position is only missing when its exit was filled   *)
(* and its proposal is too old.                                            *)
(***************************************************************************)
Taps(E, F) ==
    /\ \A e, f \in E : e[2] = f[2] => e = f
    /\ \A k \in F : \E e \in E : e[2] = k

Placed(d, E, F) ==
    /\ \A p \in d.positions : p.status = "CLOSED" <=> p.key \in F
    /\ \A p \in d.positions : \E e \in E : e[2] = p.key

Stamps(d, E, F) ==
    /\ \A g, h \in d.history : g.key = h.key => g = h
    /\ \A h \in d.history : h.exited <=> h.key \in F
    /\ \A h \in d.history : \E e \in E : e[2] = h.key

Accounting(d, F) ==
    /\ \A a, b \in d.closed : a.key = b.key => a = b
    /\ \A a \in d.closed : a.key \in F
    /\ \A a \in d.closed, p \in d.positions : p.key = a.key => p.reason \in {None, a.reason}

Known(d, k) == \E p \in d.positions : p.key = k

Remembered(d, E, F) ==
    \A e \in E : (e[2][2] > aged[e[2][1]] \/ e[2] \notin F) => Known(d, e[2])

OneStory(d, E, F) ==
    Taps(E, F) /\ Placed(d, E, F) /\ Stamps(d, E, F) /\ Accounting(d, F) /\ Remembered(d, E, F)

LEMMA CutStory ==
    ASSUME NEW d \in Documents, NEW w, Cut(d, w), NEW E, NEW F, OneStory(d, E, F),
           \A p \in d.positions : p.key[2] > aged[p.key[1]] => Known(w, p.key)
    PROVE  OneStory(w, E, F)
<1>1. ASSUME NEW q \in w.positions
      PROVE  \E p \in d.positions :
                q.key = p.key /\ q.status = p.status /\ q.reason \in {None, p.reason}
  BY CutFrom
<1>2. Placed(w, E, F)
  BY <1>1 DEF OneStory, Placed
<1>3. Stamps(w, E, F)
  BY DEF OneStory, Stamps, Cut
<1>4. Accounting(w, F)
  BY <1>1 DEF OneStory, Accounting, Cut
<1>5. ASSUME NEW e \in E, e[2][2] > aged[e[2][1]] \/ e[2] \notin F
      PROVE  Known(w, e[2])
  <2>1. PICK p \in d.positions : p.key = e[2]
    BY <1>5 DEF OneStory, Remembered, Known
  <2>2. CASE e[2][2] > aged[e[2][1]]
    BY <2>1, <2>2
  <2>3. CASE e[2] \notin F
    <3>1. p \in w.positions
      BY <2>1, <2>3 DEF OneStory, Placed, Cut, Live
    <3>2. QED
      BY <2>1, <3>1 DEF Known
  <2>4. QED
    BY <1>5, <2>2, <2>3
<1>6. QED
  BY <1>2, <1>3, <1>4, <1>5 DEF OneStory, Remembered

(***************************************************************************)
(* A position is entered: its proposal may be admitted, so it would be     *)
(* known if it had been entered before.                                    *)
(***************************************************************************)
LEMMA EnteredStory ==
    ASSUME Typed, StoreAssumption, NEW r \in Requests, Plans(r),
           OneStory(doc, entered, filled), NEW e, e = Entered(doc, r)
    PROVE  OneStory(e, entered \cup {<<r, Key(r)>>}, filled)
<1> DEFINE E == entered \cup {<<r, Key(r)>>}
<1>1. /\ NewPosition(r).key = Key(r) /\ NewPosition(r).status = "OPEN"
      /\ NewPosition(r).reason = None
      /\ NewEntry(r).key = Key(r) /\ NewEntry(r).exited = FALSE
      /\ e.positions = doc.positions \cup {NewPosition(r)}
      /\ e.history = doc.history \cup {NewEntry(r)}
      /\ e.closed = doc.closed
      /\ \A p \in doc.positions : p.key # Key(r)
  BY EnteredIs
<1>2. Key(r)[2] > aged[Key(r)[1]]
  BY DEF Plans, Key
<1>3. \A x \in entered : x[2] # Key(r)
  BY <1>1, <1>2 DEF OneStory, Remembered, Known
<1>4. Key(r) \notin filled
  BY <1>3 DEF OneStory, Taps
<1>5. \A x \in E : x[2] = Key(r) \/ x \in entered
  OBVIOUS
<1>6. entered \subseteq E /\ \E x \in E : x[2] = Key(r)
  <2>1. <<r, Key(r)>> \in E /\ <<r, Key(r)>>[2] = Key(r)
    OBVIOUS
  <2>2. QED
    BY <2>1
<1>7. \A x, y \in E : x[2] = y[2] => x = y
  <2>1. \A x \in E : x[2] = Key(r) => x = <<r, Key(r)>>
    BY <1>3
  <2>2. QED
    BY <1>5, <2>1 DEF OneStory, Taps
<1> HIDE DEF E
<1>8. Taps(E, filled)
  BY <1>6, <1>7 DEF OneStory, Taps
<1>9. Placed(e, E, filled)
  BY <1>1, <1>4, <1>6 DEF OneStory, Placed
<1>10. Stamps(e, E, filled)
  <2>1. \A h \in doc.history : h.key # Key(r)
    BY <1>3 DEF OneStory, Stamps
  <2>2. \A g, h \in e.history : g.key = h.key => g = h
    BY <1>1, <2>1 DEF OneStory, Stamps
  <2>3. \A h \in e.history : h.exited <=> h.key \in filled
    BY <1>1, <1>4 DEF OneStory, Stamps
  <2>4. \A h \in e.history : \E x \in E : x[2] = h.key
    BY <1>1, <1>6 DEF OneStory, Stamps
  <2>5. QED
    BY <2>2, <2>3, <2>4 DEF Stamps
<1>11. Accounting(e, filled)
  BY <1>1 DEF OneStory, Accounting
<1>12. Remembered(e, E, filled)
  BY <1>1, <1>5 DEF OneStory, Remembered, Known
<1>13. QED
  BY <1>8, <1>9, <1>10, <1>11, <1>12 DEF OneStory, E

(***************************************************************************)
(* Exits are filled: with the position its entry is stamped, and it gets   *)
(* its only account.                                                       *)
(***************************************************************************)
LEMMA AdvancedStory ==
    ASSUME Typed, StoreAssumption, NEW now \in Evaluations(doc),
           OneStory(doc, entered, filled), NEW e, e = Advanced(doc, now),
           NEW F, F = filled \cup {p.key : p \in Exits(now)}
    PROVE  OneStory(e, entered, F)
<1>1. /\ e \in Documents /\ Distinct(e)
      /\ \A q : q \in e.positions <=>
            (q \in doc.positions \ Monitored(doc)) \/ \E p \in Monitored(doc) : q = now[p]
      /\ \A q : q \in Exits(now) <=>
            \E p \in Monitored(doc) : q = now[p] /\ now[p].status = "CLOSED"
      /\ \E d : e.closed = doc.closed \cup {Account(d, p) : p \in Exits(now)}
      /\ e.history = {Stamped(h, Exits(now)) : h \in doc.history}
  BY AdvancedIs
<1>2. Onward(now) /\ doc \in Documents /\ Distinct(doc) /\ day \in 1..MaxDays
  BY OnwardIs DEF Typed, TypeOK, Planned
<1>3. \A p \in doc.positions \ Monitored(doc) : p.status = "CLOSED"
  BY <1>2 DEF Documents, Positions, Monitored
<1>4. /\ \A p \in doc.positions : p.status = "CLOSED" <=> p.key \in filled
      /\ \A p \in Monitored(doc) : p.key \notin filled
  BY <1>2 DEF OneStory, Placed, Onward
<1>5. \A q \in Exits(now) :
        /\ q \in e.positions /\ q \in Positions /\ q.status = "CLOSED" /\ q.reason # None
        /\ \E p \in Monitored(doc) : q = now[p] /\ q.key = p.key
  BY <1>1, <1>2 DEF Onward
<1>6. \A k : k \in F <=> k \in filled \/ \E q \in Exits(now) : q.key = k
  OBVIOUS
<1>7. \A q \in Exits(now) : q.key \notin filled
  BY <1>4, <1>5
<1>8. \A q \in e.positions : \E p \in doc.positions : p.key = q.key
  BY <1>1, <1>2 DEF Onward
<1>9. Taps(entered, F)
  <2>1. ASSUME NEW k \in F
        PROVE  \E x \in entered : x[2] = k
    <3>1. CASE k \in filled
      BY <3>1 DEF OneStory, Taps
    <3>2. ASSUME NEW q \in Exits(now), q.key = k
          PROVE  \E x \in entered : x[2] = k
      BY <1>5, <1>8, <3>2 DEF OneStory, Placed
    <3>3. QED
      BY <1>6, <2>1, <3>1, <3>2
  <2>2. QED
    BY <2>1 DEF OneStory, Taps
<1>10. Placed(e, entered, F)
  <2>1. ASSUME NEW q \in e.positions, q \in doc.positions \ Monitored(doc)
        PROVE  q.status = "CLOSED" /\ q.key \in F
    BY <1>3, <1>4, <1>6, <2>1
  <2>2. ASSUME NEW q \in e.positions, NEW p \in Monitored(doc), q = now[p]
        PROVE  q.status = "CLOSED" <=> q.key \in F
    <3>1. q.key = p.key /\ q.key \notin filled
      BY <1>2, <1>4, <2>2 DEF Onward
    <3>2. q.status = "CLOSED" => q \in Exits(now)
      BY <1>1, <2>2
    <3>3. ASSUME NEW x \in Exits(now), x.key = q.key
          PROVE  q.status = "CLOSED"
      BY <1>1, <1>5, <3>3 DEF Distinct
    <3>4. QED
      BY <1>6, <3>1, <3>2, <3>3
  <2>3. \A q \in e.positions : \E x \in entered : x[2] = q.key
    BY <1>8 DEF OneStory, Placed
  <2>4. QED
    BY <1>1, <2>1, <2>2, <2>3 DEF Placed
<1>11. Stamps(e, entered, F)
  <2>1. ASSUME NEW h \in e.history
        PROVE  \E g \in doc.history :
                /\ h = Stamped(g, Exits(now)) /\ h.key = g.key
                /\ h.exited <=> g.exited \/ \E p \in Exits(now) : p.key = g.key
    <3>1. PICK g \in doc.history : h = Stamped(g, Exits(now))
      BY <1>1
    <3>2. g \in Entries
      BY <1>2 DEF Documents, Entries
    <3>3. QED
      BY <3>1, <3>2, StampedIs
  <2>2. \A g, h \in e.history : g.key = h.key => g = h
    BY <2>1 DEF OneStory, Stamps
  <2>3. \A h \in e.history : h.exited <=> h.key \in F
    BY <1>6, <2>1 DEF OneStory, Stamps
  <2>4. \A h \in e.history : \E x \in entered : x[2] = h.key
    BY <2>1 DEF OneStory, Stamps
  <2>5. QED
    BY <2>2, <2>3, <2>4 DEF Stamps
<1>12. Accounting(e, F)
  <2>1. PICK d : e.closed = doc.closed \cup {Account(d, p) : p \in Exits(now)}
    BY <1>1
  <2>2. ASSUME NEW a \in e.closed
        PROVE  \/ a \in doc.closed /\ a.key \in filled
               \/ \E q \in Exits(now) : /\ a = Account(d, q)
                                        /\ a.key = q.key /\ a.reason = q.reason
    <3>1. CASE a \in doc.closed
      BY <3>1 DEF OneStory, Accounting
    <3>2. ASSUME NEW q \in Exits(now), a = Account(d, q)
          PROVE  a.key = q.key /\ a.reason = q.reason
      BY <1>2, <1>5, <3>2, AccountIs
    <3>3. QED
      BY <2>1, <2>2, <3>1, <3>2
  <2>3. \A x, y \in Exits(now) : x.key = y.key => x = y
    BY <1>1, <1>5 DEF Distinct
  <2>4. \A a, b \in e.closed : a.key = b.key => a = b
    BY <1>7, <2>2, <2>3 DEF OneStory, Accounting
  <2>5. \A a \in e.closed : a.key \in F
    BY <1>6, <2>2
  <2>6. ASSUME NEW a \in e.closed, NEW p \in e.positions, p.key = a.key
        PROVE  p.reason \in {None, a.reason}
    <3>1. CASE a \in doc.closed /\ a.key \in filled
      <4>1. p \in doc.positions
        BY <1>1, <1>2, <1>4, <2>6, <3>1 DEF Onward
      <4>2. QED
        BY <2>6, <3>1, <4>1 DEF OneStory, Accounting
    <3>2. ASSUME NEW q \in Exits(now), a.key = q.key, a.reason = q.reason
          PROVE  p.reason = a.reason
      BY <1>1, <1>5, <2>6, <3>2 DEF Distinct
    <3>3. QED
      BY <2>2, <3>1, <3>2
  <2>7. QED
    BY <2>4, <2>5, <2>6 DEF Accounting
<1>13. Remembered(e, entered, F)
  <2>1. ASSUME NEW k, Known(doc, k)
        PROVE  Known(e, k)
    <3>1. PICK p \in doc.positions : p.key = k
      BY <2>1 DEF Known
    <3>2. CASE p \in Monitored(doc)
      BY <1>1, <1>2, <3>1, <3>2 DEF Onward, Known
    <3>3. CASE p \notin Monitored(doc)
      BY <1>1, <3>1, <3>3 DEF Known
    <3>4. QED
      BY <3>2, <3>3
  <2>2. QED
    BY <1>6, <2>1 DEF OneStory, Remembered
<1>14. QED
  BY <1>9, <1>10, <1>11, <1>12, <1>13 DEF OneStory

LEMMA StoryWrites ==
    ASSUME Typed, Dated, TombstonesFit, DocStep, StoreAssumption, UNCHANGED aged,
           OneStory(doc, entered, filled)
    PROVE  OneStory(doc, entered, filled)'
<1>1. /\ doc \in Documents
      /\ \A p \in doc.positions : p.key[2] > aged[p.key[1]] => p.day = day
  BY DEF Typed, TypeOK, Dated
<1>2. \A p \in doc.positions : p.key[2] > aged[p.key[1]] => Known(doc', p.key)
  BY <1>1, StepKeeps DEF Known
<1>3. ASSUME NEW E, NEW F, OneStory(doc', E, F), entered' = E, filled' = F
      PROVE  OneStory(doc, entered, filled)'
  BY <1>3 DEF OneStory, Taps, Placed, Stamps, Accounting, Remembered, Known
<1>4. CASE Loses
  <2>1. OneStory(doc', entered, filled)
    BY <1>1, <1>2, <1>4, CutStory DEF Loses
  <2>2. QED
    BY <1>3, <1>4, <2>1 DEF Loses, past
<1>5. ASSUME NEW r \in Requests, Gains(r)
      PROVE  OneStory(doc, entered, filled)'
  <2>1. PICK e : e = Entered(doc, r)
    OBVIOUS
  <2>2. PICK E : E = entered \cup {<<r, Key(r)>>}
    OBVIOUS
  <2>3. Plans(r) /\ Cut(e, doc') /\ entered' = E /\ filled' = filled
    BY <1>5, <2>1, <2>2 DEF Gains
  <2>4. OneStory(e, E, filled)
    BY <2>1, <2>2, <2>3, EnteredStory
  <2>5. e \in Documents /\ e.positions = doc.positions \cup {NewPosition(r)}
    BY <2>1, <2>3, EnteredIs
  <2>6. Known(doc', NewPosition(r).key)
    BY <1>5, Gained DEF Known
  <2>7. \A p \in e.positions : p.key[2] > aged[p.key[1]] => Known(doc', p.key)
    BY <1>2, <2>5, <2>6
  <2>8. OneStory(doc', E, filled)
    BY <2>3, <2>4, <2>5, <2>7, CutStory
  <2>9. QED
    BY <1>3, <2>3, <2>8
<1>6. ASSUME NEW now \in Evaluations(doc), Moves(now)
      PROVE  OneStory(doc, entered, filled)'
  <2>1. PICK e : e = Advanced(doc, now)
    OBVIOUS
  <2>2. PICK F : F = filled \cup {p.key : p \in Exits(now)}
    OBVIOUS
  <2>3. Cut(e, doc') /\ entered' = entered /\ filled' = F
    BY <1>6, <2>1, <2>2 DEF Moves
  <2>4. OneStory(e, entered, F) /\ e \in Documents
    BY <2>1, <2>2, AdvancedStory, AdvancedIs
  <2>5. \A q \in e.positions : \E p \in doc.positions : p.key = q.key
    BY <2>1, AdvancedFinite DEF Dated
  <2>6. \A q \in e.positions : q.key[2] > aged[q.key[1]] => Known(doc', q.key)
    BY <1>2, <2>5
  <2>7. OneStory(doc', entered, F)
    BY <2>3, <2>4, <2>6, CutStory
  <2>8. QED
    BY <1>3, <2>3, <2>7
<1>7. QED
  BY <1>4, <1>5, <1>6, StepCuts

LEMMA StoryPasses ==
    ASSUME Typed, Passing, OneStory(doc, entered, filled), Shaped',
           \A i \in Indices : aged[i] <= aged'[i]
    PROVE  OneStory(doc, entered, filled)'
<1>1. UNCHANGED <<doc, entered, filled>>
  BY DEF Passing, past
<1>2. ASSUME NEW e \in entered, e[2][2] > aged'[e[2][1]]
      PROVE  e[2][2] > aged[e[2][1]]
  <2>1. e[2][1] \in Indices /\ e[2][2] \in Nat
    BY DEF Typed, TypeOK, Keys
  <2>2. aged[e[2][1]] \in Nat /\ aged'[e[2][1]] \in Nat
    BY <2>1 DEF Typed, TypeOK, Shaped
  <2>3. QED
    BY <1>2, <2>1, <2>2
<1>3. QED
  BY <1>1, <1>2 DEF OneStory, Taps, Placed, Stamps, Accounting, Remembered, Known

(***************************************************************************)
(* The story is told in numbers by LedgersAgree.                           *)
(***************************************************************************)
LEMMA AtMostOne ==
    ASSUME NEW S, \A x, y \in S : x = y
    PROVE  Cardinality(S) = IF S = {} THEN 0 ELSE 1
<1>1. CASE S = {}
  BY <1>1, FS_EmptySet
<1>2. CASE S # {}
  <2>1. PICK x \in S : TRUE
    BY <1>2
  <2>2. S = {x}
    BY <2>1
  <2>3. QED
    BY <2>2, FS_Singleton
<1>3. QED
  BY <1>1, <1>2

LEMMA NoMoreThan ==
    ASSUME NEW S, NEW T, \A x, y \in S : x = y, \A x, y \in T : x = y, S # {} => T # {}
    PROVE  Cardinality(S) <= Cardinality(T)
  BY AtMostOne

LEMMA StoryCounted ==
    ASSUME Typed, OneStory(doc, entered, filled)
    PROVE  LedgersAgree
<1> SUFFICES ASSUME NEW k \in Keys
             PROVE  LET taps == {e \in entered : e[2] = k}
                        positions == {p \in doc.positions : p.key = k}
                        entries == {h \in doc.history : h.key = k}
                        accounts == {a \in doc.closed : a.key = k}
                    IN /\ Cardinality(taps) <= 1
                       /\ taps # {} /\ (k[2] > aged[k[1]] \/ k \notin filled) => positions # {}
                       /\ Cardinality(positions) <= Cardinality(taps)
                       /\ Cardinality(entries) <= Cardinality(taps)
                       /\ Cardinality(accounts) <= Cardinality(taps)
                       /\ \A p \in positions : p.status = "CLOSED" <=> k \in filled
                       /\ \A h \in entries : h.exited <=> k \in filled
                       /\ \A a \in accounts :
                            k \in filled /\ \A p \in positions : p.reason \in {None, a.reason}
  BY DEF LedgersAgree
<1> DEFINE taps == {e \in entered : e[2] = k}
           positions == {p \in doc.positions : p.key = k}
           entries == {h \in doc.history : h.key = k}
           accounts == {a \in doc.closed : a.key = k}
<1>1. /\ \A x, y \in taps : x = y
      /\ \A x, y \in positions : x = y
      /\ \A x, y \in entries : x = y
      /\ \A x, y \in accounts : x = y
  BY DEF Typed, Planned, Distinct, OneStory, Taps, Stamps, Accounting
<1>2. (k \in filled => taps # {})
  BY DEF OneStory, Taps
<1>3. /\ positions # {} => taps # {}
      /\ \A p \in positions : p.status = "CLOSED" <=> k \in filled
  BY DEF OneStory, Placed
<1>4. /\ entries # {} => taps # {}
      /\ \A h \in entries : h.exited <=> k \in filled
  BY DEF OneStory, Stamps
<1>5. \A a \in accounts : k \in filled /\ \A p \in positions : p.reason \in {None, a.reason}
  BY DEF OneStory, Accounting
<1>6. taps # {} /\ (k[2] > aged[k[1]] \/ k \notin filled) => positions # {}
  BY DEF OneStory, Remembered, Known
<1> HIDE DEF taps, positions, entries, accounts
<1>7. /\ Cardinality(taps) <= 1
      /\ Cardinality(positions) <= Cardinality(taps)
      /\ Cardinality(entries) <= Cardinality(taps)
      /\ Cardinality(accounts) <= Cardinality(taps)
  BY <1>1, <1>2, <1>3, <1>4, <1>5, AtMostOne, NoMoreThan
<1>8. QED
  BY <1>3, <1>4, <1>5, <1>6, <1>7, Zenon DEF taps, positions, entries, accounts

(***************************************************************************)
(* While all positions fit among the tombstones, no proposal is entered    *)
(* twice, although positions, entries and accounts are cut: what is left   *)
(* of them agrees with the taps entered and the exits filled.              *)
(***************************************************************************)
THEOREM LedgersStayInStep == Spec /\ []TombstonesFit => []LedgersAgree
<1> DEFINE Story == OneStory(doc, entered, filled)
<1> USE StoreAssumption
<1>1. Init => Story
  BY DEF Init, EmptyDoc, OneStory, Taps, Placed, Stamps, Accounting, Remembered
<1>2. Typed /\ Dated /\ TombstonesFit /\ Story /\ [Next]_vars => Story'
  <2> SUFFICES ASSUME Typed, Dated, TombstonesFit, Story, [Next]_vars
               PROVE  Story'
    OBVIOUS
  <2>1. DocStep /\ Shaped' /\ (Writes \/ Passing)
    BY StepKinds, StepTimes, ShapedStep
  <2>2. CASE Writes
    BY <2>1, <2>2, StoryWrites DEF Writes
  <2>3. CASE Passing
    BY <2>1, <2>3, DatedPasses, StoryPasses
  <2>4. QED
    BY <2>1, <2>2, <2>3
<1>3. Typed /\ Story => LedgersAgree
  BY StoryCounted
<1> HIDE DEF Story
<1>4. QED
  BY <1>1, <1>2, <1>3, TypedAlways, DatedAlways, PTL DEF Spec

-----------------------------------------------------------------------------
(***************************************************************************)
(* Answers.  They are repeated from the recorded outcomes, of which the    *)
(* document keeps MAX_REQUESTS; the theorems of this part are about the    *)
(* taps made before the first outcome is dropped.  Later a tap of an       *)
(* earlier process may be fenced although it was admitted (README,         *)
(* observations on the single leg).                                        *)
(***************************************************************************)
NothingPruned == Cardinality(Requests) <= MaxRecorded

LEMMA AllKept ==
    ASSUME NothingPruned, StoreAssumption, NEW f
    PROVE  Pruned(f) = {f}
<1> DEFINE known == {r \in Requests : f[r] # None}
<1>1. IsFiniteSet(Requests) /\ known \subseteq Requests
  BY DEF StoreAssumption
<1>2. Cardinality(known) <= Cardinality(Requests)
  BY <1>1, FS_Subset
<1>3. Cardinality(known) \in Nat /\ Cardinality(Requests) \in Nat
  BY <1>1, FS_Subset, FS_CardinalityType
<1>4. Cardinality(known) <= MaxRecorded
  <2> HIDE DEF known
  <2> QED
    BY <1>2, <1>3 DEF NothingPruned, StoreAssumption
<1>5. QED
  BY <1>4 DEF Pruned

\* The tap got a position; the index did.
Owns(r) == \E e \in entered : e[1] = r
Managed(i) == \E e \in entered : e[2][1] = i

Active(r) == call[r] \in {"waiting", "entered", "probed"}

(***************************************************************************)
(* Accountable: the recorded outcomes are those of the entries, and what   *)
(* the user has heard or is about to hear is the recorded outcome, or a    *)
(* refusal that nothing can turn into an admission any more.               *)
(***************************************************************************)
Recorded ==
    \A r \in Requests :
        /\ Owns(r) <=> doc.requests[r] = "ADMITTED"
        /\ doc.requests[r] = "DUPLICATE_IGNORED" => Managed(IndexOf[r])

Heard ==
    \A r \in Requests :
        /\ tap[r] \in {"new", "queued", "fetching"} => doc.requests[r] = None
        /\ tap[r] = "awaiting" /\ Active(r) => doc.requests[r] = None
        /\ told[r] # {} => tap[r] \in {"completed", "lost"}
        /\ \A outcome \in told[r] :
            \/ doc.requests[r] = outcome
            \/ outcome = "REJECTED" /\ doc.requests[r] = None /\ ~Active(r)
        /\ call[r] = "returned" =>
            /\ tap[r] = "awaiting"
            /\ \/ doc.requests[r] = reply[r]
               \/ reply[r] = "REJECTED" /\ doc.requests[r] = None

Accountable == Recorded /\ Heard

(***************************************************************************)
(* The outcome of one request is recorded; those of the others stay.       *)
(***************************************************************************)
RecordsOnly(r, outcome) ==
    /\ doc.requests[r] = None
    /\ doc'.requests = [doc.requests EXCEPT ![r] = outcome]

LEMMA RecordsRequest ==
    ASSUME Typed, StoreAssumption, NothingPruned, NEW r \in Requests,
           NEW outcome \in {"REJECTED", "DUPLICATE_IGNORED"}, Records(r, outcome)
    PROVE  RecordsOnly(r, outcome)
<1>1. doc \in Documents /\ Distinct(doc) /\ outcome \in Outcomes
  BY DEF Typed, TypeOK, Planned, Outcomes
<1>2. doc'.requests \in Pruned([doc.requests EXCEPT ![r] = outcome])
  BY <1>1, RecordingIs DEF Records
<1>3. QED
  BY <1>2, AllKept DEF Records, RecordsOnly

LEMMA EnteringRequest ==
    ASSUME Typed, StoreAssumption, NothingPruned, NEW r \in Requests, Plans(r),
           NEW d \in Recording(Entered(doc, r), r, "ADMITTED")
    PROVE  /\ d \in Documents /\ Cut(Entered(doc, r), d)
           /\ d.requests = [doc.requests EXCEPT ![r] = "ADMITTED"]
<1>1. PICK e : e = Entered(doc, r)
  OBVIOUS
<1>2. e \in Documents /\ Distinct(e) /\ e.requests = doc.requests
  BY <1>1, EnteredIs
<1>3. d \in Recording(e, r, "ADMITTED") /\ "ADMITTED" \in Outcomes
  BY <1>1 DEF Outcomes
<1>4. d \in Documents /\ Cut(e, d) /\ d.requests \in Pruned([e.requests EXCEPT ![r] = "ADMITTED"])
  BY <1>2, <1>3, RecordingIs
<1>5. QED
  BY <1>1, <1>2, <1>4, AllKept

LEMMA TakingBackRequest ==
    ASSUME Typed, StoreAssumption, NothingPruned, NEW r \in Requests, Plans(r),
           NEW d \in Recording(Entered(doc, r), r, "ADMITTED"),
           NEW w \in Recording(TakenBack(d, r), r, "REJECTED")
    PROVE  w.requests = [doc.requests EXCEPT ![r] = "REJECTED"]
<1>1. PICK t : t = TakenBack(d, r)
  OBVIOUS
<1>2. /\ d \in Documents /\ Cut(Entered(doc, r), d)
      /\ d.requests = [doc.requests EXCEPT ![r] = "ADMITTED"]
  BY EnteringRequest
<1>3. t \in Documents /\ Distinct(t) /\ t.requests = d.requests
  BY <1>1, <1>2, TakenBackIs
<1>4. w \in Recording(t, r, "REJECTED") /\ "REJECTED" \in Outcomes
  BY <1>1 DEF Outcomes
<1>5. w.requests \in Pruned([t.requests EXCEPT ![r] = "REJECTED"])
  BY <1>3, <1>4, RecordingIs
<1>6. w.requests = [t.requests EXCEPT ![r] = "REJECTED"]
  BY <1>5, AllKept
<1>7. doc.requests \in [Requests -> Outcomes \cup {None}]
  BY DEF Typed, TypeOK, Documents
<1>8. QED
  BY <1>2, <1>3, <1>6, <1>7

LEMMA AdvancesRequests ==
    ASSUME Typed, StoreAssumption, NothingPruned, Advances
    PROVE  doc'.requests = doc.requests
<1>1. PICK now \in Evaluations(doc) : doc' \in Bounded(Advanced(doc, now))
  BY DEF Advances
<1>2. PICK e : e = Advanced(doc, now)
  OBVIOUS
<1>3. e \in Documents /\ Distinct(e) /\ e.requests = doc.requests
  BY <1>2, AdvancedIs
<1>4. doc'.requests \in Pruned(doc.requests)
  BY <1>1, <1>2, <1>3, BoundedIs
<1>5. QED
  BY <1>4, AllKept

LEMMA RecordedStep ==
    ASSUME Typed, Dated, StoreAssumption, NothingPruned, Recorded, DocStep
    PROVE  Recorded'
<1>1. doc \in Documents /\ None \notin Outcomes
  BY DEF Typed, TypeOK, StoreAssumption
<1>2. CASE UNCHANGED <<doc, past>>
  BY <1>2 DEF Recorded, Owns, Managed, past
<1>3. ASSUME NEW r \in Requests, NEW outcome \in {"REJECTED", "DUPLICATE_IGNORED"},
             RecordsOnly(r, outcome), UNCHANGED past,
             outcome = "DUPLICATE_IGNORED" => Managed(IndexOf[r])
      PROVE  Recorded'
  BY <1>1, <1>3 DEF Recorded, RecordsOnly, Owns, Managed, past, Documents, Outcomes
<1>4. ASSUME NEW r \in Requests, NEW outcome \in {"REJECTED", "DUPLICATE_IGNORED"},
             Records(r, outcome)
      PROVE  Recorded'
  <2>1. RecordsOnly(r, outcome) /\ UNCHANGED past
    BY <1>4, RecordsRequest DEF Records
  <2>2. outcome = "DUPLICATE_IGNORED" => Managed(IndexOf[r])
    <3>1. Duplicates(doc, r) # {} => \E p \in doc.positions : p.key = Key(r)
      BY DEF Duplicates
    <3>2. Duplicates(doc, r) # {} => \E x \in entered : x[2] = Key(r)
      BY <3>1 DEF Dated
    <3>3. Key(r)[1] = IndexOf[r]
      BY DEF Key
    <3>4. QED
      BY <1>4, <3>2, <3>3 DEF Records, Managed
  <2>3. QED
    BY <1>3, <2>1, <2>2
<1>5. ASSUME NEW r \in Requests, Enters(r)
      PROVE  Recorded'
  <2>1. /\ RecordsOnly(r, "ADMITTED")
        /\ entered' = entered \cup {<<r, Key(r)>>}
    BY <1>5, EnteringRequest DEF Enters, Plans, RecordsOnly
  <2>2. \A q \in Requests : Owns(q)' <=> q = r \/ Owns(q)
    <3>1. <<r, Key(r)>>[1] = r
      OBVIOUS
    <3>2. QED
      BY <2>1, <3>1 DEF Owns
  <2>3. \A i : Managed(i) => Managed(i)'
    BY <2>1 DEF Managed
  <2>4. QED
    BY <1>1, <2>1, <2>2, <2>3 DEF Recorded, RecordsOnly, Documents
<1>6. ASSUME NEW r \in Requests, Overflows(r)
      PROVE  Recorded'
  <2>1. RecordsOnly(r, "REJECTED") /\ UNCHANGED past
    BY <1>6, TakingBackRequest DEF Overflows, Plans, RecordsOnly
  <2>2. QED
    BY <1>3, <2>1
<1>7. CASE Advances
  BY <1>7, AdvancesRequests DEF Recorded, Owns, Managed, Advances
<1>8. QED
  BY <1>2, <1>4, <1>5, <1>6, <1>7 DEF DocStep

(***************************************************************************)
(* A fence answers with what the document holds afterwards.                *)
(***************************************************************************)
LEMMA FenceAnswers ==
    ASSUME Typed, StoreAssumption, NothingPruned, NEW r \in Requests,
           NEW outcome \in Outcomes, Fence(r, outcome), UNCHANGED past
    PROVE  /\ doc'.requests[r] = outcome
           /\ \/ doc'.requests = doc.requests
              \/ RecordsOnly(r, "REJECTED") /\ outcome = "REJECTED"
<1>1. doc \in Documents
  BY DEF Typed, TypeOK
<1>2. CASE doc.requests[r] # None
  BY <1>2 DEF Fence
<1>3. CASE doc.requests[r] = None
  <2>1. Records(r, "REJECTED") /\ outcome = "REJECTED"
    BY <1>3 DEF Fence, Records
  <2>2. RecordsOnly(r, "REJECTED")
    BY <2>1, RecordsRequest
  <2>3. QED
    BY <1>1, <2>1, <2>2 DEF RecordsOnly, Documents
<1>4. QED
  BY <1>2, <1>3

(***************************************************************************)
(* The end of a call: its value is the outcome that is recorded, or an     *)
(* error with nothing recorded.                                            *)
(***************************************************************************)
LEMMA ConclusionAnswers ==
    ASSUME Typed, StoreAssumption, NothingPruned, NEW r \in Requests,
           ProbeRefuses(r) \/ Duplicate(r) \/ Reject(r) \/ Open(r) \/ StoreFull(r)
    PROVE  \E outcome \in Outcomes :
            /\ Returns(r, outcome)
            /\ call[r] \in {"entered", "probed"} /\ doc.requests[r] = None
            /\ UNCHANGED <<native, told>>
            /\ \/ RecordsOnly(r, outcome)
               \/ outcome = "REJECTED" /\ UNCHANGED doc
<1>1. call[r] \in {"entered", "probed"} /\ UNCHANGED <<native, told>>
  BY DEF ProbeRefuses, Duplicate, Reject, Passes, Open, StoreFull
<1>2. lock = r /\ copy = doc /\ doc.requests[r] = None
  BY <1>1 DEF Typed, Locked, StoreAssumption
<1>3. CASE ProbeRefuses(r) \/ Duplicate(r) \/ Reject(r)
  <2>1. PICK outcome \in {"REJECTED", "DUPLICATE_IGNORED"} :
          /\ Refuse(r, outcome)
          /\ outcome = "DUPLICATE_IGNORED" => Duplicates(copy, r) # {}
          /\ UNCHANGED past
    BY <1>3 DEF ProbeRefuses, Duplicate, Reject
  <2>2. \/ Records(r, outcome) /\ Returns(r, outcome)
        \/ UNCHANGED doc /\ Returns(r, "REJECTED")
    BY <1>2, <2>1 DEF Refuse, Concludes, Records
  <2>3. QED
    BY <1>1, <1>2, <2>2, RecordsRequest DEF Outcomes
<1>4. CASE Open(r)
  <2>1. \/ doc' \in Recording(Entered(doc, r), r, "ADMITTED") /\ Returns(r, "ADMITTED")
        \/ UNCHANGED doc /\ Returns(r, "REJECTED")
    BY <1>2, <1>4 DEF Open, Concludes
  <2>2. ASSUME doc' \in Recording(Entered(doc, r), r, "ADMITTED")
        PROVE  RecordsOnly(r, "ADMITTED")
    BY <1>2, <1>4, <2>2, PassesStep, EnteringRequest DEF Open, RecordsOnly
  <2>3. QED
    BY <1>1, <1>2, <2>1, <2>2 DEF Outcomes
<1>5. CASE StoreFull(r)
  <2>1. \/ /\ Returns(r, "REJECTED")
           /\ \E d \in Recording(Entered(doc, r), r, "ADMITTED") :
                doc' \in Recording(TakenBack(d, r), r, "REJECTED")
        \/ UNCHANGED doc /\ Returns(r, "REJECTED")
    BY <1>2, <1>5 DEF StoreFull, Concludes
  <2>2. ASSUME NEW d \in Recording(Entered(doc, r), r, "ADMITTED"),
               doc' \in Recording(TakenBack(d, r), r, "REJECTED")
        PROVE  RecordsOnly(r, "REJECTED")
    BY <1>2, <1>5, <2>2, PassesStep, TakingBackRequest DEF StoreFull, RecordsOnly
  <2>3. QED
    BY <1>1, <1>2, <2>1, <2>2 DEF Outcomes
<1>6. QED
  BY <1>3, <1>4, <1>5

(***************************************************************************)
(* A step touches the outcome and the answer of one tap at most: an        *)
(* outcome appears where there was none, an answer joins those given.      *)
(***************************************************************************)
OneTap ==
    \/ doc'.requests = doc.requests /\ told' = told
    \/ \E r \in Requests :
        /\ \A q \in Requests \ {r} :
              doc'.requests[q] = doc.requests[q] /\ told'[q] = told[q]
        /\ doc'.requests[r] = doc.requests[r] \/ doc.requests[r] = None
        /\ told'[r] = told[r] \/ \E outcome : told'[r] = told[r] \cup {outcome}

LEMMA OneTapTells ==
    ASSUME Typed, NEW r \in Requests, NEW outcome, Tell(r, outcome) \/ UNCHANGED told,
           \A q \in Requests \ {r} : doc'.requests[q] = doc.requests[q],
           doc'.requests[r] = doc.requests[r] \/ doc.requests[r] = None
    PROVE  OneTap
<1>1. told \in [Requests -> SUBSET Outcomes]
  BY DEF Typed, TypeOK
<1>2. told'[r] = told[r] \/ told'[r] = told[r] \cup {outcome}
  BY <1>1 DEF Tell
<1>3. \A q \in Requests \ {r} : told'[q] = told[q]
  BY <1>1 DEF Tell
<1>4. QED
  BY <1>2, <1>3 DEF OneTap

LEMMA TapStep ==
    ASSUME Typed, StoreAssumption, NothingPruned, Accountable, NEW r \in Requests, Tap(r)
    PROVE  Heard' /\ OneTap
<1>1. Called /\ doc \in Documents /\ doc.requests \in [Requests -> Outcomes \cup {None}]
  BY TypedParts DEF Documents
<1> USE DEF Called, Heard, Accountable, Active
<1>2. CASE Submit(r)
  BY <1>1, <1>2 DEF Submit, Goto, python, OneTap
<1>3. CASE Run(r)
  <2>1. OneTap
    BY <1>3, OneTapTells DEF Run
  <2>2. Heard'
    BY <1>1, <1>3 DEF Run, Goto, Tell, python
  <2>3. QED
    BY <2>1, <2>2
<1>4. CASE Commit(r)
  <2>1. OneTap
    BY <1>4, OneTapTells DEF Commit
  <2>2. CASE seen[r] # State(r)
    <3>1. Heard'
      BY <1>1, <1>4, <2>2 DEF Commit, Goto, Tell
    <3>2. QED
      BY <2>1, <3>1
  <2>3. CASE seen[r] = State(r)
    <3>1. Heard'
      BY <1>1, <1>4, <2>3 DEF Commit, Goto
    <3>2. QED
      BY <2>1, <3>1
  <2>4. QED
    BY <2>2, <2>3
<1>5. CASE Answered(r)
  BY <1>1, <1>5 DEF Answered, Goto, Tell, OneTap
<1>6. CASE TimesOut(r)
  BY <1>1, <1>6 DEF TimesOut, Goto, python, OneTap
<1>7. CASE Reconcile(r)
  BY <1>1, <1>7 DEF Reconcile, Goto, Tell, python, OneTap
<1>8. CASE Expire(r)
  <2>1. PICK outcome \in Outcomes :
          /\ Fence(r, outcome) /\ tap[r] = "reconciling" /\ UNCHANGED <<python, past>>
          /\ \/ Goto(r, "completed") /\ Tell(r, outcome)
             \/ UNCHANGED <<tap, told>>
    BY <1>8 DEF Expire
  <2>2. /\ doc'.requests[r] = outcome
        /\ \/ doc'.requests = doc.requests
           \/ RecordsOnly(r, "REJECTED") /\ outcome = "REJECTED"
    BY <2>1, FenceAnswers
  <2>3. \A q \in Requests \ {r} : doc'.requests[q] = doc.requests[q]
    BY <1>1, <2>2 DEF RecordsOnly
  <2>4. Heard'
    BY <1>1, <2>1, <2>2, <2>3 DEF Goto, Tell, python
  <2>5. OneTap
    BY <2>1, <2>2, <2>3, OneTapTells DEF RecordsOnly
  <2>6. QED
    BY <2>4, <2>5
<1>9. CASE Status(r)
  <2>1. PICK outcome \in Outcomes :
          /\ Fence(r, outcome) /\ tap[r] = "lost" /\ UNCHANGED <<python, native, past>>
          /\ Tell(r, outcome) \/ UNCHANGED told
    BY <1>9 DEF Status
  <2>2. /\ doc'.requests[r] = outcome
        /\ \/ doc'.requests = doc.requests
           \/ RecordsOnly(r, "REJECTED") /\ outcome = "REJECTED"
    BY <2>1, FenceAnswers
  <2>3. \A q \in Requests \ {r} : doc'.requests[q] = doc.requests[q]
    BY <1>1, <2>2 DEF RecordsOnly
  <2>4. Heard'
    BY <1>1, <2>1, <2>2, <2>3 DEF Tell, python, native, RecordsOnly
  <2>5. OneTap
    BY <2>1, <2>2, <2>3, OneTapTells DEF RecordsOnly
  <2>6. QED
    BY <2>4, <2>5
<1>10. QED
  BY <1>2, <1>3, <1>4, <1>5, <1>6, <1>7, <1>8, <1>9 DEF Tap

LEMMA AdmissionStep ==
    ASSUME Typed, StoreAssumption, NothingPruned, Accountable, NEW r \in Requests, Admission(r)
    PROVE  Heard' /\ OneTap
<1>1. Called /\ doc \in Documents /\ doc.requests \in [Requests -> Outcomes \cup {None}]
  BY TypedParts DEF Documents
<1> USE DEF Called, Heard, Accountable, Active
<1>2. CASE LockTimeout(r)
  BY <1>1, <1>2 DEF LockTimeout, Returns, native, OneTap
<1>3. CASE Enter(r)
  <2>1. CASE doc.requests[r] # None
    BY <1>1, <1>3, <2>1 DEF Enter, Returns, native, OneTap
  <2>2. CASE doc.requests[r] = None
    BY <1>1, <1>3, <2>2 DEF Enter, native, OneTap
  <2>3. QED
    BY <2>1, <2>2
<1>4. CASE Probe(r)
  BY <1>1, <1>4 DEF Probe, native, OneTap
<1>5. CASE ProbeRefuses(r) \/ Duplicate(r) \/ Reject(r) \/ Open(r) \/ StoreFull(r)
  <2>1. PICK outcome \in Outcomes :
          /\ Returns(r, outcome)
          /\ call[r] \in {"entered", "probed"} /\ doc.requests[r] = None
          /\ UNCHANGED <<native, told>>
          /\ \/ RecordsOnly(r, outcome)
             \/ outcome = "REJECTED" /\ UNCHANGED doc
    BY <1>5, ConclusionAnswers
  <2>2. \A q \in Requests \ {r} : doc'.requests[q] = doc.requests[q]
    BY <1>1, <2>1 DEF RecordsOnly
  <2>3. doc'.requests[r] = outcome \/ (outcome = "REJECTED" /\ doc'.requests[r] = None)
    BY <1>1, <2>1 DEF RecordsOnly
  <2>4. Heard'
    BY <1>1, <2>1, <2>2, <2>3 DEF Returns, native
  <2>5. OneTap
    BY <2>1, <2>2 DEF OneTap
  <2>6. QED
    BY <2>4, <2>5
<1>6. QED
  BY <1>1, <1>2, <1>3, <1>4, <1>5, <1>1 DEF Admission

LEMMA AnswersStep ==
    ASSUME Typed, Dated, StoreAssumption, NothingPruned, Accountable, [Next]_vars
    PROVE  Accountable' /\ OneTap
<1>1. Recorded'
  BY StepKinds, RecordedStep DEF Accountable
<1>2. Called /\ doc \in Documents
  BY TypedParts
<1>3. ASSUME NEW r \in Requests, Tap(r) \/ Admission(r)
      PROVE  Heard' /\ OneTap
  BY <1>3, TapStep, AdmissionStep
<1>4. CASE Monitor
  <2>1. doc'.requests = doc.requests
    <3>1. CASE UNCHANGED doc
      BY <3>1
    <3>2. CASE Advances
      BY <3>2, AdvancesRequests
    <3>3. QED
      BY <1>4, <3>1, <3>2, MonitorStep
  <2>2. QED
    BY <1>1, <1>4, <2>1 DEF Monitor, Accountable, Heard, Active, OneTap, native, python
<1>5. CASE World
  <2>1. UNCHANGED <<doc, told>>
    BY <1>5 DEF World, Publish, HalfHour, ChangeSettings, SessionMoves, ClockAdvances,
                ClockSetBack, ProcessDies
  <2>2. CASE ProcessDies
    BY <1>1, <1>2, <2>1, <2>2 DEF ProcessDies, Accountable, Heard, Active, OneTap, Called
  <2>3. CASE ~ProcessDies
    BY <1>1, <1>5, <2>1, <2>3 DEF World, Publish, HalfHour, ChangeSettings, SessionMoves,
        ClockAdvances, ClockSetBack, native, python, Accountable, Heard, Active, OneTap
  <2>4. QED
    BY <2>2, <2>3
<1>6. CASE UNCHANGED vars
  BY <1>1, <1>6 DEF vars, native, python, Accountable, Heard, Active, OneTap
<1>7. QED
  BY <1>1, <1>3, <1>4, <1>5, <1>6 DEF Next, Accountable

LEMMA AnswersInit ==
    ASSUME Init, StoreAssumption
    PROVE  Accountable
  BY DEF Init, EmptyDoc, Accountable, Recorded, Heard, Owns, StoreAssumption, Outcomes

(***************************************************************************)
(* What the user was told stays true: an admitted tap got its position, a  *)
(* refused one never gets one, although calls outlive their timeouts and   *)
(* the process may die before an answer.                                   *)
(***************************************************************************)
THEOREM AnswersStayTrue == NothingPruned /\ Spec => []AnswersHold
<1> SUFFICES ASSUME NothingPruned
             PROVE  Spec => []AnswersHold
  OBVIOUS
<1> USE StoreAssumption
<1>1. Init => Accountable
  BY AnswersInit
<1>2. Typed /\ Dated /\ Accountable /\ [Next]_vars => Accountable'
  BY AnswersStep
<1>3. Accountable => AnswersHold
  <2> SUFFICES ASSUME Accountable, NEW r \in Requests
               PROVE  LET own == {e \in entered : e[1] = r}
                      IN /\ "ADMITTED" \in told[r] => own # {}
                         /\ "REJECTED" \in told[r] => own = {}
                         /\ "DUPLICATE_IGNORED" \in told[r] =>
                              own = {} /\ \E e \in entered : e[2][1] = IndexOf[r]
    BY DEF AnswersHold
  <2>1. {e \in entered : e[1] = r} # {} <=> doc.requests[r] = "ADMITTED"
    BY DEF Accountable, Recorded, Owns
  <2>2. None # "ADMITTED"
    BY DEF StoreAssumption, Outcomes
  <2>3. QED
    BY <2>1, <2>2 DEF Accountable, Recorded, Heard, Managed
<1>4. QED
  BY <1>1, <1>2, <1>3, TypedAlways, DatedAlways, PTL DEF Spec

-----------------------------------------------------------------------------
(***************************************************************************)
(* The store implements SingleLegContract.                                 *)
(***************************************************************************)
Told(r) ==
    IF told[r] = {} THEN "open"
    ELSE IF "ADMITTED" \in told[r] THEN "entered" ELSE "refused"

(***************************************************************************)
(* The verdict of a tap is a matter of its recorded outcome alone, but for *)
(* the refusals that are never recorded.                                   *)
(***************************************************************************)
LEMMA VerdictIs ==
    ASSUME Accountable, StoreAssumption, NEW r \in Requests
    PROVE  Verdict(r) = IF doc.requests[r] = "ADMITTED" THEN "entered"
                        ELSE IF doc.requests[r] # None \/ told[r] # {} THEN "refused"
                        ELSE "open"
  BY DEF Accountable, Recorded, Owns, Verdict

LEMMA ContractInit ==
    ASSUME Init, StoreAssumption
    PROVE  Contract!Init
<1>1. Accountable
  BY AnswersInit
<1>2. \A r \in Requests : Verdict(r) = "open" /\ told[r] = {}
  BY <1>1, VerdictIs DEF Init, EmptyDoc, StoreAssumption, Outcomes
<1>3. QED
  BY <1>2 DEF Contract!Init

(***************************************************************************)
(* A step decides or answers one tap, or neither.                          *)
(***************************************************************************)
LEMMA ContractStep ==
    ASSUME StoreAssumption, Accountable, Accountable', OneTap
    PROVE  [Contract!Next]_(Contract!contractVars)
<1> DEFINE verdict == [r \in Requests |-> Verdict(r)]
           answered == [r \in Requests |-> Told(r)]
<1>1. \A r \in Requests : /\ verdict[r] = Verdict(r) /\ verdict'[r] = Verdict(r)'
                         /\ answered[r] = Told(r) /\ answered'[r] = Told(r)'
  OBVIOUS
<1>2. \A r \in Requests :
        /\ Verdict(r) = IF doc.requests[r] = "ADMITTED" THEN "entered"
                        ELSE IF doc.requests[r] # None \/ told[r] # {} THEN "refused"
                        ELSE "open"
        /\ Verdict(r)' = IF doc'.requests[r] = "ADMITTED" THEN "entered"
                         ELSE IF doc'.requests[r] # None \/ told'[r] # {} THEN "refused"
                         ELSE "open"
  <2>1. \A r \in Requests :
          Verdict(r) = IF doc.requests[r] = "ADMITTED" THEN "entered"
                       ELSE IF doc.requests[r] # None \/ told[r] # {} THEN "refused"
                       ELSE "open"
    BY VerdictIs
  <2>2. \A r \in Requests :
          Verdict(r)' = IF doc'.requests[r] = "ADMITTED" THEN "entered"
                        ELSE IF doc'.requests[r] # None \/ told'[r] # {} THEN "refused"
                        ELSE "open"
    BY DEF Accountable, Recorded, Owns, Verdict
  <2>3. QED
    BY <2>1, <2>2
<1>3. None \notin Outcomes
  BY DEF StoreAssumption
<1>4. CASE doc'.requests = doc.requests /\ told' = told
  <2>1. verdict' = verdict /\ answered' = answered
    BY <1>2, <1>4 DEF Told
  <2>2. QED
    BY <2>1 DEF Contract!contractVars, Told
<1>5. ASSUME NEW r \in Requests,
             \A q \in Requests \ {r} :
                doc'.requests[q] = doc.requests[q] /\ told'[q] = told[q],
             doc'.requests[r] = doc.requests[r] \/ doc.requests[r] = None,
             told'[r] = told[r] \/ \E outcome : told'[r] = told[r] \cup {outcome}
      PROVE  [Contract!Next]_(Contract!contractVars)
  <2>1. \A q \in Requests \ {r} : Verdict(q)' = Verdict(q) /\ Told(q)' = Told(q)
    BY <1>2, <1>5 DEF Told
  <2>2. /\ \A outcome \in told[r] :
            \/ doc.requests[r] = outcome
            \/ outcome = "REJECTED" /\ doc.requests[r] = None
        /\ \A outcome \in told'[r] :
            \/ doc'.requests[r] = outcome
            \/ outcome = "REJECTED" /\ doc'.requests[r] = None
    BY DEF Accountable, Heard
  <2>3. \/ Verdict(r)' = Verdict(r) /\ Told(r)' = Told(r)
        \/ Verdict(r) # "open" /\ Verdict(r)' = Verdict(r) /\ Told(r)' = Verdict(r)
        \/ /\ Verdict(r) = "open" /\ Verdict(r)' \in {"entered", "refused"}
           /\ Told(r)' = Told(r) \/ Told(r)' = Verdict(r)'
    <3>1. told'[r] # {} => Told(r)' = Verdict(r)'
      BY <1>2, <1>3, <2>2 DEF Told, Outcomes
    <3>2. CASE told'[r] = told[r]
      <4>1. Told(r)' = Told(r)
        BY <3>2 DEF Told
      <4>2. QED
        BY <1>2, <1>3, <1>5, <2>2, <3>2, <4>1 DEF Outcomes
    <3>3. CASE told'[r] # {}
      BY <1>2, <1>3, <1>5, <2>2, <3>1, <3>3 DEF Outcomes
    <3>4. QED
      BY <1>5, <3>2, <3>3
  <2>4. CASE Verdict(r)' = Verdict(r) /\ Told(r)' = Told(r)
    <3>1. verdict' = verdict /\ answered' = answered
      BY <2>1, <2>4
    <3>2. QED
      BY <3>1 DEF Contract!contractVars, Told
  <2>5. CASE Verdict(r) # "open" /\ Verdict(r)' = Verdict(r) /\ Told(r)' = Verdict(r)
    <3>1. verdict' = verdict /\ answered' = [answered EXCEPT ![r] = verdict[r]]
      BY <2>1, <2>5
    <3>2. Contract!Answer(r)
      BY <2>5, <3>1 DEF Contract!Answer, Told
    <3>3. QED
      BY <3>2 DEF Contract!Next
  <2>6. CASE /\ Verdict(r) = "open" /\ Verdict(r)' \in {"entered", "refused"}
             /\ Told(r)' = Told(r) \/ Told(r)' = Verdict(r)'
    <3>1. /\ verdict' = [verdict EXCEPT ![r] = Verdict(r)']
          /\ answered' = answered \/ answered' = [answered EXCEPT ![r] = verdict'[r]]
      BY <2>1, <2>6
    <3>2. Contract!Decide(r)
      BY <2>6, <3>1 DEF Contract!Decide, Told
    <3>3. QED
      BY <3>2 DEF Contract!Next
  <2>7. QED
    BY <2>3, <2>4, <2>5, <2>6
<1>6. QED
  BY <1>4, <1>5 DEF OneTap

(***************************************************************************)
(* Every tap has one verdict that never changes, an entry exactly when     *)
(* the verdict is an admission, and hears nothing but the verdict.         *)
(***************************************************************************)
THEOREM OneVerdict == NothingPruned /\ Spec => VerdictsStand
<1> SUFFICES ASSUME NothingPruned
             PROVE  Spec => VerdictsStand
  OBVIOUS
<1> USE StoreAssumption
<1>1. Init => Accountable /\ Contract!Init
  BY AnswersInit, ContractInit
<1>2. Typed /\ Dated /\ Accountable /\ [Next]_vars => Accountable'
  BY AnswersStep
<1>3. Typed /\ Dated /\ Accountable /\ [Next]_vars => [Contract!Next]_(Contract!contractVars)
  BY AnswersStep, ContractStep
<1>4. QED
  BY <1>1, <1>2, <1>3, TypedAlways, DatedAlways, PTL DEF Spec, VerdictsStand, Contract!Spec
================================================================================
