---------------------- MODULE PositionTickQueueProofs ----------------------
(***************************************************************************)
(* Theorems about the tick queue, for all values of its constants.         *)
(***************************************************************************)
EXTENDS PositionTickQueue, FiniteSetTheorems, WellFoundedInduction, TLAPS

\* More time for a leaf than by default, for slow or busy machines.
USE SMTT(30), ZenonT(30)

-----------------------------------------------------------------------------
(***************************************************************************)
(* A non-empty set of naturals has a least element.                        *)
(***************************************************************************)
LEMMA LeastNat ==
    ASSUME NEW T, T \subseteq Nat, T # {}
    PROVE  \E m \in T : \A n \in T : m <= n
<1> DEFINE Less == {ss \in Nat \X Nat : ss[1] < ss[2]}
<1>1. IsWellFoundedOn(Less, Nat)
  BY NatLessThanWellFounded DEF OpToRel
<1>2. \E m \in T : \A n \in T : ~ (<<n, m>> \in Less)
  <2> HIDE DEF Less
  <2> QED
    BY <1>1, WFMin
<1>3. PICK m \in T : \A n \in T : ~ (<<n, m>> \in Less)
  BY <1>2
<1>4. ASSUME NEW n \in T
      PROVE  m <= n
  <2>1. n \in Nat /\ m \in Nat
    OBVIOUS
  <2>2. ~ (n < m)
    BY <1>3, <2>1
  <2>3. QED
    BY <2>1, <2>2
<1>5. QED
  BY <1>4

(***************************************************************************)
(* A non-empty set of naturals with an upper bound has a greatest element. *)
(***************************************************************************)
LEMMA GreatestNat ==
    ASSUME NEW T, T \subseteq Nat, T # {}, NEW bound \in Nat, \A n \in T : n <= bound
    PROVE  \E m \in T : \A n \in T : n <= m
<1> DEFINE Gaps == {bound - n : n \in T}
<1>1. Gaps \subseteq Nat
  OBVIOUS
<1>1a. Gaps # {}
  <2>1. PICK n \in T : TRUE
    OBVIOUS
  <2>2. bound - n \in Gaps
    BY <2>1
  <2>3. QED
    BY <2>2
<1>2. PICK g \in Gaps : \A h \in Gaps : g <= h
  BY <1>1, <1>1a, LeastNat
<1>3. PICK m \in T : g = bound - m
  OBVIOUS
<1>4. \A n \in T : bound - m <= bound - n
  BY <1>2, <1>3
<1>5. QED
  BY <1>4

(***************************************************************************)
(* What every queue of a behaviour satisfies: it is finite and its arrival *)
(* numbers have been handed out.                                           *)
(***************************************************************************)
Stamped(queue) == IsFiniteSet(queue) /\ \A e \in queue : e.at <= offered

(***************************************************************************)
(* The group of an entry is never empty, so its first arrival exists.      *)
(***************************************************************************)
LEMMA FirstGrpType ==
    ASSUME NEW group, group \subseteq Entry, group # {}
    PROVE  FirstGrp(group) \in Nat
<1> DEFINE T == {e.grp : e \in group}
<1>1. T \subseteq Nat /\ T # {}
  BY DEF Entry
<1>2. \E g \in T : \A h \in T : g <= h
  BY <1>1, LeastNat
<1>3. \E g \in T : \A e \in group : g <= e.grp
  BY <1>2
<1>4. QED
  BY <1>1, <1>3 DEF FirstGrp

(***************************************************************************)
(* dedupePositionTicksByTradeTs never loses a payload: rows sharing a key  *)
(* collapse only onto a row with the same payload.                         *)
(***************************************************************************)
LEMMA DedupeKeepsPayloads ==
    ASSUME NEW queue, queue \subseteq Entry, NEW bound \in Nat,
           \A e \in queue : e.at <= bound
    PROVE  /\ Dedupe(queue) \subseteq Entry
           /\ \A d \in Dedupe(queue) : \E e \in queue : d.at = e.at /\ d.row = e.row
           /\ Payloads(RowsOf(queue)) \subseteq Payloads(RowsOf(Dedupe(queue)))
<1>1. CASE Surviving(queue) = queue
  BY <1>1 DEF Dedupe
<1>2. CASE Surviving(queue) # queue
  <2> DEFINE kept == Surviving(queue)
             moved(e) == [e EXCEPT !.grp = FirstGrp(Group(queue, KeyOf[e.row]))]
  <2>1. kept \subseteq queue
    BY DEF Surviving
  <2>2. Dedupe(queue) = {moved(e) : e \in kept}
    BY <1>2 DEF Dedupe, Regroup
  <2>3. ASSUME NEW e \in queue
        PROVE  moved(e) \in Entry /\ moved(e).at = e.at /\ moved(e).row = e.row
    <3>1. Group(queue, KeyOf[e.row]) # {} /\ Group(queue, KeyOf[e.row]) \subseteq Entry
      BY DEF Group
    <3>2. FirstGrp(Group(queue, KeyOf[e.row])) \in Nat
      BY <3>1, FirstGrpType
    <3>3. QED
      BY <3>2 DEF Entry
  <2>4. ASSUME NEW e \in queue
        PROVE  \E f \in kept : PayloadOf[f.row] = PayloadOf[e.row]
    <3> DEFINE group == Group(queue, KeyOf[e.row])
               ats == {f.at : f \in group}
    <3>1. e \in group /\ group \subseteq queue
      BY DEF Group
    <3>2. ats \subseteq Nat /\ ats # {} /\ \A n \in ats : n <= bound
      BY <3>1 DEF Entry
    <3>3. \E m \in ats : \A n \in ats : n <= m
      BY <3>2, GreatestNat
    <3>4. PICK f \in group : \A g \in group : g.at <= f.at
      BY <3>3
    <3>5. Group(queue, KeyOf[f.row]) = group
      BY <3>4 DEF Group
    <3>6. f \in kept
      <4>1. \A g \in group : ~ (g.at > f.at)
        BY <3>1, <3>4 DEF Entry
      <4>2. QED
        BY <3>1, <3>4, <3>5, <4>1 DEF Surviving, Superseded
    <3>7. CASE Uniform(group)
      BY <3>1, <3>4, <3>6, <3>7 DEF Uniform
    <3>8. CASE ~ Uniform(group)
      BY <3>1, <3>8 DEF Surviving, Superseded
    <3>9. QED
      BY <3>7, <3>8
  <2>5. Payloads(RowsOf(queue)) \subseteq Payloads(RowsOf(Dedupe(queue)))
    <3>1. ASSUME NEW e \in queue
          PROVE  PayloadOf[e.row] \in Payloads(RowsOf(Dedupe(queue)))
      <4>1. PICK f \in kept : PayloadOf[f.row] = PayloadOf[e.row]
        BY <2>4
      <4>2. moved(f) \in Dedupe(queue) /\ moved(f).row = f.row
        BY <2>1, <2>2, <2>3
      <4>3. QED
        BY <4>1, <4>2 DEF Payloads, RowsOf
    <3>2. QED
      BY <3>1 DEF Payloads, RowsOf
  <2>6. QED
    BY <2>1, <2>2, <2>3, <2>5
<1>3. QED
  BY <1>1, <1>2

(***************************************************************************)
(* Deduplication yields a finite queue with the same arrival numbers.      *)
(***************************************************************************)
LEMMA DedupeStamped ==
    ASSUME NEW queue, queue \subseteq Entry, offered \in Nat, Stamped(queue)
    PROVE  Stamped(Dedupe(queue))
<1>1. \A d \in Dedupe(queue) : d.at <= offered
  <2>1. \A d \in Dedupe(queue) : \E e \in queue : d.at = e.at
    BY DedupeKeepsPayloads DEF Stamped
  <2>2. QED
    BY <2>1 DEF Stamped
<1>2. IsFiniteSet(Surviving(queue))
  BY FS_Subset DEF Stamped, Surviving
<1>3. CASE Surviving(queue) = queue
  BY <1>3 DEF Dedupe, Stamped
<1>4. CASE Surviving(queue) # queue
  <2> DEFINE kept == Surviving(queue)
             move == [e \in kept |->
                        [e EXCEPT !.grp = FirstGrp(Group(queue, KeyOf[e.row]))]]
  <2>1. Dedupe(queue) = {move[e] : e \in kept}
    BY <1>4 DEF Dedupe, Regroup
  <2>2. move \in Surjection(kept, Dedupe(queue))
    BY <2>1 DEF Surjection
  <2>3. IsFiniteSet(Dedupe(queue))
    BY <1>2, <2>2, FS_Surjection
  <2>4. QED
    BY <1>1, <2>3 DEF Stamped
<1>5. QED
  BY <1>3, <1>4

(***************************************************************************)
(* What enqueueRows may add: at most as many rows as were offered, each    *)
(* with a fresh arrival number.                                            *)
(***************************************************************************)
LEMMA ArrivalsType ==
    ASSUME TypeOK, IsFiniteSet(mem.queue), NEW batch \in Batches, ConstantsAssumption
    PROVE  /\ Admitted(batch) \in 0..Len(batch) /\ Len(batch) \in Nat
           /\ Arrivals(batch) \subseteq Entry
           /\ IsFiniteSet(Arrivals(batch))
           /\ \A e \in Arrivals(batch) : e.at <= offered + Len(batch)
<1>1. PICK n \in Nat : batch \in [1..n -> Rows]
  BY DEF Batches, ConstantsAssumption
<1>2. Len(batch) = n /\ Len(batch) \in Nat
  BY <1>1
<1>3. Cardinality(mem.queue) \in Nat
  BY FS_CardinalityType
<1>4. Admitted(batch) \in 0..Len(batch)
  BY <1>2, <1>3 DEF Admitted, ConstantsAssumption
<1>5. Arrivals(batch) \subseteq Entry
  BY <1>1, <1>2, <1>4 DEF Arrivals, Entry, TypeOK
<1>6. \A e \in Arrivals(batch) : e.at <= offered + Len(batch)
  BY <1>2, <1>4 DEF Arrivals, TypeOK
<1>7. IsFiniteSet(Arrivals(batch))
  <2> DEFINE count == Admitted(batch)
             enter == [i \in 1..count |->
                         [row |-> batch[i], at |-> offered + i, grp |-> offered + i]]
  <2>1. IsFiniteSet(1..count)
    <3>1. count \in Int /\ 1 \in Int
      BY <1>4, <1>2
    <3> HIDE DEF count
    <3>2. QED
      BY <3>1, FS_Interval
  <2>2. enter \in Surjection(1..count, Arrivals(batch))
    BY DEF Surjection, Arrivals
  <2>3. QED
    BY <2>1, <2>2, FS_Surjection
<1>8. QED
  BY <1>2, <1>4, <1>5, <1>6, <1>7

-----------------------------------------------------------------------------
(***************************************************************************)
(* Type correctness.  TypeOK alone is not inductive: the room left for a   *)
(* batch is a number only because the queues are finite, and the budget    *)
(* stays a natural only because it is tested before a chunk is selected.   *)
(***************************************************************************)
Typed ==
    /\ TypeOK
    /\ Stamped(mem.queue) /\ Stamped(disk.queue)
    /\ pc = "select" => budget > 0

(***************************************************************************)
(* An edit whose new contents are well typed leaves both copies well typed *)
(* whether or not it reaches the file.                                     *)
(***************************************************************************)
LEMMA CommitTyped ==
    ASSUME Typed, NEW new \in Prefs, Stamped(new.queue), Commit(new), UNCHANGED offered
    PROVE  /\ mem' \in Prefs /\ disk' \in Prefs
           /\ Stamped(mem.queue)' /\ Stamped(disk.queue)'
  BY DEF Typed, TypeOK, Commit, Stamped

LEMMA FewerStamped ==
    ASSUME NEW queue, Stamped(queue), NEW fewer \in SUBSET queue
    PROVE  Stamped(fewer)
  BY FS_Subset DEF Stamped

LEMMA QuarantineTyped ==
    ASSUME Typed, NEW rows \in SUBSET Rows, Quarantine(rows), UNCHANGED offered
    PROVE  /\ mem' \in Prefs /\ disk' \in Prefs
           /\ Stamped(mem.queue)' /\ Stamped(disk.queue)'
<1> DEFINE fewer == {e \in mem.queue : e.row \notin rows}
           new == [mem EXCEPT !.queue = fewer, !.quarantine = @ \cup rows]
<1>1. mem \in Prefs
  BY DEF Typed, TypeOK
<1>2. new \in Prefs /\ new.queue = fewer
  BY <1>1 DEF Prefs
<1>3. Stamped(fewer)
  BY FewerStamped DEF Typed
<1>4. Commit(new)
  BY DEF Quarantine
<1>5. QED
  <2> HIDE DEF new
  <2> QED
    BY <1>2, <1>3, <1>4, CommitTyped

LEMMA TypedStep ==
    ASSUME Typed, [Next]_vars, ConstantsAssumption
    PROVE  Typed'
<1> USE DEF Typed
<1>1. CASE StartPass
  <2>1. mem' \in Prefs /\ disk' \in Prefs /\ Stamped(mem.queue)' /\ Stamped(disk.queue)'
    <3> DEFINE new == [mem EXCEPT !.queue = Dedupe(mem.queue)]
    <3>1. CASE UNCHANGED prefs
      BY <1>1, <3>1 DEF StartPass, prefs, TypeOK, Stamped
    <3>2. CASE Commit(new)
      <4>1. mem \in Prefs /\ mem.queue \subseteq Entry /\ offered \in Nat
        BY DEF TypeOK, Prefs
      <4>2. Dedupe(mem.queue) \subseteq Entry /\ Stamped(Dedupe(mem.queue))
        BY <4>1, DedupeKeepsPayloads, DedupeStamped DEF Stamped
      <4>3. new \in Prefs /\ new.queue = Dedupe(mem.queue)
        BY <4>1, <4>2 DEF Prefs
      <4>4. UNCHANGED offered
        BY <1>1 DEF StartPass
      <4> HIDE DEF new
      <4>5. QED
        BY <3>2, <4>2, <4>3, <4>4, CommitTyped
    <3>3. QED
      BY <1>1, <3>1, <3>2 DEF StartPass
  <2>2. QED
    BY <1>1, <2>1 DEF StartPass, TypeOK, ConstantsAssumption
<1>2. CASE QuarantineBlank
  <2> DEFINE blank == RowsOf(mem.queue) \cap Blank
  <2>1. mem' \in Prefs /\ disk' \in Prefs /\ Stamped(mem.queue)' /\ Stamped(disk.queue)'
    <3>1. blank \subseteq Rows /\ UNCHANGED offered
      BY <1>2 DEF QuarantineBlank, ConstantsAssumption
    <3>2. CASE UNCHANGED prefs
      BY <3>1, <3>2 DEF prefs, TypeOK, Stamped
    <3>3. CASE Quarantine(blank)
      BY <3>1, <3>3, QuarantineTyped
    <3>4. QED
      BY <1>2, <3>2, <3>3 DEF QuarantineBlank, prefs
  <2>2. poisoned' \in BOOLEAN
    BY <1>2 DEF QuarantineBlank, TypeOK
  <2>3. QED
    BY <1>2, <2>1, <2>2 DEF QuarantineBlank, TypeOK
<1>3. CASE QuarantineRefused
  <2>1. mem' \in Prefs /\ disk' \in Prefs /\ Stamped(mem.queue)' /\ Stamped(disk.queue)'
    <3>1. refused \subseteq Rows /\ UNCHANGED offered
      BY <1>3 DEF QuarantineRefused, TypeOK
    <3>2. CASE UNCHANGED prefs
      BY <3>1, <3>2 DEF prefs, TypeOK, Stamped
    <3>3. CASE Quarantine(refused)
      BY <3>1, <3>3, QuarantineTyped
    <3>4. QED
      BY <1>3, <3>2, <3>3 DEF QuarantineRefused, prefs
  <2>2. poisoned' \in BOOLEAN
    BY <1>3 DEF QuarantineRefused, TypeOK
  <2>3. QED
    BY <1>3, <2>1, <2>2 DEF QuarantineRefused, TypeOK
<1>4. CASE RemoveAcked
  <2> DEFINE fewer == {e \in mem.queue : e.row \notin acked}
             new == [mem EXCEPT !.queue = fewer]
  <2>1. mem' \in Prefs /\ disk' \in Prefs /\ Stamped(mem.queue)' /\ Stamped(disk.queue)'
    <3>1. UNCHANGED offered
      BY <1>4 DEF RemoveAcked
    <3>2. CASE UNCHANGED prefs
      BY <3>1, <3>2 DEF prefs, TypeOK, Stamped
    <3>3. CASE Commit(new)
      <4>1. mem \in Prefs
        BY DEF TypeOK
      <4>2. new \in Prefs /\ new.queue = fewer
        BY <4>1 DEF Prefs
      <4>3. Stamped(fewer)
        BY FewerStamped
      <4> HIDE DEF new
      <4>4. QED
        BY <3>1, <3>3, <4>2, <4>3, CommitTyped
    <3>4. QED
      BY <1>4, <3>2, <3>3 DEF RemoveAcked, prefs
  <2>2. QED
    BY <1>4, <2>1 DEF RemoveAcked, TypeOK
<1>5. CASE CommitTracking
  <2> DEFINE new == [mem EXCEPT !.overflow = OverflowAfterDrain, !.complete = CompleteAfterDrain]
  <2>1. mem \in Prefs /\ Commit(new) /\ UNCHANGED offered
    BY <1>5 DEF TypeOK, CommitTracking
  <2>2. OverflowAfterDrain \in BOOLEAN /\ CompleteAfterDrain \in BOOLEAN
    BY <2>1 DEF OverflowAfterDrain, CompleteAfterDrain, TypeOK, Prefs
  <2>3. new \in Prefs /\ new.queue = mem.queue
    BY <2>1, <2>2 DEF Prefs
  <2>4. mem' \in Prefs /\ disk' \in Prefs /\ Stamped(mem.queue)' /\ Stamped(disk.queue)'
    <3> HIDE DEF new
    <3> QED
      BY <2>1, <2>3, CommitTyped
  <2>5. QED
    BY <1>5, <2>4 DEF CommitTracking, ForgetPass, TypeOK
<1>6. CASE \E batch \in Batches : Enqueue(batch)
  <2>1. PICK batch \in Batches : Enqueue(batch)
    BY <1>6
  <2>2. /\ Admitted(batch) \in 0..Len(batch) /\ Len(batch) \in Nat
        /\ Arrivals(batch) \subseteq Entry /\ IsFiniteSet(Arrivals(batch))
        /\ \A e \in Arrivals(batch) : e.at <= offered + Len(batch)
    BY ArrivalsType DEF Stamped
  <2>3. mem' \in Prefs /\ mem'.queue = mem.queue \cup Arrivals(batch)
    <3> DEFINE rejects == Len(batch) - Admitted(batch)
               queued == [mem EXCEPT !.queue = @ \cup Arrivals(batch)]
    <3>1. mem \in Prefs /\ rejects \in Nat
      BY <2>2 DEF TypeOK
    <3>2. queued \in Prefs /\ queued.queue = mem.queue \cup Arrivals(batch)
      BY <3>1, <2>2 DEF Prefs
    <3>3. mem' = AfterEnqueue(batch)
      BY <2>1 DEF Enqueue
    <3>4. \/ mem' = [queued EXCEPT !.rejected = @ + rejects, !.overflow = TRUE, !.complete = FALSE]
          \/ mem' = [queued EXCEPT !.overflow = FALSE, !.complete = @ \/ mem.rejected = 0]
          \/ mem' = queued
      BY <3>3 DEF AfterEnqueue
    <3> HIDE DEF queued, rejects
    <3>5. CASE mem' = [queued EXCEPT !.rejected = @ + rejects, !.overflow = TRUE, !.complete = FALSE]
      <4>1. queued.rejected + rejects \in Nat
        BY <3>1, <3>2 DEF Prefs
      <4>2. PICK r \in Nat : mem' = [queued EXCEPT !.rejected = r, !.overflow = TRUE,
                                                  !.complete = FALSE]
        BY <3>5, <4>1, Zenon
      <4>3. QED
        BY <3>2, <4>2 DEF Prefs
    <3>6. CASE mem' = [queued EXCEPT !.overflow = FALSE, !.complete = @ \/ mem.rejected = 0]
      <4>1. PICK c \in BOOLEAN : mem' = [queued EXCEPT !.overflow = FALSE, !.complete = c]
        BY <3>6, Zenon
      <4>2. QED
        BY <3>1, <3>2, <4>1 DEF Prefs
    <3>7. QED
      BY <3>2, <3>4, <3>5, <3>6
  <2>4. offered' \in Nat /\ offered <= offered' /\ disk' = disk
    BY <2>1, <2>2 DEF Enqueue, TypeOK
  <2>5. Stamped(mem.queue)'
    <3>1. IsFiniteSet(mem'.queue)
      BY <2>2, <2>3, FS_Union DEF Stamped
    <3>2. ASSUME NEW e \in mem'.queue
          PROVE  e.at <= offered'
      <4>1. CASE e \in mem.queue
        <5>1. e.at <= offered /\ e.at \in Nat /\ offered \in Nat
          BY <4>1 DEF Stamped, TypeOK, Prefs, Entry
        <5>2. QED
          BY <5>1, <2>4
      <4>2. CASE e \in Arrivals(batch)
        BY <2>1, <2>2, <4>2 DEF Enqueue
      <4>3. QED
        BY <2>3, <4>1, <4>2
    <3>3. QED
      BY <3>1, <3>2 DEF Stamped
  <2>6. Stamped(disk.queue)'
    <3>1. ASSUME NEW e \in disk.queue
          PROVE  e.at <= offered'
      <4>1. e.at <= offered /\ e.at \in Nat /\ offered \in Nat
        BY DEF Stamped, TypeOK, Prefs, Entry
      <4>2. QED
        BY <4>1, <2>4
    <3>2. QED
      BY <2>4, <3>1 DEF Stamped
  <2>7. QED
    BY <2>1, <2>3, <2>4, <2>5, <2>6 DEF Enqueue, TypeOK, locals
<1>7. CASE \/ StopAtBudget \/ SelectChunk \/ SelectNothing
           \/ PostChunkAnswered \/ PostChunkDisturbed \/ PostRowAnswered \/ PostRowDisturbed
  <2>1. UNCHANGED <<prefs, offered, crashes>>
    BY <1>7 DEF StopAtBudget, SelectChunk, SelectNothing, PostChunkAnswered,
         PostChunkDisturbed, PostRowAnswered, PostRowDisturbed, prefs
  <2>2. /\ mem' \in Prefs /\ disk' \in Prefs /\ Stamped(mem.queue)' /\ Stamped(disk.queue)'
        /\ offered' \in Nat /\ crashes' \in Nat
    BY <2>1 DEF prefs, TypeOK, Stamped
  <2>3. mem.queue \subseteq Entry /\ chunk \subseteq Entry /\ left \subseteq Entry
    BY DEF TypeOK, Prefs
  <2>4. CASE StopAtBudget \/ SelectNothing
    BY <2>2, <2>4 DEF StopAtBudget, SelectNothing, TypeOK
  <2>5. CASE SelectChunk
    <3>1. budget' \in Nat
      BY <2>5 DEF SelectChunk, TypeOK
    <3>2. QED
      BY <2>2, <2>3, <2>5, <3>1 DEF SelectChunk, TypeOK
  <2>6. CASE PostChunkAnswered \/ PostChunkDisturbed
    <3>1. RowsOf(chunk) \subseteq Rows
      BY <2>3 DEF RowsOf, Entry
    <3>2. QED
      BY <2>2, <2>6, <3>1 DEF PostChunkAnswered, PostChunkDisturbed, ChunkAccepted,
           ChunkDuplicate, ChunkPoisonous, ChunkSchemaRejected, ChunkFailed, RetryOneByOne,
           TypeOK
  <2>7. CASE PostRowAnswered \/ PostRowDisturbed
    <3>1. \A e \in left : e.row \in Rows
      BY <2>3 DEF Entry
    <3>2. QED
      BY <2>2, <2>7, <3>1 DEF PostRowAnswered, PostRowDisturbed, RowConfirmed, RowRefused,
           RowFailed, TypeOK
  <2>8. QED
    BY <1>7, <2>4, <2>5, <2>6, <2>7
<1>8. CASE WritePrefs
  BY <1>8 DEF WritePrefs, TypeOK, Stamped, locals
<1>9. CASE ProcessDeath \/ PassThrows
  <2>1. ForgetPass /\ crashes' = crashes + 1 /\ UNCHANGED <<disk, server, offered>>
    BY <1>9 DEF ProcessDeath, PassThrows, prefs
  <2>2. mem' = mem \/ mem' = disk
    BY <1>9 DEF ProcessDeath, PassThrows, prefs
  <2>3. mem' \in Prefs /\ disk' \in Prefs /\ Stamped(mem.queue)' /\ Stamped(disk.queue)'
    BY <2>1, <2>2 DEF TypeOK, Stamped
  <2>4. offered' \in Nat /\ crashes' \in Nat /\ server' \subseteq Rows
    BY <2>1 DEF TypeOK
  <2>5. TypeOK'
    BY <2>1, <2>3, <2>4 DEF ForgetPass, TypeOK
  <2>6. pc' # "select"
    BY <2>1 DEF ForgetPass
  <2>7. QED
    BY <2>3, <2>5, <2>6
<1>10. CASE UNCHANGED vars
  BY <1>10 DEF vars, prefs, locals, TypeOK, Stamped
<1>11. QED
  BY <1>1, <1>2, <1>3, <1>4, <1>5, <1>6, <1>7, <1>8, <1>9, <1>10 DEF Next, PassStep

LEMMA TypedInit == Init => Typed
<1> SUFFICES ASSUME Init PROVE Typed
  OBVIOUS
<1>1. IsFiniteSet({})
  BY FS_EmptySet
<1>2. mem \in Prefs /\ disk = mem /\ mem.queue = {}
  BY DEF Init, Prefs
<1>3. TypeOK
  BY <1>2 DEF Init, TypeOK
<1>4. Stamped(mem.queue) /\ Stamped(disk.queue)
  BY <1>1, <1>2 DEF Stamped
<1>5. QED
  BY <1>3, <1>4 DEF Typed, Init

(***************************************************************************)
(* The model's state always has the type the code gives it.                *)
(***************************************************************************)
THEOREM TypeCorrect == Spec => []TypeOK
<1>1. Init => Typed
  BY TypedInit
<1>2. Typed /\ [Next]_vars => Typed'
  BY TypedStep, ConstantsAssumption
<1>3. Typed => TypeOK
  BY DEF Typed
<1>4. QED
  BY <1>1, <1>2, <1>3, PTL DEF Spec

-----------------------------------------------------------------------------
(***************************************************************************)
(* No tick is lost.  Every step of the system is one of three kinds: it    *)
(* rewrites the preferences without dropping an unaccounted payload, it    *)
(* lets the server learn rows, or the process dies.                        *)
(***************************************************************************)
Keeps(p, q) ==
    /\ Waiting(p) \subseteq Waiting(q) \cup Delivered \cup Retained(q)
    /\ Retained(p) \subseteq Retained(q)

Rewrites == Keeps(mem, mem') /\ (disk' = disk \/ disk' = mem') /\ UNCHANGED server

Learns == server \subseteq server' /\ UNCHANGED prefs

Dies == mem' = disk /\ UNCHANGED <<disk, server>> /\ crashes' > crashes

(***************************************************************************)
(* The strengthening: a row is acknowledged in the pass only after the     *)
(* server has stored it.                                                   *)
(***************************************************************************)
Confirmed == acked \subseteq server

LEMMA KeepsReflexive == \A p : Keeps(p, p)
  BY DEF Keeps

(***************************************************************************)
(* Moving rows to the quarantine keeps their payloads there.               *)
(***************************************************************************)
LEMMA QuarantineRewrites ==
    ASSUME Typed, NEW rows, Quarantine(rows), UNCHANGED server
    PROVE  Rewrites
<1>1. mem \in Prefs
  BY DEF Typed, TypeOK
<1>2. /\ mem'.queue = {e \in mem.queue : e.row \notin rows}
      /\ mem'.quarantine = mem.quarantine \cup rows
  BY <1>1 DEF Quarantine, Commit, Prefs
<1>3. disk' = disk \/ disk' = mem'
  BY DEF Quarantine, Commit
<1>4. Retained(mem) \subseteq Retained(mem')
  BY <1>2 DEF Retained, Payloads
<1>5. ASSUME NEW e \in mem.queue
      PROVE  PayloadOf[e.row] \in Waiting(mem') \cup Retained(mem')
  <2>1. CASE e.row \in rows
    BY <1>2, <2>1 DEF Retained, Payloads
  <2>2. CASE e.row \notin rows
    BY <1>2, <2>2 DEF Waiting, Payloads, RowsOf
  <2>3. QED
    BY <2>1, <2>2
<1>6. Waiting(mem) \subseteq Waiting(mem') \cup Retained(mem')
  BY <1>5 DEF Waiting, Payloads, RowsOf
<1>7. QED
  BY <1>3, <1>4, <1>6 DEF Rewrites, Keeps

LEMMA StepKinds ==
    ASSUME Typed, Confirmed, [Next]_vars, ConstantsAssumption
    PROVE  Rewrites \/ Learns \/ Dies
<1>1. mem \in Prefs /\ mem.queue \subseteq Entry
  BY DEF Typed, TypeOK, Prefs
<1>2. ASSUME UNCHANGED <<prefs, server>>
      PROVE  Rewrites
  BY <1>2, KeepsReflexive DEF Rewrites, prefs
<1>3. CASE StartPass
  <2>1. CASE UNCHANGED prefs
    BY <1>2, <1>3, <2>1 DEF StartPass
  <2>2. CASE Commit([mem EXCEPT !.queue = Dedupe(mem.queue)])
    <3>1. mem'.queue = Dedupe(mem.queue) /\ mem'.quarantine = mem.quarantine
      BY <1>1, <2>2 DEF Commit, Prefs
    <3>2. Waiting(mem) \subseteq Waiting(mem')
      <4>1. offered \in Nat /\ \A e \in mem.queue : e.at <= offered
        BY DEF Typed, TypeOK, Stamped
      <4>2. Payloads(RowsOf(mem.queue)) \subseteq Payloads(RowsOf(Dedupe(mem.queue)))
        BY <1>1, <4>1, DedupeKeepsPayloads
      <4>3. QED
        BY <3>1, <4>2 DEF Waiting
    <3>3. Retained(mem) \subseteq Retained(mem')
      BY <3>1 DEF Retained
    <3>4. QED
      BY <1>3, <2>2, <3>2, <3>3 DEF Rewrites, Keeps, Commit, StartPass
  <2>3. QED
    BY <1>3, <2>1, <2>2 DEF StartPass
<1>4. CASE QuarantineBlank \/ QuarantineRefused
  BY <1>2, <1>4, QuarantineRewrites DEF QuarantineBlank, QuarantineRefused, prefs
<1>5. CASE RemoveAcked
  <2>1. CASE UNCHANGED prefs
    BY <1>2, <1>5, <2>1 DEF RemoveAcked
  <2>2. CASE Commit([mem EXCEPT !.queue = {e \in mem.queue : e.row \notin acked}])
    <3>1. /\ mem'.queue = {e \in mem.queue : e.row \notin acked}
          /\ mem'.quarantine = mem.quarantine
      BY <1>1, <2>2 DEF Commit, Prefs
    <3>2. ASSUME NEW e \in mem.queue
          PROVE  PayloadOf[e.row] \in Waiting(mem') \cup Delivered
      <4>1. CASE e.row \in acked
        BY <4>1 DEF Confirmed, Delivered, Payloads
      <4>2. CASE e.row \notin acked
        BY <3>1, <4>2 DEF Waiting, Payloads, RowsOf
      <4>3. QED
        BY <4>1, <4>2
    <3>3. Waiting(mem) \subseteq Waiting(mem') \cup Delivered
      BY <3>2 DEF Waiting, Payloads, RowsOf
    <3>4. Retained(mem) \subseteq Retained(mem')
      BY <3>1 DEF Retained
    <3>5. QED
      BY <1>5, <2>2, <3>3, <3>4 DEF Rewrites, Keeps, Commit, RemoveAcked
  <2>3. QED
    BY <1>5, <2>1, <2>2 DEF RemoveAcked
<1>6. CASE CommitTracking
  <2>1. mem'.queue = mem.queue /\ mem'.quarantine = mem.quarantine
    BY <1>1, <1>6 DEF CommitTracking, Commit, Prefs
  <2>2. Keeps(mem, mem')
    BY <2>1 DEF Keeps, Waiting, Retained
  <2>3. QED
    BY <1>6, <2>2 DEF CommitTracking, Commit, Rewrites
<1>7. CASE \E batch \in Batches : Enqueue(batch)
  <2>1. PICK batch \in Batches : Enqueue(batch)
    BY <1>7
  <2>2. mem'.quarantine = mem.quarantine /\ mem.queue \subseteq mem'.queue
    <3> DEFINE queued == [mem EXCEPT !.queue = @ \cup Arrivals(batch)]
    <3>1. queued.quarantine = mem.quarantine /\ mem.queue \subseteq queued.queue
      BY <1>1 DEF Prefs
    <3>2. mem'.quarantine = queued.quarantine /\ mem'.queue = queued.queue
      <4>1. mem' = AfterEnqueue(batch)
        BY <2>1 DEF Enqueue
      <4>2. QED
        BY <1>1, <4>1 DEF AfterEnqueue, Prefs
    <3>3. QED
      BY <3>1, <3>2
  <2>3. Waiting(mem) \subseteq Waiting(mem')
    BY <2>2 DEF Waiting, Payloads, RowsOf
  <2>4. Keeps(mem, mem')
    BY <2>2, <2>3 DEF Keeps, Retained
  <2>5. QED
    BY <2>1, <2>4 DEF Enqueue, Rewrites
<1>8. CASE StopAtBudget \/ SelectChunk \/ SelectNothing \/ PassThrows \/ UNCHANGED vars
  BY <1>2, <1>8 DEF StopAtBudget, SelectChunk, SelectNothing, PassThrows, vars
<1>9. CASE \/ PostChunkAnswered \/ PostChunkDisturbed
           \/ PostRowAnswered \/ PostRowDisturbed
  <2>1. UNCHANGED prefs
    BY <1>9 DEF PostChunkAnswered, PostChunkDisturbed, PostRowAnswered, PostRowDisturbed
  <2>2. server \subseteq server'
    BY <1>9 DEF PostChunkAnswered, PostChunkDisturbed, PostRowAnswered, PostRowDisturbed,
         ChunkAccepted, ChunkDuplicate, ChunkPoisonous, ChunkSchemaRejected, ChunkFailed,
         RetryOneByOne, RowConfirmed, RowRefused, RowFailed
  <2>3. QED
    BY <2>1, <2>2 DEF Learns
<1>10. CASE WritePrefs
  BY <1>10, KeepsReflexive DEF WritePrefs, Rewrites
<1>11. CASE ProcessDeath
  BY <1>11 DEF ProcessDeath, Dies, Typed, TypeOK
<1>12. QED
  BY <1>3, <1>4, <1>5, <1>6, <1>7, <1>8, <1>9, <1>10, <1>11 DEF Next, PassStep

(***************************************************************************)
(* A row is confirmed by an insertion or by a duplicate answer, and both   *)
(* mean that the server has the row.                                       *)
(***************************************************************************)
LEMMA ConfirmedStep ==
    ASSUME Typed, Confirmed, [Next]_vars
    PROVE  Confirmed'
<1> USE DEF Confirmed
<1>1. CASE ForgetPass \/ RemoveAcked
  BY <1>1 DEF ForgetPass, RemoveAcked
<1>2. CASE UNCHANGED <<acked, server>>
  BY <1>2
<1>3. CASE PostChunkAnswered \/ PostChunkDisturbed
  BY <1>3 DEF PostChunkAnswered, PostChunkDisturbed, ChunkAccepted, ChunkDuplicate,
       ChunkPoisonous, ChunkSchemaRejected, ChunkFailed, RetryOneByOne
<1>4. CASE PostRowAnswered \/ PostRowDisturbed
  <2>1. PICK e \in left : RowConfirmed(e) \/ RowRefused(e) \/ RowFailed(e)
    BY <1>4 DEF PostRowAnswered, PostRowDisturbed
  <2>2. CASE RowConfirmed(e)
    <3>1. e.grp \in Nat /\ e.at \in Nat
      BY DEF Typed, TypeOK, Entry
    <3>2. ~ Before(e, e)
      BY <3>1 DEF Before
    <3>3. e.row \in server'
      BY <2>2, <3>2 DEF RowConfirmed, Repeats, Repeated
    <3>4. QED
      BY <2>2, <3>3 DEF RowConfirmed
  <2>3. CASE RowRefused(e) \/ RowFailed(e)
    BY <2>3 DEF RowRefused, RowFailed
  <2>4. QED
    BY <2>1, <2>2, <2>3
<1>5. QED
  BY <1>1, <1>2, <1>3, <1>4 DEF Next, PassStep, StartPass, QuarantineBlank, StopAtBudget,
     SelectChunk, SelectNothing, QuarantineRefused, CommitTracking, Enqueue, WritePrefs,
     ProcessDeath, PassThrows, vars, locals

Secured == Typed /\ Confirmed /\ NoTickLost

LEMMA SecuredInit == Init => Secured
<1> SUFFICES ASSUME Init PROVE Secured
  OBVIOUS
<1>1. Typed
  BY TypedInit
<1>2. Confirmed
  BY DEF Init, Confirmed
<1>3. disk = mem
  BY DEF Init
<1>4. NoTickLost
  BY <1>3 DEF NoTickLost
<1>5. QED
  BY <1>1, <1>2, <1>4 DEF Secured

LEMMA SecuredStep ==
    ASSUME Secured, [Next]_vars, ConstantsAssumption
    PROVE  Secured'
<1>1. Typed /\ Confirmed /\ NoTickLost
  BY DEF Secured
<1>2. Typed'
  BY <1>1, TypedStep
<1>3. Confirmed'
  BY <1>1, ConfirmedStep
<1>4. NoTickLost'
  <2>1. CASE Rewrites
    <3>1. Delivered' = Delivered
      BY <2>1 DEF Rewrites, Delivered
    <3>2. CASE disk' = disk
      <4>1. /\ Waiting(disk) \subseteq Waiting(mem') \cup Delivered \cup Retained(mem')
            /\ Retained(disk) \subseteq Retained(mem')
        BY <1>1, <2>1 DEF Rewrites, Keeps, NoTickLost
      <4>2. QED
        BY <3>1, <3>2, <4>1 DEF NoTickLost, Waiting, Retained
    <3>3. CASE disk' = mem'
      BY <3>3 DEF NoTickLost, Waiting, Retained
    <3>4. QED
      BY <2>1, <3>2, <3>3 DEF Rewrites
  <2>2. CASE Learns
    <3>1. Delivered \subseteq Delivered'
      BY <2>2 DEF Learns, Delivered, Payloads
    <3>2. UNCHANGED prefs
      BY <2>2 DEF Learns
    <3>3. QED
      BY <1>1, <3>1, <3>2 DEF NoTickLost, prefs, Waiting, Retained
  <2>3. CASE Dies
    BY <2>3 DEF Dies, NoTickLost, Waiting, Retained
  <2>4. QED
    BY <1>1, <2>1, <2>2, <2>3, StepKinds
<1>5. QED
  BY <1>2, <1>3, <1>4 DEF Secured

(***************************************************************************)
(* Whatever the file still holds is held by the running process, by the    *)
(* server or by the quarantine: no drain, retry, dedupe or quarantine edit *)
(* loses a tick (PositionTickDrain.kt, PositionTickDrainCoordinator.kt).   *)
(***************************************************************************)
THEOREM TicksAreKept == Spec => []NoTickLost
<1>1. Secured /\ [Next]_vars => Secured'
  BY SecuredStep, ConstantsAssumption
<1>2. Secured => NoTickLost
  BY DEF Secured
<1>3. QED
  BY SecuredInit, <1>1, <1>2, PTL DEF Spec

(***************************************************************************)
(* As long as the process lives, a tick leaves the in-memory queue only    *)
(* when the server holds its payload or the quarantine does.               *)
(***************************************************************************)
THEOREM MemoryKept == Spec => MemoryKeepsTicks
<1> DEFINE Kept == \/ Waiting(mem) \subseteq (Waiting(mem) \cup Delivered \cup Retained(mem))'
                   \/ crashes' > crashes
<1>1. Secured /\ [Next]_vars => Secured'
  BY SecuredStep, ConstantsAssumption
<1>2. Secured /\ [Next]_vars => [Kept]_vars
  <2> SUFFICES ASSUME Secured, [Next]_vars PROVE Kept
    OBVIOUS
  <2>1. Rewrites \/ Learns \/ Dies
    BY StepKinds, ConstantsAssumption DEF Secured
  <2>2. CASE Rewrites
    BY <2>2 DEF Rewrites, Keeps, Waiting, Delivered, Retained
  <2>3. CASE Learns
    BY <2>3 DEF Learns, prefs, Waiting
  <2>4. CASE Dies
    BY <2>4 DEF Dies
  <2>5. QED
    BY <2>1, <2>2, <2>3, <2>4
<1>3. QED
  <2> HIDE DEF Kept
  <2>1. Spec => [][Kept]_vars
    BY SecuredInit, <1>1, <1>2, PTL DEF Spec
  <2>2. QED
    BY <2>1 DEF Kept, MemoryKeepsTicks

-----------------------------------------------------------------------------
(***************************************************************************)
(* The refinement.  An edit that reaches the file, and the delayed write   *)
(* of one that did not, rewrite the ledger; what the server learns is a    *)
(* delivery; everything else, a process death included, leaves it alone.   *)
(***************************************************************************)
LEMMA LedgerStep ==
    ASSUME Secured, [Next]_vars, ConstantsAssumption
    PROVE  [Ledger!Next]_Ledger!ledger
<1>1. Rewrites \/ Learns \/ Dies
  BY StepKinds DEF Secured
<1>2. ASSUME UNCHANGED <<disk, server>>
      PROVE  UNCHANGED Ledger!ledger
  BY <1>2 DEF Ledger!ledger, Waiting, Delivered, Retained
<1>3. CASE Rewrites
  <2>1. CASE disk' = disk
    BY <1>2, <1>3, <2>1 DEF Rewrites
  <2>2. CASE disk' = mem'
    <3>1. Keeps(mem, mem') /\ NoTickLost
      BY <1>3 DEF Rewrites, Secured
    <3>2. Retained(disk) \subseteq Retained(mem')
      BY <3>1 DEF Keeps, NoTickLost
    <3>3. Waiting(disk) \subseteq Waiting(mem') \cup Delivered \cup Retained(mem')
      BY <3>1 DEF Keeps, NoTickLost
    <3>4. Waiting(disk)' = Waiting(mem') /\ Retained(disk)' = Retained(mem')
      BY <2>2 DEF Waiting, Retained
    <3>5. Delivered' = Delivered
      BY <1>3 DEF Rewrites, Delivered
    <3>6. Ledger!Rewrite
      BY <3>2, <3>3, <3>4, <3>5 DEF Ledger!Rewrite
    <3>7. QED
      BY <3>6 DEF Ledger!Next
  <2>3. QED
    BY <1>3, <2>1, <2>2 DEF Rewrites
<1>4. CASE Learns
  <2>1. Delivered \subseteq Delivered'
    BY <1>4 DEF Learns, Delivered, Payloads
  <2>2. UNCHANGED <<Waiting(disk), Retained(disk)>>
    BY <1>4 DEF Learns, prefs, Waiting, Retained
  <2>3. QED
    BY <2>1, <2>2 DEF Ledger!Next, Ledger!Deliver
<1>5. CASE Dies
  BY <1>2, <1>5 DEF Dies
<1>6. QED
  BY <1>1, <1>3, <1>4, <1>5

(***************************************************************************)
(* The tick queue implements the evidence ledger: across lost commits,     *)
(* delayed writes, restarts and half-finished passes, a payload leaves the *)
(* preferences file only for the server or the quarantine.                 *)
(***************************************************************************)
THEOREM EvidenceIsDurable == Spec => DurableEvidence
<1>1. Init => Ledger!Init
  <2> SUFFICES ASSUME Init PROVE Ledger!Init
    OBVIOUS
  <2>1. disk.queue = {} /\ disk.quarantine = {} /\ server = {}
    BY DEF Init
  <2>2. QED
    BY <2>1 DEF Ledger!Init, Waiting, Delivered, Retained, Payloads, RowsOf
<1>2. Secured /\ [Next]_vars => Secured'
  BY SecuredStep, ConstantsAssumption
<1>3. Secured /\ [Next]_vars => [Ledger!Next]_Ledger!ledger
  BY LedgerStep, ConstantsAssumption
<1>4. QED
  BY SecuredInit, <1>1, <1>2, <1>3, PTL DEF Spec, DurableEvidence, Ledger!Spec

(***************************************************************************)
(* Once the preferences file, the server or the quarantine has a payload,  *)
(* one of them has it forever.                                             *)
(***************************************************************************)
THEOREM TickNeverForgotten ==
    ASSUME NEW CONSTANT payload
    PROVE  Spec => Ledger!NeverForgotten(payload)
<1> DEFINE Kept == Ledger!Accounted(payload)
<1>1. Kept /\ [Ledger!Next]_Ledger!ledger => Kept'
  BY DEF Ledger!Accounted, Ledger!Next, Ledger!Deliver, Ledger!Rewrite, Ledger!ledger
<1>2. Spec => [][Ledger!Next]_Ledger!ledger
  BY EvidenceIsDurable, PTL DEF DurableEvidence, Ledger!Spec
<1>3. QED
  <2> HIDE DEF Kept
  <2>1. Spec => [](Kept => []Kept)
    BY <1>1, <1>2, PTL
  <2>2. QED
    BY <2>1 DEF Kept, Ledger!NeverForgotten

-----------------------------------------------------------------------------
(***************************************************************************)
(* The tracking flags.                                                     *)
(***************************************************************************)
LEMMA TrackingStep ==
    ASSUME Typed, TrackingHonest, [Next]_vars, ConstantsAssumption
    PROVE  TrackingHonest'
<1>1. mem \in Prefs /\ mem.rejected \in Nat /\ FlagsHonest(mem) /\ FlagsHonest(disk)
  BY DEF Typed, TypeOK, Prefs, TrackingHonest
<1>2. ASSUME mem'.rejected = mem.rejected, mem'.overflow = mem.overflow,
             mem'.complete = mem.complete, disk' = disk \/ disk' = mem'
      PROVE  TrackingHonest'
  BY <1>1, <1>2 DEF TrackingHonest, FlagsHonest
<1>3. ASSUME FlagsHonest(mem'), disk' = disk \/ disk' = mem'
      PROVE  TrackingHonest'
  BY <1>1, <1>3 DEF TrackingHonest, FlagsHonest
<1>4. CASE UNCHANGED prefs
  BY <1>2, <1>4 DEF prefs
<1>5. CASE \/ StartPass \/ QuarantineBlank \/ QuarantineRefused \/ RemoveAcked
  <2>1. PICK queue, rows :
          \/ UNCHANGED prefs
          \/ Commit([mem EXCEPT !.queue = queue])
          \/ Commit([mem EXCEPT !.queue = queue, !.quarantine = mem.quarantine \cup rows])
    BY <1>5 DEF StartPass, QuarantineBlank, QuarantineRefused, RemoveAcked, Quarantine
  <2>2. QED
    BY <1>1, <1>2, <1>4, <2>1 DEF Commit, Prefs
<1>6. CASE CommitTracking
  <2>1. /\ mem'.rejected = mem.rejected
        /\ mem'.overflow = OverflowAfterDrain /\ mem'.complete = CompleteAfterDrain
        /\ disk' = disk \/ disk' = mem'
    BY <1>1, <1>6 DEF CommitTracking, Commit, Prefs
  <2>2. FlagsHonest(mem')
    BY <1>1, <2>1 DEF FlagsHonest, OverflowAfterDrain, CompleteAfterDrain
  <2>3. QED
    BY <1>3, <2>1, <2>2
<1>7. CASE \E batch \in Batches : Enqueue(batch)
  <2>1. PICK batch \in Batches : Enqueue(batch)
    BY <1>7
  <2> DEFINE rejects == Len(batch) - Admitted(batch)
             queued == [mem EXCEPT !.queue = @ \cup Arrivals(batch)]
  <2>2. rejects \in Nat
    BY ArrivalsType DEF Typed, Stamped
  <2>3. /\ queued \in [queue : {queued.queue}, quarantine : {mem.quarantine},
                       rejected : {mem.rejected}, overflow : {mem.overflow},
                       complete : {mem.complete}]
    BY <1>1 DEF Prefs
  <2>4. mem' = AfterEnqueue(batch) /\ disk' = disk
    BY <2>1 DEF Enqueue
  <2>5. \/ /\ rejects > 0
           /\ mem' = [queued EXCEPT !.rejected = @ + rejects, !.overflow = TRUE,
                                    !.complete = FALSE]
        \/ mem' = [queued EXCEPT !.overflow = FALSE, !.complete = @ \/ mem.rejected = 0]
        \/ mem' = queued
    BY <2>4 DEF AfterEnqueue
  <2> HIDE DEF queued, rejects
  <2>6. FlagsHonest(mem')
    <3>1. CASE /\ rejects > 0
               /\ mem' = [queued EXCEPT !.rejected = @ + rejects, !.overflow = TRUE,
                                        !.complete = FALSE]
      BY <1>1, <2>2, <2>3, <3>1 DEF FlagsHonest
    <3>2. CASE mem' = [queued EXCEPT !.overflow = FALSE, !.complete = @ \/ mem.rejected = 0]
      <4>1. PICK c \in BOOLEAN : /\ c <=> (queued.complete \/ mem.rejected = 0)
                                 /\ mem' = [queued EXCEPT !.overflow = FALSE, !.complete = c]
        BY <3>2, Zenon
      <4>2. QED
        BY <1>1, <2>3, <4>1 DEF FlagsHonest
    <3>3. CASE mem' = queued
      BY <1>1, <2>3, <3>3 DEF FlagsHonest
    <3>4. QED
      BY <2>5, <3>1, <3>2, <3>3
  <2>7. QED
    BY <1>3, <2>4, <2>6
<1>8. CASE WritePrefs \/ ProcessDeath
  BY <1>1, <1>8 DEF WritePrefs, ProcessDeath, TrackingHonest
<1>9. QED
  BY <1>4, <1>5, <1>6, <1>7, <1>8 DEF Next, PassStep, StopAtBudget, SelectChunk,
     SelectNothing, PostChunkAnswered, PostChunkDisturbed, PostRowAnswered,
     PostRowDisturbed, PassThrows, vars

(***************************************************************************)
(* Neither the capture service nor the end of a pass, interleaved in any   *)
(* way and restarted from any file, reports a complete history after a     *)
(* tick was turned away (PositionTickFlush.kt, PositionTickDrain.kt).      *)
(***************************************************************************)
THEOREM TrackingIsHonest == Spec => []TrackingHonest
<1>1. Init => Typed /\ TrackingHonest
  BY TypedInit DEF Init, TrackingHonest, FlagsHonest
<1>2. Typed /\ TrackingHonest /\ [Next]_vars => (Typed /\ TrackingHonest)'
  BY TypedStep, TrackingStep, ConstantsAssumption
<1>3. QED
  BY <1>1, <1>2, PTL DEF Spec

-----------------------------------------------------------------------------
(***************************************************************************)
(* The quarantine.  The strengthening: what a pass has marked for it was   *)
(* rejected for a row value, and so was what the file already holds.       *)
(***************************************************************************)
OnlyPoison ==
    /\ OnlyPoisonQuarantined
    /\ disk.quarantine \subseteq Blank \cup Refused
    /\ refused \subseteq Refused

LEMMA OnlyPoisonStep ==
    ASSUME Typed, OnlyPoison, [Next]_vars, ConstantsAssumption
    PROVE  OnlyPoison'
<1>1. mem \in Prefs
  BY DEF Typed, TypeOK
<1>2. ASSUME mem'.quarantine \subseteq Blank \cup Refused, disk' = disk \/ disk' = mem',
             refused' \subseteq Refused
      PROVE  OnlyPoison'
  BY <1>2 DEF OnlyPoison, OnlyPoisonQuarantined
<1>3. CASE QuarantineBlank
  BY <1>1, <1>2, <1>3 DEF QuarantineBlank, Quarantine, Commit, Prefs, prefs, OnlyPoison,
     OnlyPoisonQuarantined
<1>4. CASE QuarantineRefused
  BY <1>1, <1>2, <1>4 DEF QuarantineRefused, Quarantine, Commit, Prefs, prefs, OnlyPoison,
     OnlyPoisonQuarantined
<1>5. CASE StartPass \/ RemoveAcked
  BY <1>1, <1>2, <1>5 DEF StartPass, RemoveAcked, Commit, Prefs, prefs, OnlyPoison,
     OnlyPoisonQuarantined
<1>6. CASE CommitTracking
  BY <1>1, <1>2, <1>6 DEF CommitTracking, Commit, Prefs, ForgetPass, OnlyPoison,
     OnlyPoisonQuarantined
<1>7. CASE \E batch \in Batches : Enqueue(batch)
  BY <1>1, <1>2, <1>7 DEF Enqueue, AfterEnqueue, Prefs, locals, OnlyPoison,
     OnlyPoisonQuarantined
<1>8. CASE PostRowAnswered \/ PostRowDisturbed
  <2>1. PICK e \in left : RowConfirmed(e) \/ RowRefused(e) \/ RowFailed(e)
    BY <1>8 DEF PostRowAnswered, PostRowDisturbed
  <2>2. refused' \subseteq Refused
    BY <2>1 DEF RowConfirmed, RowRefused, RowFailed, Poisonous, RowsOf, OnlyPoison
  <2>3. UNCHANGED prefs
    BY <1>8 DEF PostRowAnswered, PostRowDisturbed
  <2>4. QED
    BY <1>2, <2>2, <2>3 DEF prefs, OnlyPoison, OnlyPoisonQuarantined
<1>9. CASE WritePrefs \/ ProcessDeath \/ PassThrows
  BY <1>9 DEF WritePrefs, ProcessDeath, PassThrows, ForgetPass, locals, prefs, OnlyPoison,
     OnlyPoisonQuarantined
<1>10. CASE UNCHANGED <<prefs, refused>>
  BY <1>10 DEF prefs, OnlyPoison, OnlyPoisonQuarantined
<1>11. QED
  BY <1>3, <1>4, <1>5, <1>6, <1>7, <1>8, <1>9, <1>10 DEF Next, PassStep, StopAtBudget,
     SelectChunk, SelectNothing, PostChunkAnswered, PostChunkDisturbed, vars, locals

(***************************************************************************)
(* A row ends in the quarantine only if a required column is blank or the  *)
(* server refuses its value: a global schema error, an outage or a         *)
(* duplicate never condemns a good row (PositionTickDrain.kt).             *)
(***************************************************************************)
THEOREM GoodRowsStay == Spec => []OnlyPoisonQuarantined
<1>1. Init => Typed /\ OnlyPoison
  BY TypedInit DEF Init, OnlyPoison, OnlyPoisonQuarantined
<1>2. Typed /\ OnlyPoison /\ [Next]_vars => (Typed /\ OnlyPoison)'
  BY TypedStep, OnlyPoisonStep, ConstantsAssumption
<1>3. OnlyPoison => OnlyPoisonQuarantined
  BY DEF OnlyPoison
<1>4. QED
  BY <1>1, <1>2, <1>3, PTL DEF Spec

-----------------------------------------------------------------------------
(***************************************************************************)
(* The bounds.  Deduplication is a surjection of what it keeps, and the    *)
(* room computed at enqueue is what is left below the capacity.            *)
(***************************************************************************)
Fits(p) == Cardinality(p.queue) <= MaxPending

LEMMA DedupeFewer ==
    ASSUME NEW queue, IsFiniteSet(queue)
    PROVE  Cardinality(Dedupe(queue)) <= Cardinality(queue)
<1>1. CASE Surviving(queue) = queue
  <2>1. Cardinality(queue) \in Nat
    BY FS_CardinalityType
  <2>2. QED
    BY <1>1, <2>1 DEF Dedupe
<1>2. CASE Surviving(queue) # queue
  <2> DEFINE kept == Surviving(queue)
             move == [e \in kept |->
                        [e EXCEPT !.grp = FirstGrp(Group(queue, KeyOf[e.row]))]]
  <2>1. kept \in SUBSET queue
    BY DEF Surviving
  <2>2. IsFiniteSet(kept) /\ Cardinality(kept) <= Cardinality(queue)
    BY <2>1, FS_Subset
  <2>3. move \in Surjection(kept, Dedupe(queue))
    BY <1>2 DEF Surjection, Dedupe, Regroup
  <2>4. IsFiniteSet(Dedupe(queue)) /\ Cardinality(Dedupe(queue)) <= Cardinality(kept)
    BY <2>2, <2>3, FS_Surjection
  <2>5. /\ Cardinality(queue) \in Nat /\ Cardinality(kept) \in Nat
        /\ Cardinality(Dedupe(queue)) \in Nat
    BY <2>2, <2>4, FS_CardinalityType
  <2>6. QED
    <3> HIDE DEF kept
    <3> QED
      BY <2>2, <2>4, <2>5
<1>3. QED
  BY <1>1, <1>2

LEMMA ArrivalsFit ==
    ASSUME Typed, Fits(mem), NEW batch \in Batches, ConstantsAssumption
    PROVE  Cardinality(mem.queue \cup Arrivals(batch)) <= MaxPending
<1> DEFINE count == Admitted(batch)
           enter == [i \in 1..count |->
                       [row |-> batch[i], at |-> offered + i, grp |-> offered + i]]
<1>1. IsFiniteSet(mem.queue) /\ Cardinality(mem.queue) \in Nat /\ MaxPending \in Nat
  BY FS_CardinalityType DEF Typed, Stamped, ConstantsAssumption
<1>2. count \in 0..Len(batch) /\ Len(batch) \in Nat /\ IsFiniteSet(Arrivals(batch))
  BY <1>1, ArrivalsType DEF Typed
<1>3. count \in Nat /\ Cardinality(mem.queue) + count <= MaxPending
  BY <1>1, <1>2 DEF Admitted, Fits
<1>4. IsFiniteSet(1..count) /\ Cardinality(1..count) = count
  <2> HIDE DEF count
  <2>1. count \in Int /\ 1 \in Int
    BY <1>3
  <2>2. QED
    BY <1>3, <2>1, FS_Interval
<1>5. Cardinality(Arrivals(batch)) <= count
  <2>1. enter \in Surjection(1..count, Arrivals(batch))
    BY DEF Surjection, Arrivals
  <2>2. Cardinality(Arrivals(batch)) <= Cardinality(1..count)
    BY <1>4, <2>1, FS_Surjection
  <2>3. QED
    BY <1>4, <2>2
<1>6. /\ Cardinality(mem.queue \cup Arrivals(batch))
           = Cardinality(mem.queue) + Cardinality(Arrivals(batch))
               - Cardinality(mem.queue \cap Arrivals(batch))
      /\ Cardinality(mem.queue \cap Arrivals(batch)) \in Nat
      /\ Cardinality(Arrivals(batch)) \in Nat
  BY <1>1, <1>2, FS_Union, FS_Intersection, FS_CardinalityType
<1>7. QED
  <2> HIDE DEF count
  <2> QED
    BY <1>1, <1>3, <1>5, <1>6

LEMMA BoundedStep ==
    ASSUME Typed, QueueBounded, [Next]_vars, ConstantsAssumption
    PROVE  QueueBounded'
<1>1. /\ mem \in Prefs /\ IsFiniteSet(mem.queue) /\ Cardinality(mem.queue) \in Nat
      /\ MaxPending \in Nat /\ ChunkRows \in Nat /\ Cardinality({}) = 0
  BY FS_CardinalityType, FS_EmptySet DEF Typed, TypeOK, Stamped, ConstantsAssumption
<1>2. ASSUME NEW fewer \in SUBSET mem.queue
      PROVE  Cardinality(fewer) <= MaxPending
  <2>1. IsFiniteSet(fewer) /\ Cardinality(fewer) <= Cardinality(mem.queue)
    BY <1>1, FS_Subset
  <2>2. Cardinality(fewer) \in Nat
    BY <2>1, FS_CardinalityType
  <2>3. QED
    BY <1>1, <2>1, <2>2 DEF QueueBounded
<1>3. ASSUME Fits(mem'), disk' = disk \/ disk' = mem', chunk' = chunk \/ chunk' = {}
      PROVE  QueueBounded'
  BY <1>1, <1>3 DEF QueueBounded, Fits
<1>4. CASE StartPass
  <2>1. Cardinality(Dedupe(mem.queue)) <= MaxPending
    <3>1. Cardinality(Dedupe(mem.queue)) <= Cardinality(mem.queue)
      BY <1>1, DedupeFewer
    <3>2. IsFiniteSet(Dedupe(mem.queue))
      BY <1>1, DedupeStamped DEF Typed, TypeOK, Prefs, Stamped
    <3>3. Cardinality(Dedupe(mem.queue)) \in Nat
      BY <3>2, FS_CardinalityType
    <3>4. QED
      BY <1>1, <3>1, <3>3 DEF QueueBounded
  <2>2. (disk' = disk \/ disk' = mem') /\ chunk' = chunk
    BY <1>4 DEF StartPass, Commit, prefs
  <2>3. mem' = mem \/ mem'.queue = Dedupe(mem.queue)
    BY <1>1, <1>4 DEF StartPass, Commit, Prefs, prefs
  <2>4. Fits(mem')
    BY <2>1, <2>3 DEF Fits, QueueBounded
  <2>5. QED
    BY <1>3, <2>2, <2>4
<1>5. CASE QuarantineBlank \/ QuarantineRefused \/ RemoveAcked \/ CommitTracking
  <2>1. /\ disk' = disk \/ disk' = mem'
        /\ chunk' = chunk \/ chunk' = {}
    BY <1>5 DEF QuarantineBlank, QuarantineRefused, RemoveAcked, CommitTracking, Quarantine,
       Commit, ForgetPass, prefs
  <2>2. mem'.queue \in SUBSET mem.queue
    <3>1. CASE CommitTracking
      BY <1>1, <3>1 DEF CommitTracking, Commit, Prefs
    <3>2. CASE QuarantineBlank \/ QuarantineRefused
      <4>1. PICK rows : mem' = mem \/ Quarantine(rows)
        BY <3>2 DEF QuarantineBlank, QuarantineRefused, prefs
      <4>2. CASE Quarantine(rows)
        <5>1. mem'.queue = {e \in mem.queue : e.row \notin rows}
          BY <1>1, <4>2 DEF Quarantine, Commit, Prefs
        <5>2. QED
          BY <5>1
      <4>3. QED
        BY <4>1, <4>2
    <3>3. CASE RemoveAcked
      BY <1>1, <3>3 DEF RemoveAcked, Commit, Prefs, prefs
    <3>4. QED
      BY <1>5, <3>1, <3>2, <3>3
  <2>3. QED
    BY <1>2, <1>3, <2>1, <2>2 DEF Fits
<1>6. CASE SelectChunk
  BY <1>6 DEF SelectChunk, IsChunk, QueueBounded, prefs
<1>7. CASE \E batch \in Batches : Enqueue(batch)
  <2>1. PICK batch \in Batches : Enqueue(batch)
    BY <1>7
  <2>2. mem'.queue = mem.queue \cup Arrivals(batch) /\ disk' = disk /\ chunk' = chunk
    BY <1>1, <2>1 DEF Enqueue, AfterEnqueue, Prefs, locals
  <2>3. Fits(mem')
    BY <2>2, ArrivalsFit DEF Fits, QueueBounded
  <2>4. QED
    BY <1>3, <2>2, <2>3
<1>8. CASE WritePrefs \/ ProcessDeath \/ PassThrows
  BY <1>1, <1>8 DEF WritePrefs, ProcessDeath, PassThrows, ForgetPass, QueueBounded, prefs,
     locals
<1>9. CASE UNCHANGED <<prefs, chunk>>
  BY <1>9 DEF QueueBounded, prefs
<1>10. QED
  BY <1>4, <1>5, <1>6, <1>7, <1>8, <1>9 DEF Next, PassStep, StopAtBudget, SelectNothing,
     PostChunkAnswered, PostChunkDisturbed, PostRowAnswered, PostRowDisturbed, vars, locals

(***************************************************************************)
(* The queue never exceeds POSITION_TICK_MAX_PENDING nor a chunk its row   *)
(* limit, whatever the order of enqueues, passes and restarts              *)
(* (PositionTickFlush.kt, PositionTickDrain.kt).                           *)
(***************************************************************************)
THEOREM QueueIsBounded == Spec => []QueueBounded
<1>1. Init => Typed /\ QueueBounded
  <2> SUFFICES ASSUME Init PROVE QueueBounded
    BY TypedInit
  <2>1. Cardinality({}) = 0
    BY FS_EmptySet
  <2>2. QED
    BY <2>1, ConstantsAssumption DEF Init, QueueBounded, ConstantsAssumption
<1>2. Typed /\ QueueBounded /\ [Next]_vars => (Typed /\ QueueBounded)'
  BY TypedStep, BoundedStep, ConstantsAssumption
<1>3. QED
  BY <1>1, <1>2, PTL DEF Spec
=============================================================================
