------------------------- MODULE PositionTickQueue -------------------------
(***************************************************************************)
(* The pending position-tick queue of Market Radar: ticks are enqueued by  *)
(* the capture service while one drain pass at a time (PositionTickDrain-  *)
(* Mutex) uploads them in chunks.  The queue, the quarantine and the       *)
(* tracking flags live in one SharedPreferences file: apply() changes the  *)
(* in-memory map and is written later, commit() also writes the file, and  *)
(* its boolean result is not looked at.                                    *)
(*                                                                         *)
(* A row is abstracted to its identity (client_event_id, the hash of the   *)
(* whole row), its payload (the immutable columns that are fingerprinted   *)
(* and uploaded) and the payload's trade_id|tick_ts key.                   *)
(***************************************************************************)
EXTENDS Naturals, FiniteSets, Sequences

CONSTANTS
    Rows,         \* distinct row contents (identities)
    PayloadOf,    \* [Rows -> uploaded columns of the row]
    KeyOf,        \* [Rows -> trade_id|tick_ts]
    Blank,        \* rows that miss a required text column
    Refused,      \* rows the server rejects with a row-value SQLSTATE
    MaxPending,   \* POSITION_TICK_MAX_PENDING
    ChunkRows,    \* POSITION_TICK_UPLOAD_CHUNK_ROWS
    MaxChunks,    \* POSITION_TICK_UPLOAD_MAX_CHUNKS_PER_DRAIN
    SendId,       \* result of the client_event_id gate
    MaxBatch,     \* bound: rows of one capture cycle
    MaxTicks,     \* bound: rows offered to the queue in a behaviour
    MaxCrashes    \* bound: process deaths and aborted passes

ASSUME ConstantsAssumption ==
    /\ Blank \subseteq Rows /\ Refused \subseteq Rows
    /\ DOMAIN PayloadOf = Rows /\ DOMAIN KeyOf = Rows
    /\ \A r, s \in Rows : PayloadOf[r] = PayloadOf[s] => KeyOf[r] = KeyOf[s]
    /\ MaxPending \in Nat \ {0} /\ ChunkRows \in Nat \ {0} /\ MaxChunks \in Nat
    /\ SendId \in BOOLEAN
    /\ MaxBatch \in Nat /\ MaxTicks \in Nat /\ MaxCrashes \in Nat

VARIABLES
    mem,         \* the in-memory preferences
    disk,        \* the preferences file
    server,      \* row identities the backend has stored
    offered,     \* how many rows were offered to the queue so far
    crashes,
    pc,          \* where the drain pass is ("idle" between passes)
    budget,      \* chunks this pass may still attempt
    chunk,       \* entries of the chunk being uploaded
    left,        \* entries of the chunk still to be retried one by one
    mode,        \* why they are: "duplicate" or "schema"
    acked,       \* rows the server confirmed for this chunk
    refused,     \* rows of this chunk to be quarantined
    failed,      \* the pass met a failure that stops it
    progressed,  \* the pass acknowledged at least one row
    poisoned     \* the pass quarantined at least one row

prefs == <<mem, disk>>
locals == <<pc, budget, chunk, left, mode, acked, refused, failed, progressed, poisoned>>
vars == <<prefs, server, offered, crashes, locals>>

-----------------------------------------------------------------------------
(***************************************************************************)
(* The queue is a set of entries ordered by (grp, at): at is the arrival   *)
(* number, and grp the arrival number of the entry the row is grouped with *)
(* (its own until a dedupe has rewritten the queue key by key).            *)
(***************************************************************************)
Entry == [row : Rows, at : Nat, grp : Nat]

Prefs == [queue : SUBSET Entry, quarantine : SUBSET Rows, rejected : Nat,
          overflow : BOOLEAN, complete : BOOLEAN]

Before(e, f) == e.grp < f.grp \/ (e.grp = f.grp /\ e.at < f.at)

RowsOf(entries) == {e.row : e \in entries}
Payloads(rows) == {PayloadOf[r] : r \in rows}

Init ==
    /\ mem = [queue |-> {}, quarantine |-> {}, rejected |-> 0,
              overflow |-> FALSE, complete |-> TRUE]
    /\ disk = mem
    /\ server = {} /\ offered = 0 /\ crashes = 0
    /\ pc = "idle" /\ budget = 0 /\ chunk = {} /\ left = {} /\ mode = "schema"
    /\ acked = {} /\ refused = {}
    /\ failed = FALSE /\ progressed = FALSE /\ poisoned = FALSE

(***************************************************************************)
(* commit(): the map changes; the file follows unless the write fails,     *)
(* which nobody is told.                                                   *)
(***************************************************************************)
Commit(new) == mem' = new /\ disk' \in {new, disk}

(***************************************************************************)
(* The delayed write of apply(), or of any later edit of the same file.    *)
(***************************************************************************)
WritePrefs ==
    /\ disk # mem
    /\ disk' = mem
    /\ UNCHANGED <<mem, server, offered, crashes, locals>>

-----------------------------------------------------------------------------
(***************************************************************************)
(* enqueueRows: one capture cycle offers a batch of rows.  The first ones  *)
(* are admitted up to the capacity, the rest are rejected and counted.     *)
(***************************************************************************)
Admitted(batch) ==
    LET room == IF Cardinality(mem.queue) < MaxPending
                THEN MaxPending - Cardinality(mem.queue) ELSE 0
    IN  IF Len(batch) < room THEN Len(batch) ELSE room

Arrivals(batch) ==
    {[row |-> batch[i], at |-> offered + i, grp |-> offered + i] : i \in 1..Admitted(batch)}

AfterEnqueue(batch) ==
    LET rejects == Len(batch) - Admitted(batch)
        queued == [mem EXCEPT !.queue = @ \cup Arrivals(batch)]
    IN  IF rejects > 0
        THEN [queued EXCEPT !.rejected = @ + rejects, !.overflow = TRUE, !.complete = FALSE]
        ELSE IF Cardinality(queued.queue) < MaxPending
             THEN [queued EXCEPT !.overflow = FALSE,
                                 !.complete = @ \/ mem.rejected = 0]
             ELSE queued

Enqueue(batch) ==
    /\ offered + Len(batch) <= MaxTicks
    /\ mem' = AfterEnqueue(batch)
    /\ offered' = offered + Len(batch)
    /\ UNCHANGED <<disk, server, crashes, locals>>

-----------------------------------------------------------------------------
(***************************************************************************)
(* dedupePositionTicksByTradeTs: rows of one key with equal payloads       *)
(* collapse to the last; conflicting payloads are all kept.  The rewritten *)
(* queue is grouped by key in order of first occurrence, and is saved only *)
(* when something was dropped.                                             *)
(***************************************************************************)
Group(queue, key) == {e \in queue : KeyOf[e.row] = key}

Uniform(group) == \A e, f \in group : PayloadOf[e.row] = PayloadOf[f.row]

\* Mutation: rows of one key collapse whatever their payloads.
SupersededByKey(queue, e) == \E f \in Group(queue, KeyOf[e.row]) : f.at > e.at

Superseded(queue, e) ==
    LET group == Group(queue, KeyOf[e.row])
    IN  Uniform(group) /\ \E f \in group : f.at > e.at

Surviving(queue) == {e \in queue : ~Superseded(queue, e)}

FirstGrp(group) == CHOOSE g \in {e.grp : e \in group} : \A e \in group : g <= e.grp

Regroup(queue, kept) ==
    {[e EXCEPT !.grp = FirstGrp(Group(queue, KeyOf[e.row]))] : e \in kept}

Dedupe(queue) ==
    IF Surviving(queue) = queue THEN queue ELSE Regroup(queue, Surviving(queue))

(***************************************************************************)
(* A pass that finds a non-empty queue begins by deduplicating it.         *)
(***************************************************************************)
StartPass ==
    /\ pc = "idle" /\ mem.queue # {}
    /\ IF Dedupe(mem.queue) = mem.queue
       THEN UNCHANGED prefs
       ELSE Commit([mem EXCEPT !.queue = Dedupe(@)])
    /\ pc' = "poison" /\ budget' = MaxChunks
    /\ UNCHANGED <<server, offered, crashes, chunk, left, mode, acked, refused, failed,
                   progressed, poisoned>>

\* Mutation: the edit that removes the rows forgets to store them.
DropRows(rows) == Commit([mem EXCEPT !.queue = {e \in @ : e.row \notin rows}])

(***************************************************************************)
(* quarantineAndRemove: the rows enter the quarantine and every entry with *)
(* one of their identities leaves the queue, in one edit.                  *)
(***************************************************************************)
Quarantine(rows) ==
    Commit([mem EXCEPT !.queue = {e \in @ : e.row \notin rows},
                       !.quarantine = @ \cup rows])

\* Mutation: the loop condition on the chunk budget is gone.
QuarantineBlankUnbudgeted ==
    /\ pc = "poison"
    /\ pc' = "select"
    /\ UNCHANGED <<prefs, server, offered, crashes, budget, chunk, left, mode, acked, refused,
                   failed, progressed, poisoned>>

QuarantineBlank ==
    /\ pc = "poison" /\ budget > 0
    /\ LET blank == RowsOf(mem.queue) \cap Blank
       IN  IF blank = {}
           THEN UNCHANGED <<prefs, poisoned>>
           ELSE Quarantine(blank) /\ poisoned' = TRUE
    /\ pc' = "select"
    /\ UNCHANGED <<server, offered, crashes, budget, chunk, left, mode, acked, refused,
                   failed, progressed>>

StopAtBudget ==
    /\ pc = "poison" /\ budget = 0
    /\ pc' = "track"
    /\ UNCHANGED <<prefs, server, offered, crashes, budget, chunk, left, mode, acked,
                   refused, failed, progressed, poisoned>>

(***************************************************************************)
(* selectChunk: the oldest entries, at most ChunkRows of them, fewer when  *)
(* the byte guard says so but at least one.                                *)
(***************************************************************************)
IsChunk(entries) ==
    /\ entries # {} /\ Cardinality(entries) <= ChunkRows
    /\ \A e \in entries, f \in mem.queue : Before(f, e) => f \in entries

SelectChunk ==
    /\ pc = "select" /\ mem.queue # {}
    /\ \E entries \in SUBSET mem.queue : IsChunk(entries) /\ chunk' = entries
    /\ budget' = budget - 1
    /\ pc' = "post"
    /\ UNCHANGED <<prefs, server, offered, crashes, left, mode, acked, refused, failed,
                   progressed, poisoned>>

SelectNothing ==
    /\ pc = "select" /\ mem.queue = {}
    /\ pc' = "track"
    /\ UNCHANGED <<prefs, server, offered, crashes, budget, chunk, left, mode, acked,
                   refused, failed, progressed, poisoned>>

-----------------------------------------------------------------------------
(***************************************************************************)
(* The backend.  One INSERT statement of all the rows, atomic; with the    *)
(* client_event_id column it also fails on an identity stored before or    *)
(* sent twice.  Rows are inserted in order, so a duplicate is reported     *)
(* only if no row-value error comes first.                                 *)
(***************************************************************************)
Repeated(e, entries) ==
    SendId /\ (e.row \in server \/ \E f \in entries : f.row = e.row /\ Before(f, e))

Repeats(entries) == \E e \in entries : Repeated(e, entries)

Poisonous(entries) == RowsOf(entries) \cap Refused # {}

Insertable(entries) == ~Repeats(entries) /\ ~Poisonous(entries)

(***************************************************************************)
(* The POST of the chunk.  A failure (no network, 5xx, auth, a lost        *)
(* answer) stops the pass; a lost answer leaves the rows on the server.    *)
(***************************************************************************)
ChunkAccepted ==
    /\ Insertable(chunk)
    /\ server' = server \cup RowsOf(chunk)
    /\ acked' = RowsOf(chunk)
    /\ pc' = "ack"
    /\ UNCHANGED <<left, mode, failed>>

RetryOneByOne(why) ==
    /\ left' = chunk /\ mode' = why
    /\ pc' = "rows"
    /\ UNCHANGED <<server, acked, failed>>

ChunkDuplicate ==
    /\ \E e \in chunk :
          /\ Repeated(e, chunk)
          /\ \A f \in chunk : f.row \in Refused => Before(e, f)
    /\ RetryOneByOne("duplicate")

\* Mutation: a row-value rejection of the chunk ends the pass.
ChunkPoisonousStops ==
    /\ Poisonous(chunk)
    /\ failed' = TRUE
    /\ pc' = "track"
    /\ UNCHANGED <<server, left, mode, acked>>

ChunkPoisonous == Poisonous(chunk) /\ RetryOneByOne("schema")

ChunkSchemaRejected == RetryOneByOne("schema")

ChunkFailed ==
    /\ \/ UNCHANGED server
       \/ Insertable(chunk) /\ server' = server \cup RowsOf(chunk)
    /\ failed' = TRUE
    /\ pc' = "track"
    /\ UNCHANGED <<left, mode, acked>>

PostChunkAnswered ==
    /\ pc = "post"
    /\ ChunkAccepted \/ ChunkDuplicate \/ ChunkPoisonous
    /\ UNCHANGED <<prefs, offered, crashes, budget, chunk, refused, progressed, poisoned>>

PostChunkDisturbed ==
    /\ pc = "post"
    /\ ChunkSchemaRejected \/ ChunkFailed
    /\ UNCHANGED <<prefs, offered, crashes, budget, chunk, refused, progressed, poisoned>>

-----------------------------------------------------------------------------
(***************************************************************************)
(* The row-by-row retry, oldest row first.  A row is confirmed when it is  *)
(* inserted or proved to be stored already; a row-value rejection marks it *)
(* for the quarantine, in schema mode only; anything else stops the loop.  *)
(***************************************************************************)
IsNextRow(e) == e \in left /\ \A f \in left : f = e \/ Before(e, f)

RowConfirmed(e) ==
    /\ \/ Insertable({e}) /\ server' = server \cup {e.row}
       \/ Repeats({e}) /\ UNCHANGED server
    /\ acked' = acked \cup {e.row}
    /\ left' = left \ {e}
    /\ UNCHANGED <<refused, failed>>

\* Mutation: any schema rejection, a global one included, condemns the row.
RowRefusedByAnyError(e) ==
    /\ mode = "schema"
    /\ refused' = refused \cup {e.row}
    /\ left' = left \ {e}
    /\ UNCHANGED <<server, acked, failed>>

RowRefused(e) ==
    /\ mode = "schema" /\ Poisonous({e})
    /\ refused' = refused \cup {e.row}
    /\ left' = left \ {e}
    /\ UNCHANGED <<server, acked, failed>>

RowFailed(e) ==
    /\ \/ UNCHANGED server
       \/ Insertable({e}) /\ server' = server \cup {e.row}
    /\ failed' = TRUE
    /\ left' = {}
    /\ UNCHANGED <<acked, refused>>

PostRowAnswered ==
    /\ pc = "rows"
    /\ \E e \in left : IsNextRow(e) /\ (RowConfirmed(e) \/ RowRefused(e))
    /\ UNCHANGED <<prefs, offered, crashes, pc, budget, chunk, mode, progressed, poisoned>>

PostRowDisturbed ==
    /\ pc = "rows"
    /\ \E e \in left : IsNextRow(e) /\ RowFailed(e)
    /\ UNCHANGED <<prefs, offered, crashes, pc, budget, chunk, mode, progressed, poisoned>>

(***************************************************************************)
(* After the row loop: first the quarantine edit, then (a separate edit)   *)
(* the removal of the confirmed rows.                                      *)
(***************************************************************************)
QuarantineRefused ==
    /\ pc = "rows" /\ left = {}
    /\ IF refused = {}
       THEN UNCHANGED <<prefs, poisoned>>
       ELSE Quarantine(refused) /\ poisoned' = TRUE
    /\ pc' = "ack"
    /\ UNCHANGED <<server, offered, crashes, budget, chunk, left, mode, acked, refused,
                   failed, progressed>>

\* Mutation: the chunk is removed instead of its confirmed rows.
RemoveChunk ==
    /\ pc = "ack"
    /\ Commit([mem EXCEPT !.queue = @ \ chunk])
    /\ progressed' = (progressed \/ acked # {})
    /\ chunk' = {} /\ acked' = {} /\ refused' = {} /\ mode' = "schema"
    /\ pc' = IF failed THEN "track" ELSE "poison"
    /\ UNCHANGED <<server, offered, crashes, budget, left, failed, poisoned>>

RemoveAcked ==
    /\ pc = "ack"
    /\ IF acked = {}
       THEN UNCHANGED prefs
       ELSE Commit([mem EXCEPT !.queue = {e \in @ : e.row \notin acked}])
    /\ progressed' = (progressed \/ acked # {})
    /\ chunk' = {} /\ acked' = {} /\ refused' = {} /\ mode' = "schema"
    /\ pc' = IF failed THEN "track" ELSE "poison"
    /\ UNCHANGED <<server, offered, crashes, budget, left, failed, poisoned>>

-----------------------------------------------------------------------------
(***************************************************************************)
(* The locals of a pass are gone when it ends, however it ends.            *)
(***************************************************************************)
ForgetPass ==
    /\ pc' = "idle" /\ budget' = 0 /\ chunk' = {} /\ left' = {} /\ mode' = "schema"
    /\ acked' = {} /\ refused' = {}
    /\ failed' = FALSE /\ progressed' = FALSE /\ poisoned' = FALSE

(***************************************************************************)
(* The tracking flags are derived under the queue lock from the queue,     *)
(* flags and totals as they are now, not as the pass last saw them.        *)
(***************************************************************************)
OverflowAfterDrain ==
    IF progressed /\ Cardinality(mem.queue) < MaxPending THEN FALSE ELSE mem.overflow

\* Mutation: the rejected total is not looked at.
CompleteIgnoringRejected ==
    ~OverflowAfterDrain /\ ~poisoned /\ mem.quarantine = {} /\ (progressed \/ mem.complete)

CompleteAfterDrain ==
    /\ mem.rejected = 0 /\ ~OverflowAfterDrain
    /\ ~poisoned /\ mem.quarantine = {}
    /\ progressed \/ mem.complete

CommitTracking ==
    /\ pc = "track"
    /\ Commit([mem EXCEPT !.overflow = OverflowAfterDrain, !.complete = CompleteAfterDrain])
    /\ ForgetPass
    /\ UNCHANGED <<server, offered, crashes>>

-----------------------------------------------------------------------------
(***************************************************************************)
(* The process dies: the next one loads the file.                          *)
(***************************************************************************)
ProcessDeath ==
    /\ crashes < MaxCrashes
    /\ crashes' = crashes + 1
    /\ mem' = disk
    /\ ForgetPass
    /\ UNCHANGED <<disk, server, offered>>

(***************************************************************************)
(* An unexpected exception ends the pass; the process lives on.            *)
(***************************************************************************)
PassThrows ==
    /\ crashes < MaxCrashes /\ pc # "idle"
    /\ crashes' = crashes + 1
    /\ ForgetPass
    /\ UNCHANGED <<prefs, server, offered>>

PassStep ==
    \/ StartPass \/ QuarantineBlank \/ StopAtBudget \/ SelectChunk \/ SelectNothing
    \/ PostChunkAnswered \/ PostChunkDisturbed \/ PostRowAnswered \/ PostRowDisturbed
    \/ QuarantineRefused \/ RemoveAcked \/ CommitTracking

Batches == UNION {[1..n -> Rows] : n \in 1..MaxBatch}

Next ==
    \/ PassStep
    \/ \E batch \in Batches : Enqueue(batch)
    \/ WritePrefs
    \/ ProcessDeath
    \/ PassThrows

Spec == Init /\ [][Next]_vars

(***************************************************************************)
(* A pass that has begun runs on, a non-empty queue gets a pass (every     *)
(* enqueue, start and reconnection requests one), and a server that keeps  *)
(* being asked does not refuse to answer forever.                          *)
(***************************************************************************)
Fairness ==
    /\ WF_vars(PassStep)
    /\ SF_vars(PostChunkAnswered)
    /\ SF_vars(PostRowAnswered)

FairSpec == Spec /\ Fairness

-----------------------------------------------------------------------------
TypeOK ==
    /\ mem \in Prefs /\ disk \in Prefs
    /\ server \subseteq Rows /\ offered \in Nat /\ crashes \in Nat
    /\ pc \in {"idle", "poison", "select", "post", "rows", "ack", "track"}
    /\ budget \in Nat
    /\ chunk \subseteq Entry /\ left \subseteq Entry
    /\ mode \in {"duplicate", "schema"}
    /\ acked \subseteq Rows /\ refused \subseteq Rows
    /\ failed \in BOOLEAN /\ progressed \in BOOLEAN /\ poisoned \in BOOLEAN

Waiting(p) == Payloads(RowsOf(p.queue))
Delivered == Payloads(server)
Retained(p) == Payloads(p.quarantine)

(***************************************************************************)
(* Whatever a restart would bring back from the file is still held by the  *)
(* running process, stored by the server, or in the quarantine: chunk      *)
(* removal, row-by-row removal, dedupe and quarantine never lose a payload *)
(* the file still holds, and never act on a row the server did not store.  *)
(***************************************************************************)
NoTickLost ==
    /\ Waiting(disk) \subseteq Waiting(mem) \cup Delivered \cup Retained(mem)
    /\ Retained(disk) \subseteq Retained(mem)

(***************************************************************************)
(* Only rows that can never be inserted are quarantined: neither a global  *)
(* schema error nor a failed or duplicate row takes a good row with it.    *)
(***************************************************************************)
OnlyPoisonQuarantined == mem.quarantine \subseteq Blank \cup Refused

(***************************************************************************)
(* The tracking flags never claim a complete history once a tick has been  *)
(* turned away, and an active overflow always has rejected ticks behind it *)
(* (two writers: enqueue and the end of a pass; restarts in between).      *)
(***************************************************************************)
FlagsHonest(p) ==
    /\ p.complete => p.rejected = 0 /\ ~p.overflow
    /\ p.overflow => p.rejected > 0

TrackingHonest == FlagsHonest(mem) /\ FlagsHonest(disk)

(***************************************************************************)
(* The queue never outgrows its capacity, in memory, in the file or in the *)
(* chunk under way.                                                        *)
(***************************************************************************)
QueueBounded ==
    /\ Cardinality(mem.queue) <= MaxPending /\ Cardinality(disk.queue) <= MaxPending
    /\ Cardinality(chunk) <= ChunkRows

(***************************************************************************)
(* While the process lives, a payload leaves the in-memory queue only when *)
(* the server holds it or the quarantine does.                             *)
(***************************************************************************)
MemoryKeepsTicks ==
    [][\/ Waiting(mem) \subseteq (Waiting(mem) \cup Delivered \cup Retained(mem))'
       \/ crashes' > crashes]_vars

Ledger == INSTANCE EvidenceLedger WITH
    pending <- Waiting(disk), delivered <- Delivered, quarantined <- Retained(disk)

(***************************************************************************)
(* The preferences file is an evidence ledger: across lost commits,        *)
(* delayed writes, restarts and passes that die half-way, a payload leaves *)
(* it only for the server or the quarantine.                               *)
(***************************************************************************)
DurableEvidence == Ledger!Spec

(***************************************************************************)
(* Poison rows, duplicates, lost answers, budgets and concurrent enqueues  *)
(* cannot hold rows back forever: once no more ticks arrive the queue      *)
(* empties for good.                                                       *)
(***************************************************************************)
QueueDrains == <>[](mem.queue = {})
=============================================================================
