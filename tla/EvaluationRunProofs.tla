------------------------ MODULE EvaluationRunProofs ------------------------
(***************************************************************************)
(* Theorems about the evaluation, for any sessions and totals, and any     *)
(* number of deaths, failed calls, exhausted budgets and retries.          *)
(***************************************************************************)
EXTENDS EvaluationRun, TLAPS

\* More time for a leaf than by default, for slow or busy machines.
USE SMTT(30), ZenonT(30)

LEMMA RowsType ==
    ASSUME EvaluationAssumption, NEW d \in Sessions
    PROVE  /\ Rows(d) \subseteq AllRows /\ Expected(d) \subseteq AllRows
           /\ Expected(d) \subseteq Rows(d)
           /\ \A n \in Nat : n < Total[d] => <<d, n>> \in Rows(d)
  BY DEF EvaluationAssumption, AllRows, Rows, Expected

-----------------------------------------------------------------------------
(***************************************************************************)
(* Type correctness.  TypeOK is not inductive: the run a working           *)
(* evaluation updates is its own because nothing replaces the shared field *)
(* while the claim is held, and the rows it sends are rows because its     *)
(* file has been replaced or found to be readable.                         *)
(***************************************************************************)
Working == {"begun", "loop", "commit", "verify", "save", "read", "certified", "queue"}
Resumed == Working \ {"begun"}
FileComplete == {"verify", "save", "read", "certified", "queue"}

Placed ==
    /\ eval.pc \in Working => active = claim
    /\ eval.pc \in {"idle", "start", "input", "begun"} => eval.completed = 0
    /\ eval.pc \in Resumed =>
         /\ eval.completed <= Total[claim] /\ file[claim] \subseteq Rows(claim)
         /\ ledger[claim].expected = Expected(claim)
    /\ eval.pc = "commit" => eval.completed < Total[claim]
    /\ eval.pc \in FileComplete => eval.completed = Total[claim]

Typed == TypeOK /\ Placed

LEMMA TypedInit ==
    ASSUME Init, EvaluationAssumption
    PROVE  Typed
  BY DEF Init, EvaluationAssumption, Typed, TypeOK, Placed, Idle, Working, Resumed, FileComplete

(***************************************************************************)
(* Every step keeps the types: deaths, failed calls and C3 between any two *)
(* steps of the evaluation included.                                       *)
(***************************************************************************)
LEMMA TypedStep ==
    ASSUME Typed, [Next]_vars
    PROVE  Typed'
<1> USE EvaluationAssumption DEF EvaluationAssumption, Typed, TypeOK, Placed, Run, Stages,
        Working, Resumed, FileComplete
<1>1. ASSUME NEW d \in Sessions, Request(d)
      PROVE  Typed'
  BY <1>1, RowsType DEF Request, prefs, remote
<1>2. ASSUME NEW d \in Sessions, UserRequest(d)
      PROVE  Typed'
  BY <1>2, RowsType DEF UserRequest, Trouble, remote
<1>3. ASSUME NEW d \in Sessions, Claim(d)
      PROVE  Typed'
  BY <1>3, RowsType DEF Claim, Idle, prefs, remote
<1>4. CASE AlarmFires
  BY <1>4, RowsType DEF AlarmFires, prefs, remote
<1>5. CASE ClearStale
  BY <1>5, RowsType DEF ClearStale, remote
<1>6. CASE Start
  BY <1>6, RowsType DEF Start, JobDate, Release, Goto, remote, Idle
<1>7. CASE InputFails
  BY <1>7, RowsType DEF InputFails, Trouble, Reminder, Release, remote, Idle
<1>8. CASE MarksMissing
  BY <1>8, RowsType DEF MarksMissing, Trouble, JobState, Reminder, Release, remote,
      Idle
<1>9. CASE Begin
  BY <1>9, RowsType DEF Begin, NewRun, Goto, prefs, remote
<1>10. CASE Resume
  <2>1. claim \in Sessions /\ active = claim /\ ledger[claim] \in Run
    BY <1>10 DEF Resume
  <2>2. Cursor(claim) \in Nat /\ Cursor(claim) <= Total[claim]
    BY <2>1 DEF Cursor
  <2>3. file' \in [Sessions -> {None, Torn} \cup SUBSET AllRows]
    BY <1>10, <2>1 DEF Resume
  <2>4. /\ \A d \in Sessions : file'[d] \in {None, Torn} \cup SUBSET Rows(d)
        /\ file'[claim] \subseteq Rows(claim)
    BY <1>10, <2>1 DEF Resume, Resumable
  <2>5. /\ ledger' \in [Sessions -> {None, Torn} \cup Run]
        /\ ledger'[claim].expected = Expected(claim) /\ ledger'[claim] \in Run
    BY <1>10, <2>1, RowsType DEF Resume
  <2>6. /\ job' \in [date : Sessions \cup {None}, total : Nat, completed : Nat]
        /\ running' = claim
        /\ eval' = [eval EXCEPT !.pc = "loop", !.completed = Cursor(claim)]
    BY <1>10, <2>1, <2>2 DEF Resume, JobState
  <2> HIDE DEF Run
  <2>7. QED
    BY <1>10, <2>1, <2>2, <2>3, <2>4, <2>5, <2>6 DEF Resume, remote, Expected
<1>11. CASE RunBatch
  BY <1>11, RowsType DEF RunBatch, Goto, prefs, remote
<1>12. CASE CommitCursor
  <2>1. claim \in Sessions /\ active = claim /\ eval.completed + 1 \in Nat
        /\ eval.completed + 1 <= Total[claim]
    BY <1>12 DEF CommitCursor
  <2>2. /\ job' \in [date : Sessions \cup {None}, total : Nat, completed : Nat]
        /\ running' = claim
    BY <1>12, <2>1 DEF CommitCursor, JobState
  <2>3. eval'.pc = "loop" /\ eval'.completed = eval.completed + 1
    BY <1>12 DEF CommitCursor
  <2>4. QED
    BY <1>12, <2>1, <2>2, <2>3 DEF CommitCursor, remote, Expected
<1>13. CASE BudgetExhausted
  BY <1>13, RowsType DEF BudgetExhausted, Trouble, JobState, Continuation, Release,
      remote, Idle
<1>14. CASE Fails
  BY <1>14, RowsType DEF Fails, Trouble, JobState, Reminder, Release, remote, Idle
<1>15. CASE Validate
  BY <1>15, RowsType DEF Validate, Goto, AckOf, prefs, remote
<1>16. CASE SaveAcknowledged
  BY <1>16, RowsType DEF SaveAcknowledged, Calm, Trouble, Goto, prefs
<1>17. CASE SaveFails
  BY <1>17, RowsType DEF SaveFails, Trouble, JobState, Reminder, Release, Idle
<1>18. CASE ReadFails
  <2>1. claim \in Sessions /\ active = claim /\ ledger[claim] \in Run
        /\ file[claim] \subseteq Rows(claim)
    BY <1>18 DEF ReadFails
  <2>2. ack' = None \/ ack' \in [session : Sessions, rows : SUBSET AllRows]
    BY <1>18, <2>1, RowsType DEF ReadFails, StoreAck, AckOf
  <2>3. /\ ledger' \in [Sessions -> {None, Torn} \cup Run]
        /\ \A d \in Sessions : ledger[d] \in Run => ledger'[d] \in Run
    BY <1>18, <2>1 DEF ReadFails, Incomplete
  <2>4. /\ job' \in [date : Sessions \cup {None}, total : Nat, completed : Nat]
        /\ running' = None /\ done' \in Sessions \cup {None}
        /\ alarm' \in Sessions \cup {None}
    BY <1>18, <2>1 DEF ReadFails, Incomplete, JobState, Continuation
  <2> HIDE DEF Run
  <2>5. QED
    BY <1>18, <2>1, <2>2, <2>3, <2>4 DEF ReadFails, Incomplete, Release, Idle, remote, Trouble
<1>19. CASE Certify
  BY <1>19, RowsType DEF Certify, StoreAck, Verified, Goto, remote, AckOf
<1>20. CASE Repair
  BY <1>20, RowsType DEF Repair, Goto, prefs, remote, Verified
<1>21. CASE NotCertified
  BY <1>21, RowsType DEF NotCertified, StoreAck, Incomplete, Verified, AckOf,
      JobState, Continuation, Release, Idle
<1>22. CASE WriteDone
  BY <1>22, RowsType DEF WriteDone, JobState, Goto, remote
<1>23. CASE QueueC3
  BY <1>23, RowsType DEF QueueC3, Reminder, Release, remote, Idle
<1>24. ASSUME NEW d \in Sessions, C3Skip(d)
      PROVE  Typed'
  BY <1>24, RowsType DEF C3Skip, Loaded, prefs, remote
<1>25. ASSUME NEW d \in Sessions, C3Start(d)
      PROVE  Typed'
  BY <1>25, RowsType DEF C3Start, Loaded, C3Stage, remote
<1>26. ASSUME NEW d \in Sessions, C3Fails(d)
      PROVE  Typed'
  BY <1>26, RowsType DEF C3Fails, Trouble, C3End, C3Stage, remote
<1>27. ASSUME NEW d \in Sessions, C3Ineligible(d)
      PROVE  Typed'
  BY <1>27, RowsType DEF C3Ineligible, Calm, C3End, C3Stage, remote
<1>28. ASSUME NEW d \in Sessions, C3Verified(d)
      PROVE  Typed'
  BY <1>28, RowsType DEF C3Verified, Calm, C3End, C3Stage, remote
<1>29. ASSUME NEW d \in Sessions, C3Throws(d)
      PROVE  Typed'
  BY <1>29, RowsType DEF C3Throws, Trouble, prefs, remote
<1>30. ASSUME NEW d \in Sessions, C3Upload(d)
      PROVE  Typed'
  BY <1>30, RowsType DEF C3Upload, prefs
<1>31. CASE ServiceStops
  BY <1>31, RowsType DEF ServiceStops, prefs, remote
<1>32. CASE ProcessDies
  BY <1>32, RowsType DEF ProcessDies, Trouble, Release, prefs, Idle
<1>33. CASE UNCHANGED vars
  BY <1>33 DEF vars, prefs, remote, Expected
<1>34. QED
  BY <1>1, <1>2, <1>3, <1>4, <1>5, <1>6, <1>7, <1>8, <1>9, <1>10, <1>11, <1>12,
     <1>13, <1>14, <1>15, <1>16, <1>17, <1>18, <1>19, <1>20, <1>21, <1>22, <1>23,
     <1>24, <1>25, <1>26, <1>27, <1>28, <1>29, <1>30, <1>31, <1>32, <1>33 DEF Next,
     Evaluate, C3Step

THEOREM TypeCorrect == Spec => []TypeOK
<1> USE EvaluationAssumption
<1>1. Init => Typed
  BY TypedInit
<1>2. Typed /\ [Next]_vars => Typed'
  BY TypedStep
<1>3. Typed => TypeOK
  BY DEF Typed
<1>4. QED
  BY <1>1, <1>2, <1>3, PTL DEF Spec

LEMMA TypedAlways == Spec => []Typed
<1> USE EvaluationAssumption
<1>1. Init => Typed
  BY TypedInit
<1>2. Typed /\ [Next]_vars => Typed'
  BY TypedStep
<1>3. QED
  BY <1>1, <1>2, PTL DEF Spec

-----------------------------------------------------------------------------
(***************************************************************************)
(* The run ledger never claims more than the server holds: what it counts  *)
(* as persisted was read back from the server, which loses nothing, and    *)
(* what it expects is the whole of its session's labels or nothing yet.    *)
(***************************************************************************)
Certified ==
    \A d \in Sessions : ledger[d] \in Run =>
        /\ ledger[d].expected \in {{}, Expected(d)}
        /\ ledger[d].persisted \subseteq server

LEMMA CertifiedInit ==
    ASSUME Init
    PROVE  Certified
  BY AbsentAssumption DEF Init, Certified, AbsentAssumption

LEMMA CertifiedStep ==
    ASSUME Typed, Certified, [Next]_vars
    PROVE  Certified'
<1> USE EvaluationAssumption, AbsentAssumption
    DEF EvaluationAssumption, AbsentAssumption, Typed, TypeOK, Placed, Run, Stages,
        Working, Resumed, FileComplete, Certified
<1>1. CASE Begin
  BY <1>1 DEF Begin, NewRun, Goto, prefs, remote, Expected
<1>2. CASE Resume
  BY <1>2 DEF Resume, Resumable, JobState, Cursor, remote, Expected
<1>3. CASE Validate
  BY <1>3 DEF Validate, Goto, AckOf, prefs, remote, Expected
<1>4. CASE SaveAcknowledged
  BY <1>4 DEF SaveAcknowledged, Calm, Trouble, Goto, prefs, Expected
<1>5. CASE SaveFails
  BY <1>5 DEF SaveFails, Trouble, JobState, Reminder, Release, Idle, Expected
<1>6. CASE ReadFails
  BY <1>6 DEF ReadFails, Trouble, StoreAck, Incomplete, AckOf, JobState, Continuation,
      Release, Idle, Expected
<1>7. CASE Certify
  BY <1>7 DEF Certify, StoreAck, Verified, Goto, remote, AckOf, Expected
<1>8. CASE NotCertified
  BY <1>8 DEF NotCertified, StoreAck, Incomplete, Verified, AckOf, JobState,
      Continuation, Release, Idle, Expected
<1>9. CASE QueueC3
  BY <1>9 DEF QueueC3, Reminder, Release, remote, Idle, Expected
<1>10. ASSUME NEW d \in Sessions, C3Start(d)
      PROVE  Certified'
  BY <1>10 DEF C3Start, Loaded, C3Stage, remote, Expected
<1>11. ASSUME NEW d \in Sessions, C3Fails(d)
      PROVE  Certified'
  BY <1>11 DEF C3Fails, Trouble, C3End, C3Stage, remote, Expected
<1>12. ASSUME NEW d \in Sessions, C3Ineligible(d)
      PROVE  Certified'
  BY <1>12 DEF C3Ineligible, Calm, C3End, C3Stage, remote, Expected
<1>13. ASSUME NEW d \in Sessions, C3Verified(d)
      PROVE  Certified'
  BY <1>13 DEF C3Verified, Calm, C3End, C3Stage, remote, Expected
<1>14. CASE ProcessDies
  BY <1>14 DEF ProcessDies, Trouble, Release, prefs, Idle, Expected
<1>15. CASE UNCHANGED <<ledger, server>>
  BY <1>15 DEF Expected
<1>16. QED
  BY <1>1, <1>2, <1>3, <1>4, <1>5, <1>6, <1>7, <1>8, <1>9, <1>10, <1>11, <1>12, <1>13,
      <1>14, <1>15 DEF Next, Evaluate, C3Step, vars, Request, UserRequest, Claim,
      AlarmFires, ClearStale, Start, InputFails, MarksMissing, RunBatch, CommitCursor,
      BudgetExhausted, Fails, Repair, WriteDone, C3Skip, C3Throws, C3Upload,
      ServiceStops, Continuation, Goto, JobDate, JobState, Release, Reminder, Trouble,
      prefs, remote

(***************************************************************************)
(* A run that says labels_saved has every label it expected on the server, *)
(* however many uploads were lost, repaired or repeated.                   *)
(***************************************************************************)
THEOREM CertificatesTrue == Spec => []LabelsOnServer
<1>1. Init => Certified
  BY CertifiedInit
<1>2. Typed /\ Certified /\ [Next]_vars => Certified'
  BY CertifiedStep
<1>3. Typed /\ Certified => LabelsOnServer
  BY DEF Typed, TypeOK, Certified, LabelsOnServer, LabelsSaved
<1>4. QED
  BY <1>1, <1>2, <1>3, TypedAlways, PTL DEF Spec

-----------------------------------------------------------------------------
(***************************************************************************)
(* The cursor.  It belongs to one session only as far as its total tells   *)
(* the sessions apart; where two sessions have the same number of batches  *)
(* the code takes the cursor of one for that of the other.                 *)
(***************************************************************************)
LengthsTell == \A d, e \in Sessions : Total[d] = Total[e] => d = e

\* The outcomes of the first n batches of a session.
Prefix(d, n) == {<<d, b>> : b \in 0 .. n - 1}

\* What the cursor counts is in the file, in the preferences as in memory.
CursorTrue ==
    /\ \A d \in Sessions :
         job.total = Total[d] /\ file[d] \notin {None, Torn} =>
            Prefix(d, job.completed) \subseteq file[d]
    /\ eval.pc \in Resumed => Prefix(claim, eval.completed) \subseteq file[claim]
    /\ eval.pc = "commit" => <<claim, eval.completed>> \in file[claim]

LEMMA PrefixIs ==
    ASSUME NEW d, NEW n \in Nat
    PROVE  /\ Prefix(d, 0) = {}
           /\ Prefix(d, n + 1) = Prefix(d, n) \cup {<<d, n>>}
           /\ \A m \in Nat : m <= n => Prefix(d, m) \subseteq Prefix(d, n)
           /\ Total[d] = n => Prefix(d, n) = Rows(d)
  BY DEF Prefix, Rows

LEMMA CursorInit ==
    ASSUME Init
    PROVE  CursorTrue
  BY EvaluationAssumption
     DEF Init, CursorTrue, EvaluationAssumption, Idle, Resumed, Working

LEMMA CursorStep ==
    ASSUME LengthsTell, Typed, CursorTrue, [Next]_vars
    PROVE  CursorTrue'
<1> USE EvaluationAssumption DEF EvaluationAssumption, Typed, TypeOK, Placed,
        Working, Resumed, FileComplete, CursorTrue, LengthsTell
<1>1. ASSUME NEW d \in Sessions, UserRequest(d)
      PROVE  CursorTrue'
  BY <1>1, PrefixIs DEF UserRequest, Trouble, remote
<1>2. ASSUME NEW d \in Sessions, Claim(d)
      PROVE  CursorTrue'
  BY <1>2, PrefixIs DEF Claim, Idle, prefs, remote
<1>3. CASE Start
  BY <1>3, PrefixIs DEF Start, JobDate, Release, Goto, remote, Idle
<1>4. CASE InputFails
  BY <1>4, PrefixIs DEF InputFails, Trouble, Reminder, Release, remote, Idle
<1>5. CASE MarksMissing
  BY <1>5, PrefixIs DEF MarksMissing, Trouble, JobState, Reminder, Release, remote,
      Idle
<1>6. CASE Begin
  BY <1>6, PrefixIs DEF Begin, NewRun, Goto, prefs, remote
<1>7. CASE Resume
  <2>1. claim \in Sessions /\ active = claim /\ eval'.pc = "loop"
        /\ eval'.completed = Cursor(claim) /\ claim' = claim
        /\ job' = [date |-> claim, total |-> Total[claim], completed |-> Cursor(claim)]
    BY <1>7 DEF Resume, JobState
  <2>2. Prefix(claim, Cursor(claim)) \subseteq file'[claim]
    <3>1. CASE Resumable(claim) /\ file[claim] # {}
      <4>1. /\ Prefix(claim, job.completed) \subseteq file'[claim]
            /\ Cursor(claim) \in Nat /\ Cursor(claim) <= job.completed
        BY <1>7, <2>1, <3>1 DEF Resume, Resumable, Cursor
      <4>2. Prefix(claim, Cursor(claim)) \subseteq Prefix(claim, job.completed)
        BY <4>1, PrefixIs
      <4>3. QED
        BY <4>1, <4>2
    <3>2. CASE ~(Resumable(claim) /\ file[claim] # {})
      BY <3>2, PrefixIs DEF Cursor
    <3>3. QED
      BY <3>1, <3>2
  <2>3. \A d \in Sessions \ {claim} : Total[d] # Total[claim]
    BY <2>1
  <2>4. QED
    BY <2>1, <2>2, <2>3
<1>8. CASE RunBatch
  <2>1. claim \in Sessions /\ file[claim] \subseteq Rows(claim) /\ eval.completed < Total[claim]
    BY <1>8 DEF RunBatch
  <2>2. file[claim] \notin {None, Torn}
    BY <2>1, RowsType, AbsentAssumption DEF AbsentAssumption
  <2>3. \A d \in Sessions : file[d] \in {None, Torn} <=> file'[d] \in {None, Torn}
    <3>1. file'[claim] \subseteq Rows(claim)
      BY <1>8, <2>1, RowsType DEF RunBatch
    <3>2. QED
      BY <1>8, <2>1, <2>2, <3>1, RowsType, AbsentAssumption DEF RunBatch, AbsentAssumption
  <2>4. QED
    BY <1>8, <2>1, <2>3 DEF RunBatch, Goto, prefs
<1>9. CASE CommitCursor
  BY <1>9, PrefixIs DEF CommitCursor, JobState, remote
<1>10. CASE BudgetExhausted
  BY <1>10, PrefixIs DEF BudgetExhausted, Trouble, JobState, Continuation, Release,
      remote, Idle
<1>11. CASE Fails
  <2>1. claim \in Sessions /\ Prefix(claim, 0) = {}
    BY <1>11, PrefixIs DEF Fails
  <2>2. eval.completed = 0 \/ Prefix(claim, eval.completed) \subseteq file[claim]
    BY <1>11 DEF Fails
  <2>3. job' = [date |-> claim, total |-> Total[claim], completed |-> eval.completed]
    BY <1>11 DEF Fails, JobState
  <2>4. QED
    BY <1>11, <2>1, <2>2, <2>3 DEF Fails, Release, Idle
<1>12. CASE Validate
  BY <1>12, PrefixIs DEF Validate, Goto, AckOf, prefs, remote
<1>13. CASE SaveAcknowledged
  BY <1>13, PrefixIs DEF SaveAcknowledged, Calm, Trouble, Goto, prefs
<1>14. CASE SaveFails
  BY <1>14, PrefixIs DEF SaveFails, Trouble, JobState, Reminder, Release, Idle
<1>15. CASE ReadFails
  BY <1>15, PrefixIs DEF ReadFails, Trouble, StoreAck, Incomplete, AckOf, JobState,
      Continuation, Release, Idle
<1>16. CASE Certify
  BY <1>16, PrefixIs DEF Certify, StoreAck, Verified, Goto, remote, AckOf
<1>17. CASE Repair
  BY <1>17, PrefixIs DEF Repair, Goto, prefs, remote, Verified
<1>18. CASE NotCertified
  BY <1>18, PrefixIs DEF NotCertified, StoreAck, Incomplete, Verified, AckOf,
      JobState, Continuation, Release, Idle
<1>19. CASE WriteDone
  BY <1>19, PrefixIs DEF WriteDone, JobState, Goto, remote
<1>20. CASE QueueC3
  BY <1>20, PrefixIs DEF QueueC3, Reminder, Release, remote, Idle
<1>21. CASE ProcessDies
  BY <1>21, PrefixIs DEF ProcessDies, Trouble, Release, prefs, Idle
<1>22. CASE UNCHANGED <<job, file, eval, claim>>
  BY <1>22
<1>23. QED
  BY <1>1, <1>2, <1>3, <1>4, <1>5, <1>6, <1>7, <1>8, <1>9, <1>10, <1>11, <1>12, <1>13,
      <1>14, <1>15, <1>16, <1>17, <1>18, <1>19, <1>20, <1>21, <1>22 DEF Next,
      Evaluate, C3Step, vars, Request, AlarmFires, ClearStale, C3Skip, C3Start,
      C3Fails, C3Ineligible, C3Verified, C3Throws, C3Upload, ServiceStops, C3End,
      Trouble, prefs, remote

(***************************************************************************)
(* Where the total tells the sessions apart, an evaluation goes on from a  *)
(* cursor whose batches are in its own session's file, whatever was torn,  *)
(* replaced or interleaved with other sessions before.                     *)
(***************************************************************************)
THEOREM CursorIsCovered == LengthsTell /\ Spec => []CursorCovered
<1> SUFFICES ASSUME LengthsTell
             PROVE  Spec => []CursorCovered
  OBVIOUS
<1>1. Init => CursorTrue
  BY CursorInit
<1>2. Typed /\ CursorTrue /\ [Next]_vars => CursorTrue'
  BY CursorStep
<1>3. Typed /\ CursorTrue => CursorCovered
  BY DEF Typed, TypeOK, Placed, CursorTrue, CursorCovered, Prefix, Resumed, Working
<1>4. QED
  BY <1>1, <1>2, <1>3, TypedAlways, PTL DEF Spec

-----------------------------------------------------------------------------
(***************************************************************************)
(* Done.  The certificate demands the labels the session expects and every *)
(* row of the file: that is every row of the session if the cursor can be  *)
(* relied on, or if every row is a label.                                  *)
(***************************************************************************)
AllLabels == Labelable = AllRows

Stored ==
    /\ eval.pc \in {"certified", "queue"} => Rows(claim) \subseteq server
    /\ DoneIsStored

LEMMA CertifiedRows ==
    ASSUME Typed, AllLabels \/ CursorTrue, Certify
    PROVE  Rows(claim) \subseteq server
<1> USE EvaluationAssumption DEF EvaluationAssumption, Typed, TypeOK, Placed,
        Working, Resumed, FileComplete
<1>1. /\ claim \in Sessions /\ active = claim
      /\ ledger[claim].expected = Expected(claim) /\ eval.completed = Total[claim]
  BY DEF Certify
<1>2. Expected(claim) \subseteq file[claim] \cap server /\ file[claim] \subseteq server
  BY <1>1 DEF Certify, Complete, Missing, Verified
<1>3. CASE AllLabels
  BY <1>1, <1>2, <1>3, RowsType DEF AllLabels, Expected
<1>4. CASE CursorTrue
  <2>1. Prefix(claim, Total[claim]) \subseteq file[claim]
    BY <1>1, <1>4 DEF CursorTrue, Certify
  <2>2. Prefix(claim, Total[claim]) = Rows(claim)
    BY <1>1, PrefixIs
  <2>3. QED
    BY <1>2, <2>1, <2>2
<1>5. QED
  BY <1>3, <1>4

LEMMA StoredInit ==
    ASSUME Init
    PROVE  Stored
  BY EvaluationAssumption DEF Init, Stored, DoneIsStored, Idle, EvaluationAssumption

LEMMA StoredStep ==
    ASSUME Typed, AllLabels \/ CursorTrue, Stored, [Next]_vars
    PROVE  Stored'
<1> USE EvaluationAssumption DEF EvaluationAssumption, Typed, TypeOK, Placed,
        Working, Resumed, FileComplete, Stored, DoneIsStored
<1>1. ASSUME NEW d \in Sessions, UserRequest(d)
      PROVE  Stored'
  BY <1>1 DEF UserRequest, Trouble, remote, Rows
<1>2. ASSUME NEW d \in Sessions, Claim(d)
      PROVE  Stored'
  BY <1>2 DEF Claim, Idle, prefs, remote, Rows
<1>3. CASE Start
  BY <1>3 DEF Start, JobDate, Release, Goto, remote, Idle, Rows
<1>4. CASE InputFails
  BY <1>4 DEF InputFails, Trouble, Reminder, Release, remote, Idle, Rows
<1>5. CASE MarksMissing
  BY <1>5 DEF MarksMissing, Trouble, JobState, Reminder, Release, remote, Idle, Rows
<1>6. CASE Begin
  BY <1>6 DEF Begin, NewRun, Goto, prefs, remote, Rows
<1>7. CASE Resume
  BY <1>7 DEF Resume, Resumable, JobState, Cursor, remote, Rows
<1>8. CASE RunBatch
  BY <1>8 DEF RunBatch, Goto, prefs, remote, Rows
<1>9. CASE CommitCursor
  BY <1>9 DEF CommitCursor, JobState, remote, Rows
<1>10. CASE BudgetExhausted
  BY <1>10 DEF BudgetExhausted, Trouble, JobState, Continuation, Release, remote,
      Idle, Rows
<1>11. CASE Fails
  BY <1>11 DEF Fails, Trouble, JobState, Reminder, Release, remote, Idle, Rows
<1>12. CASE Validate
  BY <1>12 DEF Validate, Goto, AckOf, prefs, remote, Rows
<1>13. CASE SaveAcknowledged
  BY <1>13 DEF SaveAcknowledged, Calm, Trouble, Goto, prefs, Rows
<1>14. CASE SaveFails
  BY <1>14 DEF SaveFails, Trouble, JobState, Reminder, Release, Idle, Rows
<1>15. CASE ReadFails
  BY <1>15 DEF ReadFails, Trouble, StoreAck, Incomplete, AckOf, JobState,
      Continuation, Release, Idle, Rows
<1>16. CASE Certify
  <2>1. Rows(claim) \subseteq server /\ server' = server /\ eval'.pc = "certified"
    BY <1>16, CertifiedRows DEF Certify, Goto, remote
  <2>2. QED
    BY <1>16, <2>1 DEF Certify, Goto, Rows
<1>17. CASE Repair
  BY <1>17 DEF Repair, Goto, prefs, remote, Verified, Rows
<1>18. CASE NotCertified
  BY <1>18 DEF NotCertified, StoreAck, Incomplete, Verified, AckOf, JobState,
      Continuation, Release, Idle, Rows
<1>19. CASE WriteDone
  BY <1>19 DEF WriteDone, JobState, Goto, remote, Rows
<1>20. CASE QueueC3
  BY <1>20 DEF QueueC3, Reminder, Release, remote, Idle, Rows
<1>21. ASSUME NEW d \in Sessions, C3Skip(d)
      PROVE  Stored'
  BY <1>21 DEF C3Skip, Loaded, prefs, remote, Rows
<1>22. ASSUME NEW d \in Sessions, C3Start(d)
      PROVE  Stored'
  BY <1>22 DEF C3Start, Loaded, C3Stage, remote, Rows
<1>23. ASSUME NEW d \in Sessions, C3Fails(d)
      PROVE  Stored'
  BY <1>23 DEF C3Fails, Trouble, C3End, C3Stage, remote, Rows
<1>24. ASSUME NEW d \in Sessions, C3Ineligible(d)
      PROVE  Stored'
  BY <1>24 DEF C3Ineligible, Calm, C3End, C3Stage, remote, Rows
<1>25. ASSUME NEW d \in Sessions, C3Verified(d)
      PROVE  Stored'
  BY <1>25 DEF C3Verified, Calm, C3End, C3Stage, remote, Rows
<1>26. ASSUME NEW d \in Sessions, C3Throws(d)
      PROVE  Stored'
  BY <1>26 DEF C3Throws, Trouble, prefs, remote, Rows
<1>27. ASSUME NEW d \in Sessions, C3Upload(d)
      PROVE  Stored'
  BY <1>27 DEF C3Upload, prefs, Rows
<1>28. CASE ProcessDies
  BY <1>28 DEF ProcessDies, Trouble, Release, prefs, Idle, Rows
<1>29. CASE UNCHANGED <<eval, claim, done, c3, server>>
  BY <1>29 DEF Rows
<1>30. QED
  BY <1>1, <1>2, <1>3, <1>4, <1>5, <1>6, <1>7, <1>8, <1>9, <1>10, <1>11, <1>12, <1>13,
      <1>14, <1>15, <1>16, <1>17, <1>18, <1>19, <1>20, <1>21, <1>22, <1>23, <1>24,
      <1>25, <1>26, <1>27, <1>28, <1>29 DEF Next, Evaluate, C3Step, vars, Request,
      AlarmFires, ClearStale, ServiceStops, prefs, remote

(***************************************************************************)
(* evaluation_done_date, which stops every later start of its session, and *)
(* C3 come only after the outcomes are on the server: all of them where    *)
(* the totals tell the sessions apart, or where every row is a label.      *)
(***************************************************************************)
THEOREM DoneIsTrue == (LengthsTell \/ AllLabels) /\ Spec => []DoneIsStored
<1>1. Init => CursorTrue /\ Stored
  BY CursorInit, StoredInit
<1>2. Stored => DoneIsStored
  BY DEF Stored
<1>3. CASE LengthsTell
  <2>1. Typed /\ CursorTrue /\ [Next]_vars => CursorTrue'
    BY <1>3, CursorStep
  <2>2. Typed /\ CursorTrue /\ Stored /\ [Next]_vars => Stored'
    BY StoredStep
  <2>3. QED
    BY <1>1, <1>2, <2>1, <2>2, TypedAlways, PTL DEF Spec
<1>4. CASE AllLabels
  <2>1. Typed /\ Stored /\ [Next]_vars => Stored'
    BY <1>4, StoredStep
  <2>2. QED
    BY <1>1, <1>2, <2>1, TypedAlways, PTL DEF Spec
<1>5. QED
  BY <1>3, <1>4
=============================================================================
