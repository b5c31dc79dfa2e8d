----------------------- MODULE MCPositionTickSchedule -----------------------
(***************************************************************************)
(* Small instances of the drain schedule for TLC.  Workers are             *)
(* interchangeable, and so are the tokens of enqueue attempts: the model   *)
(* only compares them.                                                     *)
(***************************************************************************)
EXTENDS PositionTickSchedule, TLC

WorkerSymmetry == Permutations(Workers)
=============================================================================
