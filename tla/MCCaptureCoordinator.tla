------------------------ MODULE MCCaptureCoordinator ------------------------
(***************************************************************************)
(* Instances of CaptureCoordinator for TLC.                                *)
(***************************************************************************)
EXTENDS CaptureCoordinator, TLC

\* Every attempt captures a slot of its own; all attempts capture one slot.
DistinctKeys == [a \in Attempts |-> a]
SharedKey == [a \in Attempts |-> 1]

AttemptSymmetry == Permutations(Attempts)
=============================================================================
