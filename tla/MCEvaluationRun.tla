--------------------------- MODULE MCEvaluationRun ---------------------------
(***************************************************************************)
(* Instances of EvaluationRun for TLC.                                     *)
(***************************************************************************)
EXTENDS EvaluationRun

CONSTANTS d1, d2

\* A short session and a longer one, whose last snapshot held no trade
\* decision: the totals tell the sessions apart.
Unequal == [d \in Sessions |-> IF d = d1 THEN 1 ELSE 2]
UnequalLabelable == {<<d1, 0>>, <<d2, 0>>}

\* Two full sessions.
Equal == [d \in Sessions |-> 2]
EqualLabelable == AllRows
=============================================================================
