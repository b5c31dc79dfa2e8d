--------------------------- MODULE MCSingleLegStore ---------------------------
(***************************************************************************)
(* Instances of SingleLegStore for TLC.                                    *)
(***************************************************************************)
EXTENDS SingleLegStore, TLC

\* All taps are on one index.
OneIndex == [r \in Requests |-> CHOOSE i \in Indices : TRUE]

RequestSymmetry == Permutations(Requests)
===============================================================================
