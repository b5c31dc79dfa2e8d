--------------------------- MODULE SingleLegContract ---------------------------
(***************************************************************************)
(* What the single-leg admission promises of every tap: one verdict that   *)
(* never changes, an entry exactly when the verdict is an admission, and   *)
(* answers that repeat the verdict.  A tap whose call timed out is         *)
(* undecided until the store decides it - never refused because a timer    *)
(* elapsed (SingleLegAdmissionCoordinator.kt, lines 10 to 20;              *)
(* single_leg_store_v1.py, lines 168 to 172).                              *)
(***************************************************************************)
CONSTANT Requests

VARIABLES
    verdict,  \* "open", "entered" or "refused"
    answered  \* what the user has been told, "open" while nothing definite

contractVars == <<verdict, answered>>

Verdicts == {"open", "entered", "refused"}

Init ==
    /\ verdict = [r \in Requests |-> "open"]
    /\ answered = [r \in Requests |-> "open"]

\* The store enters a position for the tap, or it is settled that it never will.
Decide(r) ==
    /\ verdict[r] = "open"
    /\ \E v \in {"entered", "refused"} : verdict' = [verdict EXCEPT ![r] = v]
    /\ answered' \in {answered, [answered EXCEPT ![r] = verdict'[r]]}

\* The user is told; a restart may ask again and hears the same.
Answer(r) ==
    /\ verdict[r] # "open"
    /\ answered' = [answered EXCEPT ![r] = verdict[r]]
    /\ UNCHANGED verdict

Next == \E r \in Requests : Decide(r) \/ Answer(r)

Spec == Init /\ [][Next]_contractVars
================================================================================
