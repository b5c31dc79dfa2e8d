--------------------------- MODULE EvidenceLedger ---------------------------
(***************************************************************************)
(* What every durable outbox of Market Radar promises about the evidence   *)
(* (position ticks, telemetry objects, capture bundles) it was given: an   *)
(* item that has reached durable storage leaves it only for one of two     *)
(* places, the backend, or the local quarantine.  The module knows nothing *)
(* of queues, passes, chunks or HTTP; the components refine it.            *)
(***************************************************************************)

VARIABLES
    pending,      \* items in durable local storage, waiting for upload
    delivered,    \* items the backend holds
    quarantined   \* items retained in the durable quarantine

ledger == <<pending, delivered, quarantined>>

Init == delivered = {} /\ pending = {} /\ quarantined = {}

(***************************************************************************)
(* The backend stores items.  It may do so without the client learning of  *)
(* it, and it may be sent items that are not on disk yet.                  *)
(***************************************************************************)
Deliver ==
    /\ delivered \subseteq delivered'
    /\ UNCHANGED <<pending, quarantined>>

(***************************************************************************)
(* One write of the durable file.  It can add items and move items to the  *)
(* quarantine; an item it drops is already delivered or quarantined.       *)
(***************************************************************************)
Rewrite ==
    /\ quarantined \subseteq quarantined'
    /\ pending \subseteq pending' \cup delivered \cup quarantined'
    /\ UNCHANGED delivered

Next == Deliver \/ Rewrite

Spec == Init /\ [][Next]_ledger

-----------------------------------------------------------------------------
(***************************************************************************)
(* An item is accounted for when at least one of the three places has it.  *)
(***************************************************************************)
Accounted(item) == item \in pending \cup delivered \cup quarantined

(***************************************************************************)
(* Once accounted for, always accounted for: the promise in the form in    *)
(* which the rest of the program relies on it.                             *)
(***************************************************************************)
NeverForgotten(item) == [](Accounted(item) => []Accounted(item))
=============================================================================
