----------------------------- MODULE Promotion -----------------------------
(***************************************************************************)
(* What write-audit-publish promises to the readers of one production      *)
(* table: it only ever becomes a staged version that its audit approved,   *)
(* each version at most once, and a version that was withdrawn never.      *)
(***************************************************************************)
CONSTANTS Versions, Initial

VARIABLES
    live,   \* the version production shows
    fate    \* [Versions -> Fates]

Fates == {"none", "staged", "approved", "withdrawn", "promoted"}
Pending == {"staged", "approved"}

Init == live = Initial /\ fate = [v \in Versions |-> "none"]

Stage(v) ==
    /\ fate[v] = "none"
    /\ fate' = [fate EXCEPT ![v] = "staged"]
    /\ UNCHANGED live

Judge(v) ==
    /\ fate[v] \in Pending
    /\ \E verdict \in Pending : fate' = [fate EXCEPT ![v] = verdict]
    /\ UNCHANGED live

Withdraw(v) ==
    /\ fate[v] \in Pending
    /\ fate' = [fate EXCEPT ![v] = "withdrawn"]
    /\ UNCHANGED live

Promote(v) ==
    /\ fate[v] = "approved"
    /\ fate' = [fate EXCEPT ![v] = "promoted"]
    /\ live' = v

Next == \E v \in Versions : Stage(v) \/ Judge(v) \/ Withdraw(v) \/ Promote(v)

Spec == Init /\ [][Next]_<<live, fate>>
=============================================================================
