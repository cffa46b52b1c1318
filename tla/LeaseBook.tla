----------------------------- MODULE LeaseBook ------------------------------
(***************************************************************************)
(* What the leasing team expects of its contracts: a contract is drafted   *)
(* on a unit nobody else has a contract for, may move to another such unit *)
(* as long as it is a draft, becomes a lease, and ends for good.           *)
(***************************************************************************)
CONSTANTS Contracts, Units

VARIABLES
    phase,  \* "none", "draft", "lease" or "over", for each contract
    place   \* the unit of the contract

bookVars == <<phase, place>>

IsFree(u) == \A c \in Contracts : place[c] = u => phase[c] \in {"none", "over"}

Init ==
    /\ phase = [c \in Contracts |-> "none"]
    /\ place \in [Contracts -> Units]

Draft(c, u) ==
    /\ phase[c] = "none" /\ IsFree(u)
    /\ phase' = [phase EXCEPT ![c] = "draft"]
    /\ place' = [place EXCEPT ![c] = u]

Relocate(c, u) ==
    /\ phase[c] = "draft" /\ IsFree(u)
    /\ place' = [place EXCEPT ![c] = u]
    /\ UNCHANGED phase

Activate(c) ==
    /\ phase[c] = "draft"
    /\ phase' = [phase EXCEPT ![c] = "lease"]
    /\ UNCHANGED place

End(c) ==
    /\ phase[c] = "lease"
    /\ phase' = [phase EXCEPT ![c] = "over"]
    /\ UNCHANGED place

Next ==
    \E c \in Contracts :
        \/ \E u \in Units : Draft(c, u) \/ Relocate(c, u)
        \/ Activate(c)
        \/ End(c)

Spec == Init /\ [][Next]_bookVars
=============================================================================
