----------------------------- MODULE UnitStatus -----------------------------
(***************************************************************************)
(* The status of a leasable unit, shared by bookings, proposals,           *)
(* contracts, fit-out and the manual status endpoints.  Everything here is *)
(* constant-level: the modules that own a unit's row apply Transition to   *)
(* it.  Source: common/services/unit-status.service.ts.                    *)
(***************************************************************************)

UnitStatuses ==
    {"VACANT", "BOOKING", "NEGOTIATING", "CONTRACTED", "UNDER_FITOUT", "OCCUPIED", "MERGED"}

\* Where the leasing lifecycle may move a unit next.
AllowedTransitions ==
    [from \in UnitStatuses |->
        CASE from = "VACANT"       -> {"BOOKING", "NEGOTIATING"}
          [] from = "BOOKING"      -> {"VACANT", "NEGOTIATING", "CONTRACTED"}
          [] from = "NEGOTIATING"  -> {"VACANT", "BOOKING", "CONTRACTED"}
          [] from = "CONTRACTED"   -> {"UNDER_FITOUT", "OCCUPIED", "VACANT"}
          [] from = "UNDER_FITOUT" -> {"OCCUPIED", "VACANT"}
          [] from = "OCCUPIED"     -> {"VACANT", "UNDER_FITOUT"}
          [] OTHER                 -> {}]

CommittedStatuses == {"OCCUPIED", "CONTRACTED", "UNDER_FITOUT"}

LockedForBooking == {"NEGOTIATING", "MERGED"} \cup CommittedStatuses

LowAvailability == {"VACANT", "BOOKING", "NEGOTIATING"}

CanTransition(from, to) == from = to \/ to \in AllowedTransitions[from]

\* Mutant of TransitionAllowed: a unit is handed out without a look at its
\* contract.
TransitionIgnoringContract(from, to, live, queued) ==
    from # to =>
        /\ to = "BOOKING" => queued
        /\ to = "VACANT" => ~queued
        /\ CanTransition(from, to)

\* The checks of transition(): `live` says that the unit has a contract that
\* is neither EXPIRED nor TERMINATED, `queued` that it has a booking that is
\* ACTIVE or PENDING.  A write of the status the unit already has is
\* accepted without any check.
TransitionAllowed(from, to, live, queued) ==
    from # to =>
        /\ to \in LowAvailability => ~live
        /\ to = "BOOKING" => queued
        /\ to = "VACANT" => ~queued
        /\ to \in CommittedStatuses => live
        /\ CanTransition(from, to)
=============================================================================
