------------------------------ MODULE UnitDesk ------------------------------
(***************************************************************************)
(* What proposals and contracts expect of the bookings of a unit: a queue  *)
(* stands only before a unit that is reserved for it, a unit under         *)
(* contract is left alone, and a contract sends the queue away.            *)
(***************************************************************************)
EXTENDS UnitStatus

CONSTANT Units

VARIABLES
    unit,    \* the status column of each unit
    queued,  \* units somebody waits for
    live     \* units with a contract neither EXPIRED nor TERMINATED

deskVars == <<unit, queued, live>>

Init ==
    /\ unit = [u \in Units |-> "VACANT"]
    /\ queued = {}
    /\ live = {}

\* Somebody joins the queue of u or leaves it, and the unit goes along.
Serve(u, to) ==
    /\ u \notin live
    /\ to \in {unit[u], "VACANT", "BOOKING"} /\ CanTransition(unit[u], to)
    /\ unit' = [unit EXCEPT ![u] = to]
    /\ queued' \in {queued \ {u}, queued \cup {u}}
    /\ u \in queued' => to = "BOOKING"
    /\ UNCHANGED live

Contract(u) ==
    /\ u \notin live /\ CanTransition(unit[u], "CONTRACTED")
    /\ unit' = [unit EXCEPT ![u] = "CONTRACTED"]
    /\ queued' = queued \ {u}
    /\ live' = live \cup {u}

\* A contract ends; its unit is freed, or keeps its status.
End(u) ==
    /\ u \in live
    /\ unit' \in {unit, [unit EXCEPT ![u] = "VACANT"]}
    /\ live' = live \ {u}
    /\ UNCHANGED queued

Next ==
    \E u \in Units :
        \/ \E to \in UnitStatuses : Serve(u, to)
        \/ Contract(u)
        \/ End(u)

Spec == Init /\ [][Next]_deskVars
=============================================================================
