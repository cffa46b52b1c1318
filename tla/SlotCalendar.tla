---------------------------- MODULE SlotCalendar ----------------------------
(***************************************************************************)
(* The bookings of short-term slots, modules/slots.                        *)
(*                                                                         *)
(* Creation and update are Serializable transactions, retried three times  *)
(* on a conflict: one action each, and a creation that meets its own       *)
(* reference again on every retry does not happen.  Confirmation and       *)
(* cancellation are single writes; a deletion reads, then deletes.  Of the *)
(* six dates of a booking the first and the last are kept, which are all   *)
(* the check for conflicts looks at.  Prices, and what is asked of the     *)
(* unit and of the lead before a creation, are left out.                   *)
(***************************************************************************)
EXTENDS Integers, FiniteSets

CONSTANTS
    Bookings,   \* rows that may be created
    Slots,
    Horizon,    \* the last point of time a booking can end at
    Operations  \* the operations in use, a subset of AllOperations

\* "revive" is the confirmation of a booking that was cancelled.
AllOperations == {"update", "revive", "delete"}

ASSUME OperationsAssumption == Operations \subseteq AllOperations
ASSUME HorizonAssumption == Horizon \in Nat \ {0}
ASSUME SlotsAssumption == Slots # {}

VARIABLES
    status,   \* the status column of each booking; "none" before, "gone" after
    slot,
    from,     \* the start of its installation
    to,       \* the end of its dismantling
    ref,      \* the number in its reference
    deleting  \* bookings somebody is about to delete

timeline == <<from, to>>
vars == <<status, slot, timeline, ref, deleting>>

Times == 0 .. Horizon
Blocking == {"PENDING", "CONFIRMED"}
Statuses == Blocking \cup {"CANCELLED"}

Rows == {b \in Bookings : status[b] \in Statuses}

Init ==
    /\ status = [b \in Bookings |-> "none"]
    /\ slot \in [Bookings -> {CHOOSE s \in Slots : TRUE}]
    /\ from = [b \in Bookings |-> 0]
    /\ to = [b \in Bookings |-> 1]
    /\ ref = [b \in Bookings |-> 0]
    /\ deleting = {}

-----------------------------------------------------------------------------

\* The interval from f to t meets the one of another booking of the slot.
Conflict(s, f, t, others) ==
    \E b \in others :
        status[b] \in Blocking /\ slot[b] = s /\ from[b] < t /\ to[b] > f

\* The year in front of the number is left out: one year is looked at.
NextRef == Cardinality(Rows) + 1

\* The unique index on the reference.
RefIsFree(n) == \A b \in Rows : ref[b] # n

\* Mutant of Create: bookings that are only PENDING do not count.
CreateBesidePending(b, s, f, t) ==
    /\ status[b] = "none" /\ f < t
    /\ ~Conflict(s, f, t, {c \in Bookings : status[c] # "PENDING"})
    /\ RefIsFree(NextRef)
    /\ status' = [status EXCEPT ![b] = "PENDING"]
    /\ slot' = [slot EXCEPT ![b] = s]
    /\ from' = [from EXCEPT ![b] = f]
    /\ to' = [to EXCEPT ![b] = t]
    /\ ref' = [ref EXCEPT ![b] = NextRef]
    /\ UNCHANGED deleting

Create(b, s, f, t) ==
    /\ status[b] = "none" /\ f < t
    /\ ~Conflict(s, f, t, Bookings)
    /\ RefIsFree(NextRef)
    /\ status' = [status EXCEPT ![b] = "PENDING"]
    /\ slot' = [slot EXCEPT ![b] = s]
    /\ from' = [from EXCEPT ![b] = f]
    /\ to' = [to EXCEPT ![b] = t]
    /\ ref' = [ref EXCEPT ![b] = NextRef]
    /\ UNCHANGED deleting

Update(b, f, t) ==
    /\ "update" \in Operations
    /\ status[b] \in Blocking /\ f < t
    /\ ~Conflict(slot[b], f, t, Bookings \ {b})
    /\ from' = [from EXCEPT ![b] = f]
    /\ to' = [to EXCEPT ![b] = t]
    /\ UNCHANGED <<status, slot, ref, deleting>>

\* The code looks at no status.
Confirm(b) ==
    /\ b \in Rows
    /\ status[b] = "CANCELLED" => "revive" \in Operations
    /\ status' = [status EXCEPT ![b] = "CONFIRMED"]
    /\ UNCHANGED <<slot, timeline, ref, deleting>>

Cancel(b) ==
    /\ b \in Rows
    /\ status' = [status EXCEPT ![b] = "CANCELLED"]
    /\ UNCHANGED <<slot, timeline, ref, deleting>>

DeleteRead(b) ==
    /\ "delete" \in Operations /\ status[b] = "CANCELLED"
    /\ deleting' = deleting \cup {b}
    /\ UNCHANGED <<status, slot, timeline, ref>>

Delete(b) ==
    /\ b \in deleting
    /\ status' = [status EXCEPT ![b] = "gone"]
    /\ deleting' = deleting \ {b}
    /\ UNCHANGED <<slot, timeline, ref>>

Next ==
    \E b \in Bookings :
        \/ \E s \in Slots, f, t \in Times : Create(b, s, f, t)
        \/ \E f, t \in Times : Update(b, f, t)
        \/ Confirm(b)
        \/ Cancel(b)
        \/ DeleteRead(b)
        \/ Delete(b)

Spec == Init /\ [][Next]_vars

-----------------------------------------------------------------------------
(* Properties.                                                             *)

\* Types; a booking ends after it starts, and only what can be read is
\* about to be deleted.
TypeOK ==
    /\ status \in [Bookings -> Statuses \cup {"none", "gone"}]
    /\ slot \in [Bookings -> Slots]
    /\ from \in [Bookings -> Times]
    /\ to \in [Bookings -> Times]
    /\ \A b \in Bookings : from[b] < to[b]
    /\ ref \in [Bookings -> Nat]
    /\ deleting \subseteq Rows

\* A slot is never allocated twice for the same time (Wave 19 of the golden
\* program): the intervals of bookings that block do not meet.
NoOverlap ==
    \A b, c \in Bookings :
        b # c /\ {status[b], status[c]} \subseteq Blocking /\ slot[b] = slot[c]
            => to[b] <= from[c] \/ to[c] <= from[b]

\* What holds a slot is never deleted: deleteSlotBooking() promises to
\* delete cancelled bookings only.
OnlyCancelledIsDeleted ==
    [][\A b \in Bookings :
          status[b] \in Blocking => status'[b] # "gone"]_vars

\* The references given out never stand in the way of the next creation,
\* which would meet them on each of its retries.
BookingNeverBlocked == RefIsFree(NextRef)
=============================================================================
