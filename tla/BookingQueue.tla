---------------------------- MODULE BookingQueue ----------------------------
(***************************************************************************)
(* The queue of bookings in front of each unit                             *)
(* (modules/booking/booking.service.ts), with the other services that move *)
(* the same unit: contract creation, contract end and the manual status    *)
(* endpoint.                                                               *)
(*                                                                         *)
(* An endpoint that checks a row and later writes it is two actions:       *)
(* XRead makes the checks outside the transaction and keeps what it read   *)
(* in req[c]; X is the transaction, which sees the database as it is       *)
(* then.  Whatever other requests did in between is visible in the         *)
(* difference.  A transaction is one step: the code runs it Serializable   *)
(* and retries P2034, or (reordering, conversion) relies on its writes     *)
(* alone.  Abandon is a request that ends without its write: a check       *)
(* inside the transaction failed, the retries ran out, or the process      *)
(* died.                                                                   *)
(***************************************************************************)
EXTENDS Naturals, FiniteSets, FiniteSetsExt, UnitStatus

CONSTANTS
    Clients,      \* requests that can be in flight at once (a cron run is one)
    Bookings,     \* booking rows that can be created
    Units,
    Parties,      \* leads and customers
    Reviews,      \* price validation outcomes: a subset of {"NONE", "PENDING"}
    Operations,   \* the endpoints and jobs in use, a subset of AllOperations
    MaxPriority   \* bound on the priority column (unbounded in the code)

AllOperations ==
    {"create", "update", "price", "extend", "updatePriority", "reinstate",
     "cancel", "convert", "expire", "softDelete",
     "setStatus", "contractFromProposal", "createContract", "endContract"}

ASSUME OperationsAssumption == Operations \subseteq AllOperations
ASSUME ReviewsAssumption == Reviews \subseteq {"NONE", "PENDING"}
ASSUME MaxPriorityAssumption == MaxPriority \in Nat \ {0}
ASSUME BookingsAssumption == IsFiniteSet(Bookings)
ASSUME ParametersAssumption == Units # {} /\ Parties # {}

VARIABLES
    booking,     \* the UnitBooking rows
    unitStatus,  \* the status column of each unit
    live,        \* units with a contract neither EXPIRED nor TERMINATED
    req          \* what each client's request in flight has read

vars == <<booking, unitStatus, live, req>>

-----------------------------------------------------------------------------
(* Rows and requests.                                                      *)

QueuedStatuses == {"ACTIVE", "PENDING"}
Statuses == QueuedStatuses \cup {"CONVERTED", "CANCELLED", "EXPIRED"}
Prices == {"NONE", "PENDING", "APPROVED", "REJECTED"}

\* "NONE" is a row not yet created.
Rows == [status : Statuses \cup {"NONE"}, unit : Units, party : Parties,
         priority : 0 .. MaxPriority, isActive : BOOLEAN, price : Prices,
         overdue : BOOLEAN, proposal : BOOLEAN]

Idle == [op |-> "idle"]

Requests ==
    {Idle}
    \cup [op : {"extend", "reinstate", "cancel", "convert", "expire", "softDelete"},
          id : Bookings, unit : Units]
    \cup [op : {"update"}, id : Bookings, unit : Units, target : Units,
          party : Parties, price : {"KEEP"} \cup Reviews]
    \cup [op : {"price"}, id : Bookings, verdict : {"APPROVED", "REJECTED"}]
    \cup [op : {"updatePriority"}, id : Bookings, unit : Units,
          old : 0 .. MaxPriority, new : 1 .. MaxPriority]
    \cup [op : {"syncRead"}, unit : Units]
    \cup [op : {"sync"}, up : SUBSET Bookings, down : SUBSET Bookings]
    \cup [op : {"setStatus"}, unit : Units, to : UnitStatuses]

\* The queue of unit u in the rows bk: the filter every query repeats.
Queue(bk, u) ==
    {b \in Bookings : bk[b].unit = u /\ bk[b].isActive /\ bk[b].status \in QueuedStatuses}

\* orderBy priority asc: ties come back in any order.
First(bk, S) == {b \in S : \A other \in S : bk[b].priority <= bk[other].priority}

MaxQueued(bk, u) == Max({0} \cup {bk[b].priority : b \in Queue(bk, u)})

\* Where a newcomer goes, and what its status is.
StatusAt(position) == IF position = 1 THEN "ACTIVE" ELSE "PENDING"

Allowed(bk, u, to) ==
    TransitionAllowed(unitStatus[u], to, u \in live, Queue(bk, u) # {})

\* Mutant of Promotions: a queue that runs empty does not free the unit.
PromotionsKeepingUnit(bk, u) ==
    LET pending == {b \in Queue(bk, u) : bk[b].status = "PENDING"}
    IN  IF pending = {}
        THEN {[rows |-> bk, status |-> unitStatus[u]]}
        ELSE {[rows |-> [bk EXCEPT ![b].status = "ACTIVE", ![b].priority = 1],
               status |-> "BOOKING"] : b \in First(bk, pending)}

\* promoteNextInQueue on the rows bk: the first PENDING booking becomes the
\* ACTIVE one; an empty queue frees the unit.  The empty set is the
\* exception thrown by the unit transition, which rolls everything back.
Promotions(bk, u) ==
    LET pending == {b \in Queue(bk, u) : bk[b].status = "PENDING"}
        promoted(b) == [bk EXCEPT ![b].status = "ACTIVE", ![b].priority = 1]
    IN  IF pending = {}
        THEN {p \in {[rows |-> bk, status |-> "VACANT"]} : Allowed(bk, u, "VACANT")}
        ELSE {p \in {[rows |-> promoted(b), status |-> "BOOKING"] : b \in First(bk, pending)} :
                 Allowed(p.rows, u, "BOOKING")}

Init ==
    /\ booking \in [Bookings -> {[status |-> "NONE", unit |-> CHOOSE u \in Units : TRUE,
                                  party |-> CHOOSE p \in Parties : TRUE, priority |-> 0,
                                  isActive |-> TRUE, price |-> "NONE", overdue |-> FALSE,
                                  proposal |-> FALSE]}]
    /\ unitStatus = [u \in Units |-> "VACANT"]
    /\ live = {}
    /\ req = [c \in Clients |-> Idle]

\* A request starts only on an idle client and for an operation in use.
Starts(c, op) == req[c] = Idle /\ op \in Operations

Exists(b) == booking[b].status # "NONE"

\* requireBooking(id, [ACTIVE, PENDING])
IsQueued(b) == booking[b].isActive /\ booking[b].status \in QueuedStatuses

Ask(c, r) ==
    /\ req' = [req EXCEPT ![c] = r]
    /\ UNCHANGED <<booking, unitStatus, live>>

Done(c) == req' = [req EXCEPT ![c] = Idle]

-----------------------------------------------------------------------------
(* Creating a booking.  Every check is repeated inside the transaction, so *)
(* the reads before it cannot be told apart from those of the transaction. *)

\* A lead or customer has at most one queued booking on a unit.
Conflicting(u, p) == {b \in Queue(booking, u) : booking[b].party = p}

Create(c, b, u, p, review) ==
    LET priority == MaxQueued(booking, u) + 1
        created == [booking EXCEPT ![b] =
                       [status |-> StatusAt(priority), unit |-> u, party |-> p,
                        priority |-> priority, isActive |-> TRUE, price |-> review,
                        overdue |-> FALSE, proposal |-> FALSE]]
    IN  /\ Starts(c, "create")
        /\ ~Exists(b)
        /\ unitStatus[u] \notin LockedForBooking
        /\ Conflicting(u, p) = {}
        /\ priority <= MaxPriority
        /\ priority = 1 => Allowed(created, u, "BOOKING")
        /\ booking' = created
        /\ unitStatus' = [unitStatus EXCEPT ![u] = IF priority = 1 THEN "BOOKING" ELSE @]
        /\ UNCHANGED <<live, req>>

-----------------------------------------------------------------------------
(* Updating a booking: a new party, a new price to review, another unit.   *)

UpdateRead(c, b, target, party, price) ==
    /\ Starts(c, "update")
    /\ IsQueued(b)
    /\ target # booking[b].unit => unitStatus[target] \notin LockedForBooking
    /\ Ask(c, [op |-> "update", id |-> b, unit |-> booking[b].unit, target |-> target,
               party |-> party, price |-> price])

Edited(row, r) ==
    [row EXCEPT !.party = r.party, !.price = IF r.price = "KEEP" THEN @ ELSE r.price]

UpdateInPlace(c) ==
    LET r == req[c]
    IN  /\ r.op = "update"
        /\ r.target = r.unit
        /\ booking' = [booking EXCEPT ![r.id] = Edited(@, r)]
        /\ Done(c)
        /\ UNCHANGED <<unitStatus, live>>

\* The queue position in the new unit is counted inside the transaction; the
\* booking's own status is not read again, and the unit left behind is the
\* one read before.
UpdateMove(c) ==
    LET r == req[c]
        position == Cardinality(Queue(booking, r.target)) + 1
        moved == [booking EXCEPT ![r.id] =
                     [Edited(@, r) EXCEPT !.unit = r.target, !.priority = position,
                                          !.status = StatusAt(position)]]
    IN  /\ r.op = "update"
        /\ r.target # r.unit
        /\ position <= MaxPriority
        /\ \E p \in Promotions(moved, r.unit) :
              /\ position = 1 => Allowed(p.rows, r.target, "BOOKING")
              /\ booking' = p.rows
              /\ unitStatus' = [unitStatus EXCEPT
                                   ![r.unit] = p.status,
                                   ![r.target] = IF position = 1 THEN "BOOKING" ELSE @]
        /\ Done(c)
        /\ UNCHANGED live

-----------------------------------------------------------------------------
(* The decision about a proposed price, and the extension of the hold.     *)

PriceRead(c, b, verdict) ==
    /\ Starts(c, "price")
    /\ Exists(b)
    /\ booking[b].price = "PENDING"
    /\ Ask(c, [op |-> "price", id |-> b, verdict |-> verdict])

DecidePrice(c) ==
    /\ req[c].op = "price"
    /\ booking' = [booking EXCEPT ![req[c].id].price = req[c].verdict]
    /\ Done(c)
    /\ UNCHANGED <<unitStatus, live>>

ExtendRead(c, b) ==
    /\ Starts(c, "extend")
    /\ IsQueued(b)
    /\ Ask(c, [op |-> "extend", id |-> b, unit |-> booking[b].unit])

\* The days are added to the expiry that was read: they may not reach past
\* today.
Extend(c) ==
    /\ req[c].op = "extend"
    /\ \E overdue \in {FALSE, booking[req[c].id].overdue} :
          booking' = [booking EXCEPT ![req[c].id].overdue = overdue]
    /\ Done(c)
    /\ UNCHANGED <<unitStatus, live>>

-----------------------------------------------------------------------------
(* Dragging a booking to another position.                                 *)

UpdatePriorityRead(c, b, new) ==
    /\ Starts(c, "updatePriority")
    /\ IsQueued(b)
    /\ booking[b].priority # new
    /\ Ask(c, [op |-> "updatePriority", id |-> b, unit |-> booking[b].unit,
               old |-> booking[b].priority, new |-> new])

\* The others between the old and the new position make room.
Shifted(r) ==
    [b \in Bookings |->
        IF b = r.id THEN [booking[b] EXCEPT !.priority = r.new]
        ELSE IF b \notin Queue(booking, r.unit) THEN booking[b]
        ELSE IF booking[b].priority \in r.new .. (r.old - 1)
             THEN [booking[b] EXCEPT !.priority = @ + 1]
        ELSE IF booking[b].priority \in (r.old + 1) .. r.new
             THEN [booking[b] EXCEPT !.priority = @ - 1]
        ELSE booking[b]]

UpdatePriority(c) ==
    LET r == req[c]
    IN  /\ r.op = "updatePriority"
        /\ booking' = Shifted(r)
        /\ req' = [req EXCEPT ![c] = [op |-> "syncRead", unit |-> r.unit]]
        /\ UNCHANGED <<unitStatus, live>>

\* syncQueueStatus reads the queue once and then writes the rows whose
\* status is not the expected one, each in a statement of its own.
SyncRead(c) ==
    LET u == req[c].unit
        queue == Queue(booking, u)
        withStatus(S, status) == {b \in S : booking[b].status = status}
    IN  /\ req[c].op = "syncRead"
        /\ IF queue = {}
           THEN Done(c)
           ELSE \E head \in First(booking, queue) :
                   req' = [req EXCEPT ![c] =
                              [op |-> "sync", up |-> withStatus({head}, "PENDING"),
                               down |-> withStatus(queue \ {head}, "ACTIVE")]]
        /\ UNCHANGED <<booking, unitStatus, live>>

SyncWrite(c) ==
    LET r == req[c]
        write(b, status) ==
            /\ booking' = [booking EXCEPT ![b].status = status]
            /\ req' = [req EXCEPT ![c].up = @ \ {b}, ![c].down = @ \ {b}]
    IN  /\ r.op = "sync"
        /\ IF r.up # {} THEN \E b \in r.up : write(b, "ACTIVE")
                        ELSE \E b \in r.down : write(b, "PENDING")
        /\ UNCHANGED <<unitStatus, live>>

SyncEnd(c) ==
    /\ req[c].op = "sync"
    /\ req[c].up \cup req[c].down = {}
    /\ Done(c)
    /\ UNCHANGED <<booking, unitStatus, live>>

-----------------------------------------------------------------------------
(* Leaving the queue, and coming back to it.                               *)

ReinstateRead(c, b) ==
    /\ Starts(c, "reinstate")
    /\ booking[b].isActive
    /\ booking[b].status = "CANCELLED"
    /\ unitStatus[booking[b].unit] \notin LockedForBooking
    /\ Ask(c, [op |-> "reinstate", id |-> b, unit |-> booking[b].unit])

Reinstate(c) ==
    LET r == req[c]
        priority == MaxQueued(booking, r.unit) + 1
        restored == [booking EXCEPT ![r.id] =
                        [@ EXCEPT !.status = StatusAt(priority), !.priority = priority,
                                  !.overdue = FALSE]]
    IN  /\ r.op = "reinstate"
        /\ priority <= MaxPriority
        /\ priority = 1 => Allowed(restored, r.unit, "BOOKING")
        /\ booking' = restored
        /\ unitStatus' = [unitStatus EXCEPT ![r.unit] = IF priority = 1 THEN "BOOKING" ELSE @]
        /\ Done(c)
        /\ UNCHANGED live

CancelRead(c, b) ==
    /\ Starts(c, "cancel")
    /\ IsQueued(b)
    /\ Ask(c, [op |-> "cancel", id |-> b, unit |-> booking[b].unit])

\* Inside the transaction only CANCELLED is looked for.
Cancel(c) ==
    LET r == req[c]
    IN  /\ r.op = "cancel"
        /\ IF booking[r.id].status = "CANCELLED"
           THEN UNCHANGED <<booking, unitStatus>>
           ELSE \E p \in Promotions([booking EXCEPT ![r.id].status = "CANCELLED"], r.unit) :
                   /\ booking' = p.rows
                   /\ unitStatus' = [unitStatus EXCEPT ![r.unit] = p.status]
        /\ Done(c)
        /\ UNCHANGED live

\* The hourly job lists the overdue bookings once and takes each in a
\* transaction of its own.
ExpireRead(c, b) ==
    /\ Starts(c, "expire")
    /\ IsQueued(b)
    /\ booking[b].overdue
    /\ Ask(c, [op |-> "expire", id |-> b, unit |-> booking[b].unit])

Expire(c) ==
    LET r == req[c]
    IN  /\ r.op = "expire"
        /\ IF booking[r.id].status \in QueuedStatuses /\ booking[r.id].overdue
           THEN \E p \in Promotions([booking EXCEPT ![r.id].status = "EXPIRED"], r.unit) :
                   /\ booking' = p.rows
                   /\ unitStatus' = [unitStatus EXCEPT ![r.unit] = p.status]
           ELSE UNCHANGED <<booking, unitStatus>>
        /\ Done(c)
        /\ UNCHANGED live

ConvertRead(c, b) ==
    /\ Starts(c, "convert")
    /\ booking[b].status = "ACTIVE"
    /\ ~booking[b].proposal
    /\ booking[b].price \in {"NONE", "APPROVED"}
    /\ Ask(c, [op |-> "convert", id |-> b, unit |-> booking[b].unit])

\* Proposal.bookingId is unique: a second proposal fails the transaction.
Convert(c) ==
    LET b == req[c].id
    IN  /\ req[c].op = "convert"
        /\ ~booking[b].proposal
        /\ booking' = [booking EXCEPT ![b].status = "CONVERTED", ![b].proposal = TRUE]
        /\ Done(c)
        /\ UNCHANGED <<unitStatus, live>>

\* An ADMIN deletes any booking, other roles a cancelled or expired one.
SoftDeleteRead(c, b, isAdmin) ==
    /\ Starts(c, "softDelete")
    /\ Exists(b)
    /\ isAdmin \/ booking[b].status \in {"CANCELLED", "EXPIRED"}
    /\ Ask(c, [op |-> "softDelete", id |-> b, unit |-> booking[b].unit])

SoftDelete(c) ==
    /\ req[c].op = "softDelete"
    /\ booking' = [booking EXCEPT ![req[c].id].isActive = FALSE]
    /\ Done(c)
    /\ UNCHANGED <<unitStatus, live>>

Abandon(c) ==
    /\ req[c] # Idle
    /\ Done(c)
    /\ UNCHANGED <<booking, unitStatus, live>>

-----------------------------------------------------------------------------
(* The rest of the platform, as far as it touches a unit.                  *)

\* transition() outside a transaction: checks, then writes.  The manual
\* status endpoints and the rejection of a proposal use it.
SetStatusRead(c, u, to) ==
    /\ Starts(c, "setStatus")
    /\ Allowed(booking, u, to)
    /\ Ask(c, [op |-> "setStatus", unit |-> u, to |-> to])

SetStatus(c) ==
    /\ req[c].op = "setStatus"
    /\ unitStatus' = [unitStatus EXCEPT ![req[c].unit] = req[c].to]
    /\ Done(c)
    /\ UNCHANGED <<booking, live>>

\* Mutant of ContractFromProposal: the queue is left waiting.
ContractKeepingQueue(c, u) ==
    /\ Starts(c, "contractFromProposal")
    /\ u \notin live
    /\ CanTransition(unitStatus[u], "CONTRACTED")
    /\ live' = live \cup {u}
    /\ unitStatus' = [unitStatus EXCEPT ![u] = "CONTRACTED"]
    /\ UNCHANGED <<booking, req>>

\* An approved proposal for u becomes a contract: the queue is cancelled.
ContractFromProposal(c, u) ==
    /\ Starts(c, "contractFromProposal")
    /\ u \notin live
    /\ CanTransition(unitStatus[u], "CONTRACTED")
    /\ live' = live \cup {u}
    /\ unitStatus' = [unitStatus EXCEPT ![u] = "CONTRACTED"]
    /\ booking' = [b \in Bookings |->
                      IF b \in Queue(booking, u)
                      THEN [booking[b] EXCEPT !.status = "CANCELLED"]
                      ELSE booking[b]]
    /\ UNCHANGED req

\* A contract entered directly: the queue is left alone.
CreateContract(c, u) ==
    /\ Starts(c, "createContract")
    /\ u \notin live
    /\ CanTransition(unitStatus[u], "CONTRACTED")
    /\ live' = live \cup {u}
    /\ unitStatus' = [unitStatus EXCEPT ![u] = "CONTRACTED"]
    /\ UNCHANGED <<booking, req>>

\* The contract runs out (the unit keeps its status) or its termination is
\* completed (the unit is freed).
ContractExpires(c, u) ==
    /\ Starts(c, "endContract")
    /\ u \in live
    /\ live' = live \ {u}
    /\ UNCHANGED <<booking, unitStatus, req>>

CompleteTermination(c, u) ==
    /\ Starts(c, "endContract")
    /\ u \in live
    /\ TransitionAllowed(unitStatus[u], "VACANT", FALSE, Queue(booking, u) # {})
    /\ live' = live \ {u}
    /\ unitStatus' = [unitStatus EXCEPT ![u] = "VACANT"]
    /\ UNCHANGED <<booking, req>>

\* The hold of a queued booking runs out.
HoldEnds(b) ==
    /\ Exists(b)
    /\ IsQueued(b)
    /\ ~booking[b].overdue
    /\ booking' = [booking EXCEPT ![b].overdue = TRUE]
    /\ UNCHANGED <<unitStatus, live, req>>

-----------------------------------------------------------------------------

Read(c) ==
    \E b \in Bookings :
        \/ \E target \in Units, party \in Parties, price \in {"KEEP"} \cup Reviews :
              UpdateRead(c, b, target, party, price)
        \/ \E verdict \in {"APPROVED", "REJECTED"} : PriceRead(c, b, verdict)
        \/ ExtendRead(c, b)
        \/ \E new \in 1 .. MaxPriority : UpdatePriorityRead(c, b, new)
        \/ ReinstateRead(c, b)
        \/ CancelRead(c, b)
        \/ ExpireRead(c, b)
        \/ ConvertRead(c, b)
        \/ \E isAdmin \in BOOLEAN : SoftDeleteRead(c, b, isAdmin)

Write(c) ==
    \/ UpdateInPlace(c) \/ UpdateMove(c)
    \/ DecidePrice(c) \/ Extend(c)
    \/ UpdatePriority(c) \/ SyncRead(c) \/ SyncWrite(c) \/ SyncEnd(c)
    \/ Reinstate(c) \/ Cancel(c) \/ Expire(c) \/ Convert(c) \/ SoftDelete(c)
    \/ SetStatus(c)

Next ==
    \/ \E c \in Clients :
          \/ \E b \in Bookings, u \in Units, p \in Parties, review \in Reviews :
                Create(c, b, u, p, review)
          \/ Read(c) \/ Write(c) \/ Abandon(c)
          \/ \E u \in Units :
                \/ \E to \in UnitStatuses : SetStatusRead(c, u, to)
                \/ ContractFromProposal(c, u)
                \/ CreateContract(c, u)
                \/ ContractExpires(c, u)
                \/ CompleteTermination(c, u)
    \/ \E b \in Bookings : HoldEnds(b)

Spec == Init /\ [][Next]_vars

\* The hourly expiry job keeps running, and a hold that is not extended ends.
ExpiryFairness ==
    /\ \A b \in Bookings : WF_vars(HoldEnds(b))
    /\ \A c \in Clients, b \in Bookings : WF_vars(ExpireRead(c, b))
    /\ \A c \in Clients : WF_vars(Expire(c))

FairSpec == Spec /\ ExpiryFairness

-----------------------------------------------------------------------------
(* Properties.                                                             *)

\* Every row, unit and request in flight has the shape the code gives it.
TypeOK ==
    /\ booking \in [Bookings -> Rows]
    /\ unitStatus \in [Units -> UnitStatuses]
    /\ live \subseteq Units
    /\ req \in [Clients -> Requests]

\* A unit somebody is queued for is never offered as VACANT: cancellation,
\* expiry, a move away and the end of a contract free a unit only when they
\* leave nobody behind (promoteNextInQueue and the guards of transition()).
QueuedUnitNotVacant ==
    \A u \in Units : Queue(booking, u) # {} => unitStatus[u] # "VACANT"

\* A unit with a live contract is never handed out again: its status is one
\* of the committed ones whatever bookings, jobs and contracts do to it.
LiveContractHoldsUnit ==
    \A u \in live : unitStatus[u] \in CommittedStatuses

\* Where contracts come from proposals only: whoever waits for a unit waits
\* for one that is reserved (BOOKING), never for one that was let since.
QueuedUnitIsReserved ==
    \A u \in Units : Queue(booking, u) # {} => unitStatus[u] = "BOOKING"

\* Inventory is not blocked by those who left: the step after which nobody
\* waits for a unit any more frees the unit, hands it to a contract, or is
\* the conversion or the deletion of the last who waited.  (remove() deletes
\* a booking that still waits and leaves its unit as it is.)
EmptyingFrees ==
    \A u \in Units :
        Queue(booking, u) # {} /\ Queue(booking', u) = {} =>
            \/ unitStatus'[u] = "VACANT"
            \/ u \in live'
            \/ \E b \in Queue(booking, u) :
                  booking'[b].status = "CONVERTED" \/ ~booking'[b].isActive

EmptiedIsFreed == [][EmptyingFrees]_vars

\* The units as proposals and contracts see them.
Desk == INSTANCE UnitDesk
        WITH unit <- unitStatus, queued <- {u \in Units : Queue(booking, u) # {}}

\* Where contracts come from proposals only, whoever waits for a unit waits
\* for a reserved one, whoever cancels or lets the hold expire last frees it,
\* and bookings do what the rest of the leasing chain expects of them: late
\* requests and jobs that read a booking before a contract leave the
\* contracted unit alone, and only a contract takes a unit from those who
\* wait for it.
DeskIsKept == []QueuedUnitIsReserved /\ EmptiedIsFreed /\ Desk!Spec

\* At most one booking of a unit is ACTIVE (the queue invariant named above
\* create()).
AtMostOneActive ==
    \A u \in Units :
        Cardinality({b \in Queue(booking, u) : booking[b].status = "ACTIVE"}) <= 1

\* A booking that expired or became a proposal never changes status again:
\* the state machine has no edge out of EXPIRED and CONVERTED.
TerminalStatusesAreFinal ==
    [][\A b \in Bookings :
          booking[b].status \in {"EXPIRED", "CONVERTED"} =>
              booking'[b].status = booking[b].status]_vars

\* No booking becomes a proposal on a price that is under review or was
\* refused.
PriceReviewGatesConversion ==
    [][\A b \in Bookings :
          booking[b].status # "CONVERTED" /\ booking'[b].status = "CONVERTED" =>
              booking[b].price \in {"NONE", "APPROVED"}]_vars

\* Nobody is left queued for a unit that has been contracted.
NoQueueOnContractedUnit == \A u \in live : Queue(booking, u) = {}

\* Once its hold has ended a booking leaves the queue, or is extended.
OverdueLeavesQueue ==
    \A b \in Bookings :
        (Exists(b) /\ IsQueued(b) /\ booking[b].overdue) ~>
            ~(IsQueued(b) /\ booking[b].overdue)
=============================================================================
