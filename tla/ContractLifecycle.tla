------------------------- MODULE ContractLifecycle --------------------------
(***************************************************************************)
(* Contracts, their terminations and the units they hold                   *)
(* (modules/contracts/contracts.service.ts,                                *)
(* contract-termination.service.ts and the amendments of                   *)
(* contract-templates.service.ts), with the other services that move the   *)
(* unit of a contract.  The units have no booking queue here: BookingQueue *)
(* is about that side of the unit status.                                  *)
(*                                                                         *)
(* An endpoint that checks a row and later writes it is two actions: XRead *)
(* makes the checks and keeps what the write needs in req[k]; X writes.    *)
(* What a transaction at the default isolation level (read committed)      *)
(* reads again before it writes is the read of XRead: another commit can   *)
(* still come between the two.  A Serializable transaction that makes all  *)
(* its checks itself is one action.  Abandon is a request that ends        *)
(* without its write.                                                      *)
(***************************************************************************)
EXTENDS UnitStatus

CONSTANTS
    Clients,    \* requests that can be in flight at once (a cron run is one)
    Contracts,  \* contract rows that can be created
    Units,
    Operations  \* the endpoints and jobs in use, a subset of AllOperations

AllOperations ==
    {"create", "update", "status", "amend", "expiryJob", "moveUnit",
     "initiate", "checklist", "complete", "cancel"}

ASSUME OperationsAssumption == Operations \subseteq AllOperations
ASSUME UnitsAssumption == Units # {}

VARIABLES
    status,       \* the status column of each contract
    place,        \* the unit of the contract
    left,         \* how much of the term is left, by endDate
    termination,  \* the status of the contract's ContractTermination row
    returned,     \* is its handover checklist complete?
    billed,       \* contracts with a billing schedule and an activation event
    unit,         \* the status column of each unit
    req           \* what each client's request in flight has read

rows == <<status, place, left, termination, returned, billed, unit>>
vars == <<status, place, left, termination, returned, billed, unit, req>>

-----------------------------------------------------------------------------
(* Rows and requests.                                                      *)

PreActivation == {"DRAFT", "PENDING_LEGAL", "PENDING_SIGNATURE"}
Ended == {"EXPIRED", "TERMINATED"}
ContractStatuses == PreActivation \cup {"ACTIVE", "EXPIRING", "TERMINATING"} \cup Ended

\* CONTRACT_STATUS_TRANSITIONS
Transitions ==
    [s \in ContractStatuses |->
        CASE s = "DRAFT"             -> {"PENDING_LEGAL", "ACTIVE"}
          [] s = "PENDING_LEGAL"     -> {"PENDING_SIGNATURE", "DRAFT"}
          [] s = "PENDING_SIGNATURE" -> {"ACTIVE", "PENDING_LEGAL"}
          [] s = "ACTIVE"            -> {"EXPIRING", "EXPIRED", "TERMINATING"}
          [] s = "EXPIRING"          -> {"ACTIVE", "EXPIRED", "TERMINATING"}
          [] s = "TERMINATING"       -> {"TERMINATED", "ACTIVE"}
          [] OTHER                   -> {}]

\* More than 90 days, at most 90 days, or the end date has passed.
Terms == {"long", "ending", "over"}

TerminationStatuses == {"NONE", "INITIATED", "IN_PROGRESS", "CANCELLED", "COMPLETED"}

Idle == [op |-> "idle"]

Requests ==
    {Idle}
    \cup [op : {"update"}, id : Contracts, unit : Units]
    \cup [op : {"status"}, id : Contracts, to : ContractStatuses]
    \cup [op : {"initiate"}, id : Contracts]
    \cup [op : {"complete"}, id : Contracts, unit : Units]
    \cup [op : {"cancel"}, id : Contracts, to : ContractStatuses]

Exists(c) == status[c] # "NONE"

\* A contract row that is neither EXPIRED nor TERMINATED.
IsLive(c) == Exists(c) /\ status[c] \notin Ended

LiveOn(u) == {c \in Contracts : IsLive(c) /\ place[c] = u}

Init ==
    /\ status = [c \in Contracts |-> "NONE"]
    /\ place \in [Contracts -> {CHOOSE u \in Units : TRUE}]
    /\ left = [c \in Contracts |-> "long"]
    /\ termination = [c \in Contracts |-> "NONE"]
    /\ returned = [c \in Contracts |-> FALSE]
    /\ billed = {}
    /\ unit = [u \in Units |-> "VACANT"]
    /\ req = [k \in Clients |-> Idle]

Starts(k, op) == req[k] = Idle /\ op \in Operations

Ask(k, r) == req' = [req EXCEPT ![k] = r] /\ UNCHANGED rows

Asked(k, op) == req[k].op = op

Done(k) == req' = [req EXCEPT ![k] = Idle]

-----------------------------------------------------------------------------
(* Contracts.                                                              *)

\* Mutant of Create: the contracts of the unit are only looked for before
\* the unit status, which a second CONTRACTED passes.
CreateUnchecked(k, c, u, term) ==
    /\ Starts(k, "create") /\ ~Exists(c)
    /\ CanTransition(unit[u], "CONTRACTED")
    /\ status' = [status EXCEPT ![c] = "DRAFT"]
    /\ place' = [place EXCEPT ![c] = u]
    /\ left' = [left EXCEPT ![c] = term]
    /\ unit' = [unit EXCEPT ![u] = "CONTRACTED"]
    /\ UNCHANGED <<termination, returned, billed, req>>

\* The Serializable transaction repeats the checks made before it.  The
\* transition of the unit finds the new contract.
Create(k, c, u, term) ==
    /\ Starts(k, "create") /\ ~Exists(c)
    /\ LiveOn(u) = {}
    /\ CanTransition(unit[u], "CONTRACTED")
    /\ status' = [status EXCEPT ![c] = "DRAFT"]
    /\ place' = [place EXCEPT ![c] = u]
    /\ left' = [left EXCEPT ![c] = term]
    /\ unit' = [unit EXCEPT ![u] = "CONTRACTED"]
    /\ UNCHANGED <<termination, returned, billed, req>>

\* Mutant of UpdateRead: another unit is not checked for a contract.
UpdateReadUnchecked(k, c, u) ==
    /\ Starts(k, "update") /\ status[c] \in PreActivation
    /\ Ask(k, [op |-> "update", id |-> c, unit |-> u])

\* Until it is ACTIVE a contract may be given other dates and another unit
\* that has no contract.
UpdateRead(k, c, u) ==
    /\ Starts(k, "update") /\ status[c] \in PreActivation
    /\ u # place[c] => LiveOn(u) \ {c} = {}
    /\ Ask(k, [op |-> "update", id |-> c, unit |-> u])

\* No unit status changes.
Update(k) ==
    /\ Asked(k, "update")
    /\ place' = [place EXCEPT ![req[k].id] = req[k].unit]
    /\ \E term \in Terms : left' = [left EXCEPT ![req[k].id] = term]
    /\ Done(k)
    /\ UNCHANGED <<status, termination, returned, billed, unit>>

\* getActivationReadiness(), as far as it is about the state modelled here.
Ready(c) == unit[place[c]] = "CONTRACTED"

\* Mutant of StatusRead: the table is not asked.
StatusReadAny(k, c, to) ==
    /\ Starts(k, "status") /\ Exists(c)
    /\ to = "ACTIVE" => Ready(c)
    /\ Ask(k, [op |-> "status", id |-> c, to |-> to])

\* The status a contract has may be written again.
StatusRead(k, c, to) ==
    /\ Starts(k, "status") /\ Exists(c)
    /\ to = "ACTIVE" => Ready(c)
    /\ to # status[c] => to \in Transitions[status[c]]
    /\ Ask(k, [op |-> "status", id |-> c, to |-> to])

\* Mutant of ChangeStatus: the schedule is left for after the transaction.
ChangeStatusOnly(k) ==
    /\ Asked(k, "status")
    /\ status' = [status EXCEPT ![req[k].id] = req[k].to]
    /\ Done(k)
    /\ UNCHANGED <<place, left, termination, returned, billed, unit>>

\* The Serializable transaction of updateStatus(): it reads the contract
\* again and writes the new status whatever it read.  An activation makes
\* the schedule and the event in the same transaction.
ChangeStatus(k) ==
    /\ Asked(k, "status")
    /\ status' = [status EXCEPT ![req[k].id] = req[k].to]
    /\ billed' = IF req[k].to = "ACTIVE" THEN billed \cup {req[k].id} ELSE billed
    /\ Done(k)
    /\ UNCHANGED <<place, left, termination, returned, unit>>

\* Mutant of ExpiryJobRead: contracts that are EXPIRING are not listed.
ExpiryJobReadActive(k, c) ==
    /\ Starts(k, "expiryJob") /\ status[c] = "ACTIVE" /\ left[c] # "long"
    /\ Ask(k, [op |-> "status", id |-> c,
               to |-> IF left[c] = "over" THEN "EXPIRED" ELSE "EXPIRING"])

\* autoTransitionExpiryStatuses() comes to a contract and calls
\* updateStatus().
ExpiryJobRead(k, c) ==
    /\ Starts(k, "expiryJob")
    /\ \/ status[c] = "ACTIVE" /\ left[c] # "long"
       \/ status[c] = "EXPIRING" /\ left[c] = "over"
    /\ Ask(k, [op |-> "status", id |-> c,
               to |-> IF left[c] = "over" THEN "EXPIRED" ELSE "EXPIRING"])

\* An amendment with new dates is applied; rebuilding the schedule refuses a
\* contract that is neither ACTIVE nor EXPIRING.
Amend(k, c, term) ==
    /\ Starts(k, "amend") /\ status[c] \in {"ACTIVE", "EXPIRING"}
    /\ left' = [left EXCEPT ![c] = term]
    /\ UNCHANGED <<status, place, termination, returned, billed, unit, req>>

TimePasses(c) ==
    /\ Exists(c) /\ left[c] # "over"
    /\ left' = [left EXCEPT ![c] = IF @ = "long" THEN "ending" ELSE "over"]
    /\ UNCHANGED <<status, place, termination, returned, billed, unit, req>>

\* The other services that move the unit: the conversion of a booking, the
\* rejection of a proposal, the stages of a fit-out, the status endpoint.
MoveUnit(k, u, to) ==
    /\ Starts(k, "moveUnit")
    /\ to \in {"NEGOTIATING", "VACANT", "UNDER_FITOUT", "OCCUPIED"} \ {unit[u]}
    /\ TransitionAllowed(unit[u], to, LiveOn(u) # {}, FALSE)
    /\ unit' = [unit EXCEPT ![u] = to]
    /\ UNCHANGED <<status, place, left, termination, returned, billed, req>>

-----------------------------------------------------------------------------
(* Terminations.                                                           *)

InitiateRead(k, c) ==
    /\ Starts(k, "initiate") /\ status[c] \in {"ACTIVE", "EXPIRING"}
    /\ termination[c] \in {"NONE", "CANCELLED"}
    /\ Ask(k, [op |-> "initiate", id |-> c])

\* The checklist of a cancelled termination is kept.
Initiate(k) ==
    /\ Asked(k, "initiate")
    /\ termination' = [termination EXCEPT ![req[k].id] = "INITIATED"]
    /\ status' = [status EXCEPT ![req[k].id] = "TERMINATING"]
    /\ Done(k)
    /\ UNCHANGED <<place, left, returned, billed, unit>>

\* Mutant of Checklist: the status is not checked against a list.
ChecklistAnyStatus(k, c, done, new) ==
    /\ Starts(k, "checklist") /\ termination[c] # "NONE"
    /\ new # "NONE"
    /\ returned' = [returned EXCEPT ![c] = done]
    /\ termination' = [termination EXCEPT ![c] = new]
    /\ UNCHANGED <<status, place, left, billed, unit, req>>

\* update(): the checklist and, whatever it was, the status of the row.
Checklist(k, c, done, new) ==
    /\ Starts(k, "checklist") /\ termination[c] # "NONE"
    /\ new \in {termination[c], "INITIATED", "IN_PROGRESS"}
    /\ returned' = [returned EXCEPT ![c] = done]
    /\ termination' = [termination EXCEPT ![c] = new]
    /\ UNCHANGED <<status, place, left, billed, unit, req>>

CompleteRead(k, c) ==
    /\ Starts(k, "complete") /\ termination[c] \notin {"NONE", "COMPLETED"}
    /\ returned[c]
    /\ Ask(k, [op |-> "complete", id |-> c, unit |-> place[c]])

\* The transaction is rolled back if the unit cannot become VACANT.
Complete(k) ==
    LET r == req[k]
    IN  /\ Asked(k, "complete")
        /\ TransitionAllowed(unit[r.unit], "VACANT", LiveOn(r.unit) \ {r.id} # {}, FALSE)
        /\ termination' = [termination EXCEPT ![r.id] = "COMPLETED"]
        /\ status' = [status EXCEPT ![r.id] = "TERMINATED"]
        /\ unit' = [unit EXCEPT ![r.unit] = "VACANT"]
        /\ Done(k)
        /\ UNCHANGED <<place, left, returned, billed>>

\* The status to restore is chosen by endDate alone.
CancelRead(k, c) ==
    /\ Starts(k, "cancel") /\ termination[c] \notin {"NONE", "COMPLETED"}
    /\ Ask(k, [op |-> "cancel", id |-> c,
               to |-> CASE left[c] = "over"   -> "EXPIRED"
                        [] left[c] = "ending" -> "EXPIRING"
                        [] OTHER              -> "ACTIVE"])

Cancel(k) ==
    /\ Asked(k, "cancel")
    /\ termination' = [termination EXCEPT ![req[k].id] = "CANCELLED"]
    /\ status' = [status EXCEPT ![req[k].id] = req[k].to]
    /\ Done(k)
    /\ UNCHANGED <<place, left, returned, billed, unit>>

Abandon(k) == req[k] # Idle /\ Done(k) /\ UNCHANGED rows

-----------------------------------------------------------------------------

Read(k, c) ==
    \/ \E u \in Units : UpdateRead(k, c, u)
    \/ \E to \in ContractStatuses : StatusRead(k, c, to)
    \/ ExpiryJobRead(k, c)
    \/ InitiateRead(k, c)
    \/ CompleteRead(k, c)
    \/ CancelRead(k, c)

Write(k) ==
    \/ Update(k)
    \/ ChangeStatus(k)
    \/ Initiate(k)
    \/ Complete(k)
    \/ Cancel(k)

Next ==
    \/ \E k \in Clients, c \in Contracts :
          \/ Read(k, c)
          \/ \E term \in Terms :
                \/ Amend(k, c, term)
                \/ \E u \in Units : Create(k, c, u, term)
          \/ \E done \in BOOLEAN, new \in TerminationStatuses : Checklist(k, c, done, new)
    \/ \E k \in Clients, u \in Units, to \in UnitStatuses : MoveUnit(k, u, to)
    \/ \E k \in Clients : Write(k) \/ Abandon(k)
    \/ \E c \in Contracts : TimePasses(c)

Spec == Init /\ [][Next]_vars

\* The job comes back to a contract every day, and it does not always lose
\* the write that expires it.
FairSpec ==
    /\ Spec
    /\ \A k \in Clients :
          /\ WF_vars(Write(k) \/ Abandon(k))
          /\ \A c \in Contracts :
                /\ SF_vars(ExpiryJobRead(k, c))
                /\ SF_vars(ChangeStatus(k) /\ req[k].id = c /\ req[k].to = "EXPIRED")

-----------------------------------------------------------------------------
(* Properties.                                                             *)

\* Types of contracts, terminations, units and what requests have read.
TypeOK ==
    /\ status \in [Contracts -> ContractStatuses \cup {"NONE"}]
    /\ place \in [Contracts -> Units]
    /\ left \in [Contracts -> Terms]
    /\ termination \in [Contracts -> TerminationStatuses]
    /\ returned \in [Contracts -> BOOLEAN]
    /\ billed \subseteq Contracts
    /\ unit \in [Units -> UnitStatuses]
    /\ req \in [Clients -> Requests]

\* A contract that is or was in force has its billing schedule and its
\* activation event, whichever endpoint put it in force: the status endpoint
\* and the cancellation of a termination both can.
ActivatedIsBilled ==
    \A c \in Contracts :
        status[c] \in {"ACTIVE", "EXPIRING", "TERMINATING"} \cup Ended => c \in billed

\* Two contracts are never in force on one unit (INV-004).
OneLiveContractPerUnit ==
    \A c, d \in Contracts :
        c # d /\ IsLive(c) /\ IsLive(d) => place[c] # place[d]

\* A unit with a live contract is CONTRACTED, UNDER_FITOUT or OCCUPIED: in
\* particular the end of an old contract does not free the unit of a new one.
LiveContractHoldsUnit ==
    \A c \in Contracts : IsLive(c) => unit[place[c]] \in CommittedStatuses

\* A completed termination is the end of its contract: no other endpoint
\* brings the contract back.
CompletedMeansTerminated ==
    \A c \in Contracts : termination[c] = "COMPLETED" => status[c] = "TERMINATED"

\* Contracts and units as the leasing team sees them.
phase ==
    [c \in Contracts |->
        CASE status[c] = "NONE"         -> "none"
          [] status[c] \in PreActivation -> "draft"
          [] status[c] \in Ended         -> "over"
          [] OTHER                       -> "lease"]

Book == INSTANCE LeaseBook

\* One request at a time the endpoints implement the book of leases: one
\* contract per unit, drafts that move only to free units, leases that
\* neither move nor become drafts again, ends that are final.
BookSpec == Book!Spec

\* The unit of a contract that was activated does not change any more.
ActivatedStaysPut == [][\A c \in billed : place'[c] = place[c]]_vars

\* Whatever writes the status of a contract follows the table.
StatusFollowsTable ==
    [][\A c \in Contracts :
          Exists(c) /\ status'[c] # status[c] => status'[c] \in Transitions[status[c]]]_vars

\* A contract becomes TERMINATED through its termination.
TerminatedIsCompleted ==
    \A c \in Contracts : status[c] = "TERMINATED" => termination[c] = "COMPLETED"

\* Only a contract that is being terminated can be TERMINATED.
OnlyTerminatingEnds ==
    [][\A c \in Contracts :
          status'[c] = "TERMINATED" => status[c] \in {"TERMINATING", "TERMINATED"}]_vars

\* A contract whose end date has passed does not stay in force.
ExpiredLeavesForce ==
    \A c \in Contracts :
        status[c] \in {"ACTIVE", "EXPIRING"} /\ left[c] = "over"
            ~> (status[c] \notin {"ACTIVE", "EXPIRING"} \/ left[c] # "over")
=============================================================================
