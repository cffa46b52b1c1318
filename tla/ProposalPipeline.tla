-------------------------- MODULE ProposalPipeline --------------------------
(***************************************************************************)
(* A proposal on its way to a contract: modules/proposals with the         *)
(* decisions of modules/approvals, the delivery of the two approval events *)
(* and the unit.  LeaseBook stands for modules/contracts, UnitDesk for     *)
(* modules/booking (BookingQueue).                                         *)
(*                                                                         *)
(* A decision on a step, the submission and the creation of the contract   *)
(* are Serializable transactions: one action each.  What was read before   *)
(* the transaction, or before a plain write, is kept in req[k].  Abandon   *)
(* is a request that ends early: an error, a failed check, a crash.        *)
(* Leads, tenant portals, snapshots and notifications are left out, and so *)
(* is the soft delete, which nothing here looks at.                        *)
(***************************************************************************)
EXTENDS UnitStatus, Naturals

CONSTANTS
    Clients,    \* requests in flight at once; a delivery of the outbox is one
    Proposals,
    Units,
    MaxSteps,   \* approval steps the policy can ask for
    Operations  \* the endpoints in use, a subset of AllOperations

AllOperations == {"update", "reject", "convert", "direct", "book", "endLease"}

ASSUME OperationsAssumption == Operations \subseteq AllOperations
ASSUME UnitsAssumption == Units # {}
ASSUME MaxStepsAssumption == MaxSteps \in Nat \ {0}

VARIABLES
    proposal,  \* the status column of each proposal
    terms,     \* its terms: how many approval steps the policy selects for them
    target,    \* its unit
    tenant,    \* proposals that have a tenant
    workflow,  \* the status of its ApprovalWorkflow
    step,      \* the status of each step of the workflow
    event,     \* the outbox row of the verdict
    lost,      \* proposals whose verdict a listener threw away: history
    contract,  \* the phase of the contract made from the proposal
    site,      \* the unit of the contract
    agreed,    \* the terms of the contract
    billed,    \* contracts with a billing schedule
    unit,      \* the status column of each unit
    queued,    \* units with a booking that is ACTIVE or PENDING
    req        \* the request each client has in flight

proposalVars == <<proposal, terms, target, tenant>>
approvalVars == <<workflow, step>>
contractVars == <<contract, site, agreed, billed>>
unitVars == <<unit, queued>>
rows == <<proposalVars, approvalVars, event, lost, contractVars, unitVars>>
vars == <<proposalVars, approvalVars, event, lost, contractVars, unitVars, req>>

-----------------------------------------------------------------------------

Steps == 1 .. MaxSteps

ProposalStatuses == {"NONE", "DRAFT", "SUBMITTED", "APPROVED", "REJECTED", "CONVERTED"}
WorkflowStatuses == {"NONE", "IN_PROGRESS", "APPROVED", "REJECTED"}
StepStatuses == {"NONE", "PENDING", "APPROVED", "REJECTED"}
\* A row that is FAILED is taken again like one that is PENDING.
EventStatuses == {"NONE", "PENDING", "PROCESSED"}

Book == INSTANCE LeaseBook WITH Contracts <- Proposals, phase <- contract, place <- site

Idle == [op |-> "idle"]

Requests ==
    {Idle}
    \cup [op : {"update", "reject", "tenant", "handle", "build"}, id : Proposals]
    \cup [op : {"submit"}, id : Proposals, steps : Steps]
    \cup [op : {"free"}, id : Proposals, unit : Units]
    \cup [op : {"create"}, id : Proposals, unit : Units, terms : Steps, by : {"event", "user"}]

Init ==
    /\ proposal = [p \in Proposals |-> "NONE"]
    /\ terms = [p \in Proposals |-> 1]
    /\ target \in [Proposals -> {CHOOSE u \in Units : TRUE}]
    /\ tenant = {}
    /\ workflow = [p \in Proposals |-> "NONE"]
    /\ step = [p \in Proposals |-> [s \in Steps |-> "NONE"]]
    /\ event = [p \in Proposals |-> "NONE"]
    /\ lost = {}
    /\ contract = [p \in Proposals |-> "none"]
    /\ site = target
    /\ agreed = [p \in Proposals |-> 1]
    /\ billed = {}
    /\ unit \in [Units -> UnitStatuses]
    /\ queued \in SUBSET {u \in Units : unit[u] \in {"BOOKING", "NEGOTIATING"}}
    /\ req = [k \in Clients |-> Idle]

IsIdle(k) == req[k] = Idle
Asked(k, op) == req[k].op = op
Ask(k, r) == req' = [req EXCEPT ![k] = r]
Done(k) == Ask(k, Idle)

\* A contract that is neither EXPIRED nor TERMINATED.
Live(p) == contract[p] \notin {"none", "over"}

LiveOn(u) == {p \in Proposals : Live(p) /\ site[p] = u}

-----------------------------------------------------------------------------
(* The draft and its submission.                                           *)

Draft(k, p, n, u) ==
    /\ IsIdle(k) /\ proposal[p] = "NONE"
    /\ proposal' = [proposal EXCEPT ![p] = "DRAFT"]
    /\ terms' = [terms EXCEPT ![p] = n]
    /\ target' = [target EXCEPT ![p] = u]
    /\ tenant' \in {tenant, tenant \cup {p}}
    /\ UNCHANGED <<approvalVars, event, lost, contractVars, unitVars, req>>

UpdateRead(k, p) ==
    /\ IsIdle(k) /\ "update" \in Operations /\ proposal[p] = "DRAFT"
    /\ Ask(k, [op |-> "update", id |-> p])
    /\ UNCHANGED rows

\* The write does not look at the status again.
Update(k) ==
    /\ Asked(k, "update")
    /\ \E n \in Steps, u \in Units :
          /\ terms' = [terms EXCEPT ![req[k].id] = n]
          /\ target' = [target EXCEPT ![req[k].id] = u]
    /\ tenant' \in {tenant, tenant \cup {req[k].id}}
    /\ Done(k)
    /\ UNCHANGED <<proposal, approvalVars, event, lost, contractVars, unitVars>>

\* submit() selects the approval steps for the terms it has read.
SubmitRead(k, p) ==
    /\ IsIdle(k) /\ proposal[p] = "DRAFT"
    /\ Ask(k, [op |-> "submit", id |-> p, steps |-> terms[p]])
    /\ UNCHANGED rows

\* The transaction checks the status once more; the key of the workflow is
\* unique, and who comes second gets the workflow that exists.
Submit(k) ==
    LET p == req[k].id
    IN  /\ Asked(k, "submit")
        /\ proposal[p] = "DRAFT" /\ workflow[p] = "NONE"
        /\ proposal' = [proposal EXCEPT ![p] = "SUBMITTED"]
        /\ workflow' = [workflow EXCEPT ![p] = "IN_PROGRESS"]
        /\ step' = [step EXCEPT ![p] =
                        [s \in Steps |-> IF s <= req[k].steps THEN "PENDING" ELSE "NONE"]]
        /\ Done(k)
        /\ UNCHANGED <<terms, target, tenant, event, lost, contractVars, unitVars>>

-----------------------------------------------------------------------------
(* Decisions.  The checks of role and assignee only restrict who decides:  *)
(* every step can be decided by somebody, an ADMIN at least.               *)

Actionable(p, s) ==
    /\ workflow[p] = "IN_PROGRESS" /\ step[p][s] = "PENDING"
    /\ \A earlier \in 1 .. s - 1 : step[p][earlier] = "APPROVED"

\* Mutant of ApproveStep: the last step alone completes the workflow.
ApproveStepHasty(p, s) ==
    /\ workflow[p] = "IN_PROGRESS" /\ step[p][s] = "PENDING"
    /\ step' = [step EXCEPT ![p][s] = "APPROVED"]
    /\ IF \A other \in Steps : other > s => step[p][other] = "NONE"
       THEN /\ workflow' = [workflow EXCEPT ![p] = "APPROVED"]
            /\ event' = [event EXCEPT ![p] = "PENDING"]
       ELSE UNCHANGED <<workflow, event>>
    /\ UNCHANGED <<proposalVars, lost, contractVars, unitVars, req>>

\* The approval that completes the workflow leaves its event in the same
\* transaction.
ApproveStep(p, s) ==
    /\ Actionable(p, s)
    /\ step' = [step EXCEPT ![p][s] = "APPROVED"]
    /\ IF \A other \in Steps \ {s} : step[p][other] \in {"NONE", "APPROVED"}
       THEN /\ workflow' = [workflow EXCEPT ![p] = "APPROVED"]
            /\ event' = [event EXCEPT ![p] = "PENDING"]
       ELSE UNCHANGED <<workflow, event>>
    /\ UNCHANGED <<proposalVars, lost, contractVars, unitVars, req>>

\* Mutant of RejectStep: the event is not left with the decision.
RejectStepSilently(p, s) ==
    /\ Actionable(p, s)
    /\ step' = [step EXCEPT ![p][s] = "REJECTED"]
    /\ workflow' = [workflow EXCEPT ![p] = "REJECTED"]
    /\ UNCHANGED <<proposalVars, event, lost, contractVars, unitVars, req>>

RejectStep(p, s) ==
    /\ Actionable(p, s)
    /\ step' = [step EXCEPT ![p][s] = "REJECTED"]
    /\ workflow' = [workflow EXCEPT ![p] = "REJECTED"]
    /\ event' = [event EXCEPT ![p] = "PENDING"]
    /\ UNCHANGED <<proposalVars, lost, contractVars, unitVars, req>>

-----------------------------------------------------------------------------
(* The rejection endpoint: three commits, and the workflow is not told.    *)

RejectRead(k, p) ==
    /\ IsIdle(k) /\ "reject" \in Operations /\ proposal[p] = "SUBMITTED"
    /\ Ask(k, [op |-> "reject", id |-> p])
    /\ UNCHANGED rows

Reject(k) ==
    LET p == req[k].id
    IN  /\ Asked(k, "reject")
        /\ proposal' = [proposal EXCEPT ![p] = "REJECTED"]
        /\ Ask(k, [op |-> "free", id |-> p, unit |-> target[p]])
        /\ UNCHANGED <<terms, target, tenant, approvalVars, event, lost, contractVars, unitVars>>

\* The look at the unit and its bookings and the transition are one action:
\* transition() repeats both checks.
FreeUnit(k) ==
    LET u == req[k].unit
    IN  /\ Asked(k, "free")
        /\ unit[u] \in {"BOOKING", "NEGOTIATING"}
        /\ TransitionAllowed(unit[u], "VACANT", LiveOn(u) # {}, u \in queued)
        /\ unit' = [unit EXCEPT ![u] = "VACANT"]
        /\ Done(k)
        /\ UNCHANGED <<proposalVars, approvalVars, event, lost, contractVars, queued>>

-----------------------------------------------------------------------------
(* Contracts from proposals.                                               *)

CreateRequest(p, by) ==
    [op |-> "create", id |-> p, unit |-> target[p], terms |-> terms[p], by |-> by]

\* convertToContract(); without a tenant it makes one first.
Convert(k, p) ==
    /\ IsIdle(k) /\ "convert" \in Operations
    /\ proposal[p] = "APPROVED"
    /\ IF p \in tenant
       THEN contract[p] = "none" /\ Ask(k, CreateRequest(p, "user"))
       ELSE Ask(k, [op |-> "tenant", id |-> p])
    /\ UNCHANGED rows

\* The tenant is committed; the checks of createContractFromProposal() are
\* made on the proposal read again.
AssignTenant(k) ==
    LET p == req[k].id
    IN  /\ Asked(k, "tenant")
        /\ tenant' = tenant \cup {p}
        /\ IF proposal[p] = "APPROVED" /\ contract[p] = "none"
           THEN Ask(k, CreateRequest(p, "user"))
           ELSE Done(k)
        /\ UNCHANGED <<proposal, terms, target, approvalVars, event, lost, contractVars, unitVars>>

\* Who creates the contract for an event goes on to the billing schedule.
AfterCreate(k) ==
    IF req[k].by = "event" THEN Ask(k, [op |-> "build", id |-> req[k].id]) ELSE Done(k)

\* Mutants of Create: contracts of the unit from other proposals are not
\* looked for; the bookings of the unit are kept.
CreateAnyway(k) ==
    LET r == req[k]
    IN  /\ Asked(k, "create") /\ contract[r.id] = "none"
        /\ CanTransition(unit[r.unit], "CONTRACTED")
        /\ contract' = [contract EXCEPT ![r.id] = "draft"]
        /\ site' = [site EXCEPT ![r.id] = r.unit]
        /\ agreed' = [agreed EXCEPT ![r.id] = r.terms]
        /\ unit' = [unit EXCEPT ![r.unit] = "CONTRACTED"]
        /\ queued' = queued \ {r.unit}
        /\ proposal' = [proposal EXCEPT ![r.id] = "CONVERTED"]
        /\ AfterCreate(k)
        /\ UNCHANGED <<terms, target, tenant, approvalVars, event, lost, billed>>

CreateKeepingQueue(k) ==
    LET r == req[k]
    IN  /\ Asked(k, "create") /\ contract[r.id] = "none"
        /\ LiveOn(r.unit) = {}
        /\ CanTransition(unit[r.unit], "CONTRACTED")
        /\ contract' = [contract EXCEPT ![r.id] = "draft"]
        /\ site' = [site EXCEPT ![r.id] = r.unit]
        /\ agreed' = [agreed EXCEPT ![r.id] = r.terms]
        /\ unit' = [unit EXCEPT ![r.unit] = "CONTRACTED"]
        /\ proposal' = [proposal EXCEPT ![r.id] = "CONVERTED"]
        /\ AfterCreate(k)
        /\ UNCHANGED <<terms, target, tenant, approvalVars, event, lost, billed, queued>>

\* The transaction of createContractFromProposal().  It looks for contracts
\* again, but not at the status of the proposal.  transition() finds the new
\* contract, so that only the table can refuse the unit.
Create(k) ==
    LET r == req[k]
    IN  /\ Asked(k, "create") /\ contract[r.id] = "none"
        /\ CanTransition(unit[r.unit], "CONTRACTED")
        /\ Book!Draft(r.id, r.unit)
        /\ agreed' = [agreed EXCEPT ![r.id] = r.terms]
        /\ unit' = [unit EXCEPT ![r.unit] = "CONTRACTED"]
        /\ queued' = queued \ {r.unit}
        /\ proposal' = [proposal EXCEPT ![r.id] = "CONVERTED"]
        /\ AfterCreate(k)
        /\ UNCHANGED <<terms, target, tenant, approvalVars, event, lost, billed>>

\* The contract exists by now and is returned.
CreateFound(k) ==
    /\ Asked(k, "create") /\ contract[req[k].id] # "none"
    /\ AfterCreate(k)
    /\ UNCHANGED rows

\* ContractsService.create() with a proposalId, which nothing checks.
CreateDirectly(k, p, u, n) ==
    /\ IsIdle(k) /\ "direct" \in Operations /\ proposal[p] # "NONE"
    /\ CanTransition(unit[u], "CONTRACTED")
    /\ Book!Draft(p, u)
    /\ agreed' = [agreed EXCEPT ![p] = n]
    /\ unit' = [unit EXCEPT ![u] = "CONTRACTED"]
    /\ UNCHANGED <<proposalVars, approvalVars, event, lost, billed, queued, req>>

-----------------------------------------------------------------------------
(* Delivery of the verdict by the outbox, one run at a time.               *)

DeliveryOps == {"handle", "build"}

ForEvent(r) == r.op \in DeliveryOps \/ (r.op = "create" /\ r.by = "event")

CanDeliver(k, p) ==
    /\ IsIdle(k) /\ \A j \in Clients : ~ForEvent(req[j])
    /\ event[p] = "PENDING"

\* The listener returned.  A crash, or an update that fails, leaves the row as
\* it was.
Settled(p) ==
    /\ event' \in {event, [event EXCEPT ![p] = "PROCESSED"]}
    /\ UNCHANGED lost

\* The listener threw.  The event emitter logs that, and the outbox takes the
\* event for delivered; if that update fails too, Abandon stands for both.
Swallowed(p) ==
    /\ event' = [event EXCEPT ![p] = "PROCESSED"]
    /\ lost' = lost \cup {p}

\* The first query of the listener failed, whatever the verdict.
DeliveryFails(k, p) ==
    /\ CanDeliver(k, p)
    /\ Swallowed(p)
    /\ UNCHANGED <<proposalVars, approvalVars, contractVars, unitVars, req>>

DeliverRejected(k, p) ==
    /\ CanDeliver(k, p) /\ workflow[p] = "REJECTED"
    /\ proposal' = [proposal EXCEPT ![p] = "REJECTED"]
    /\ Settled(p)
    /\ UNCHANGED <<terms, target, tenant, approvalVars, contractVars, unitVars, req>>

\* Mutants of DeliverCompleted: any verdict is taken for an approval; the row
\* is PROCESSED before the work is done.
DeliverCompletedAny(k, p) ==
    /\ CanDeliver(k, p)
    /\ proposal' = [proposal EXCEPT ![p] = "APPROVED"]
    /\ Ask(k, [op |-> "handle", id |-> p])
    /\ UNCHANGED <<terms, target, tenant, approvalVars, event, lost, contractVars, unitVars>>

DeliverCompletedEarly(k, p) ==
    /\ CanDeliver(k, p) /\ workflow[p] = "APPROVED"
    /\ proposal' = [proposal EXCEPT ![p] = "APPROVED"]
    /\ event' = [event EXCEPT ![p] = "PROCESSED"]
    /\ Ask(k, [op |-> "handle", id |-> p])
    /\ UNCHANGED <<terms, target, tenant, approvalVars, lost, contractVars, unitVars>>

\* onApprovalWorkflowCompleted() writes APPROVED whatever the proposal is.
DeliverCompleted(k, p) ==
    /\ CanDeliver(k, p) /\ workflow[p] = "APPROVED"
    /\ proposal' = [proposal EXCEPT ![p] = "APPROVED"]
    /\ Ask(k, [op |-> "handle", id |-> p])
    /\ UNCHANGED <<terms, target, tenant, approvalVars, event, lost, contractVars, unitVars>>

\* handleProposalFullyApproved() reads the proposal again.
Handle(k) ==
    LET p == req[k].id
        stops == proposal[p] # "APPROVED" \/ p \notin tenant
    IN  /\ Asked(k, "handle")
        /\ IF stops THEN Settled(p) /\ Done(k)
           ELSE /\ Ask(k, IF contract[p] = "none" THEN CreateRequest(p, "event")
                          ELSE [op |-> "build", id |-> p])
                /\ UNCHANGED <<event, lost>>
        /\ UNCHANGED <<proposalVars, approvalVars, contractVars, unitVars>>

\* buildScheduleForContract() refuses a contract that is not in force.
Build(k) ==
    LET p == req[k].id
    IN  /\ Asked(k, "build") /\ contract[p] = "lease"
        /\ billed' = billed \cup {p}
        /\ Settled(p) /\ Done(k)
        /\ UNCHANGED <<proposalVars, approvalVars, contract, site, agreed, unitVars>>

\* The transaction that creates the contract refuses the unit.
Refused(r) ==
    /\ r.op = "create" /\ contract[r.id] = "none"
    /\ LiveOn(r.unit) # {} \/ ~CanTransition(unit[r.unit], "CONTRACTED")

\* The listener threw later on: a check refused, or a query failed.
Fail(k) ==
    /\ ForEvent(req[k])
    /\ Swallowed(req[k].id)
    /\ Done(k)
    /\ UNCHANGED <<proposalVars, approvalVars, contractVars, unitVars>>

Abandon(k) == ~IsIdle(k) /\ Done(k) /\ UNCHANGED rows

-----------------------------------------------------------------------------
(* The rest of the life of the contract and of the unit.                   *)

\* The status endpoint of contracts; the schedule is built with it.
Activate(p) ==
    /\ unit[site[p]] = "CONTRACTED"
    /\ Book!Activate(p)
    /\ billed' = billed \cup {p}
    /\ UNCHANGED <<proposalVars, approvalVars, event, lost, agreed, unitVars, req>>

\* A termination is completed and frees the unit.
EndLease(p) ==
    /\ "endLease" \in Operations
    /\ Book!End(p)
    /\ TransitionAllowed(unit[site[p]], "VACANT", LiveOn(site[p]) \ {p} # {}, site[p] \in queued)
    /\ unit' = [unit EXCEPT ![site[p]] = "VACANT"]
    /\ UNCHANGED <<proposalVars, approvalVars, event, lost, agreed, billed, queued, req>>

\* The bookings of a unit come and go: what BookingQueue does to a unit
\* without a contract, as UnitDesk states it.
Desk == INSTANCE UnitDesk WITH live <- {site[p] : p \in {q \in Proposals : Live(q)}}

BookUnit(u, to) ==
    /\ "book" \in Operations
    /\ UNCHANGED <<proposalVars, approvalVars, event, lost, contractVars, req>>
    /\ Desk!Serve(u, to)

\* Sales set a unit to NEGOTIATING by hand.
Negotiate(u) ==
    /\ "book" \in Operations
    /\ TransitionAllowed(unit[u], "NEGOTIATING", LiveOn(u) # {}, u \in queued)
    /\ unit' = [unit EXCEPT ![u] = "NEGOTIATING"]
    /\ UNCHANGED <<proposalVars, approvalVars, event, lost, contractVars, queued, req>>

-----------------------------------------------------------------------------

Delivery(k) ==
    \/ \E p \in Proposals :
          DeliverRejected(k, p) \/ DeliverCompleted(k, p) \/ DeliveryFails(k, p)
    \/ Handle(k)
    \/ Build(k)
    \/ Fail(k)

Endpoint(k) ==
    \/ \E p \in Proposals :
          \/ \E n \in Steps, u \in Units : Draft(k, p, n, u) \/ CreateDirectly(k, p, u, n)
          \/ UpdateRead(k, p)
          \/ SubmitRead(k, p)
          \/ RejectRead(k, p)
          \/ Convert(k, p)
    \/ Update(k)
    \/ Submit(k)
    \/ Reject(k)
    \/ FreeUnit(k)
    \/ AssignTenant(k)
    \/ Create(k)
    \/ CreateFound(k)
    \/ Abandon(k)

Next ==
    \/ \E k \in Clients : Delivery(k) \/ Endpoint(k)
    \/ \E p \in Proposals :
          \/ \E s \in Steps : ApproveStep(p, s) \/ RejectStep(p, s)
          \/ Activate(p)
          \/ EndLease(p)
    \/ \E u \in Units :
          \/ \E to \in UnitStatuses : BookUnit(u, to)
          \/ Negotiate(u)

Spec == Init /\ [][Next]_vars

\* The outbox comes back to an event until it is PROCESSED, a check that
\* refuses throws, and neither crashes nor failures of the database come
\* between for ever.
Fairness ==
    /\ \A k \in Clients : WF_vars(Abandon(k))
    /\ \A p \in Proposals :
          /\ SF_vars(\E k \in Clients : DeliverRejected(k, p) \/ DeliverCompleted(k, p))
          /\ SF_vars(\E k \in Clients : Handle(k) /\ req[k].id = p)
          /\ SF_vars(\E k \in Clients : (Create(k) \/ CreateFound(k)) /\ req[k].id = p)
          /\ SF_vars(\E k \in Clients : Refused(req[k]) /\ req[k].id = p /\ Fail(k))

FairSpec == Spec /\ Fairness

-----------------------------------------------------------------------------
(* Properties.                                                             *)

\* Types; only a contract that is or was in force has a billing schedule.
TypeOK ==
    /\ proposal \in [Proposals -> ProposalStatuses]
    /\ terms \in [Proposals -> Steps]
    /\ target \in [Proposals -> Units]
    /\ tenant \subseteq Proposals
    /\ workflow \in [Proposals -> WorkflowStatuses]
    /\ step \in [Proposals -> [Steps -> StepStatuses]]
    /\ event \in [Proposals -> EventStatuses]
    /\ lost \subseteq Proposals
    /\ contract \in [Proposals -> {"none", "draft", "lease", "over"}]
    /\ site \in [Proposals -> Units]
    /\ agreed \in [Proposals -> Steps]
    /\ billed \subseteq {p \in Proposals : contract[p] \in {"lease", "over"}}
    /\ unit \in [Units -> UnitStatuses]
    /\ queued \subseteq Units
    /\ req \in [Clients -> Requests]

\* Nothing becomes a contract without the approvals its terms call for:
\* every step of the policy, whoever asks for the contract and however the
\* verdict is delivered.
ContractIsApproved ==
    \A p \in Proposals :
        contract[p] # "none" =>
            workflow[p] = "APPROVED" /\ \A s \in 1 .. agreed[p] : step[p][s] = "APPROVED"

\* The verdict is the verdict of the steps: they are approved from the first
\* to the last, one rejection ends the workflow, and the event of the
\* outbox is there exactly when there is a verdict.
VerdictIsOfTheSteps ==
    \A p \in Proposals :
        /\ \A s, t \in Steps :
              s < t /\ step[p][t] \in {"APPROVED", "REJECTED"} => step[p][s] = "APPROVED"
        /\ workflow[p] = "REJECTED" <=> \E s \in Steps : step[p][s] = "REJECTED"
        /\ workflow[p] = "APPROVED" <=>
              step[p][1] = "APPROVED" /\ \A s \in Steps : step[p][s] \in {"APPROVED", "NONE"}
        /\ event[p] # "NONE" <=> workflow[p] \in {"APPROVED", "REJECTED"}

\* Two approved proposals never both have a contract for one unit (INV-004).
OneContractPerUnit ==
    \A p, q \in Proposals : p # q /\ Live(p) /\ Live(q) => site[p] # site[q]

\* A unit with a contract is committed and nobody is left in its queue: a
\* rejection that comes late does not free it.
ContractHoldsUnit ==
    \A p \in Proposals :
        Live(p) => unit[site[p]] \in CommittedStatuses /\ site[p] \notin queued

\* Only proposals in DRAFT are edited.
OnlyDraftIsEdited ==
    [][\A p \in Proposals :
          terms'[p] # terms[p] \/ target'[p] # target[p] => proposal[p] \in {"NONE", "DRAFT"}]_vars

\* A proposal that became a contract stays CONVERTED.
ConvertedIsFinal ==
    [][\A p \in Proposals : proposal[p] = "CONVERTED" => proposal'[p] = "CONVERTED"]_vars

\* A proposal that was rejected stays REJECTED.
RejectedIsFinal ==
    [][\A p \in Proposals : proposal[p] = "REJECTED" => proposal'[p] = "REJECTED"]_vars

\* A rejection by an approver reaches the proposal, unless the listener
\* throws.
RejectionArrives ==
    \A p \in Proposals : workflow[p] = "REJECTED" ~> proposal[p] = "REJECTED" \/ p \in lost

\* A proposal with a tenant whose approval is still to be delivered becomes a
\* contract, unless another one has the unit or the listener throws: crashes
\* and retries alone never swallow an approval.
ApprovalBecomesContract ==
    \A p \in Proposals :
        workflow[p] = "APPROVED" /\ event[p] = "PENDING" /\ p \in tenant
            ~> contract[p] # "none" \/ LiveOn(target[p]) # {} \/ p \in lost

\* The contract of an approved proposal gets its billing schedule.
ContractIsBilled ==
    \A p \in Proposals : contract[p] # "none" ~> p \in billed
=============================================================================
