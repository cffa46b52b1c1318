----------------------------- MODULE MCProgress -----------------------------
(***************************************************************************)
(* Instances for TLC of what has to get done: the invoices of the monthly  *)
(* billing job, and the way of a proposal from its verdict to a contract,  *)
(* which share nothing here.  As in MCBackOffice a behaviour moves the one *)
(* that `part` names, under its fairness; the other one is left where      *)
(* nothing has to be done: a lease that is free of rent, or no proposal.   *)
(***************************************************************************)
EXTENDS BillingSchedule, TLC

CONSTANTS Clients, Proposals, Units, MaxSteps, Operations

VARIABLES
    part,
    proposal, asked, target, tenant,     \* asked: the terms of a proposal
    workflow, step, event, lost,
    contract, site, agreed, scheduled,   \* scheduled: contracts with a schedule
    unit, queued, req

Pipe == INSTANCE ProposalPipeline WITH terms <- asked, billed <- scheduled

pipeVars ==
    <<proposal, asked, target, tenant, workflow, step, event, lost,
      contract, site, agreed, scheduled, unit, queued, req>>

progressVars == <<part, billingVars, pipeVars>>

ProgressInit ==
    /\ part \in {"schedule", "pipeline"}
    /\ BillingInit
    /\ Pipe!Init
    /\ part = "pipeline" => terms = [start |-> 1, end |-> 1, cycle |-> 1, rent |-> 1, free |-> 1]
    /\ part = "schedule" => queued = {} /\ \A u \in Units : unit[u] = "VACANT"

ProgressNext ==
    /\ UNCHANGED part
    /\ IF part = "schedule" THEN BillingNext ELSE UNCHANGED billingVars
    /\ IF part = "pipeline" THEN Pipe!Next   ELSE UNCHANGED pipeVars

ProgressSpec ==
    /\ ProgressInit /\ [][ProgressNext]_progressVars
    /\ \/ part = "schedule" /\ BillingFairness
       \/ part = "pipeline" /\ Pipe!Fairness

RejectionArrives == Pipe!RejectionArrives
ApprovalBecomesContract == Pipe!ApprovalBecomesContract
=============================================================================
