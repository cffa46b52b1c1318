--------------------------- MODULE ProposalProofs ---------------------------
(* Theorems about ProposalPipeline, for any clients, proposals, units and  *)
(* number of steps.                                                        *)
EXTENDS ProposalPipeline, TLAPS

LEMMA RequestFields ==
    ASSUME TypeOK, NEW k \in Clients
    PROVE  /\ req[k] \in Requests
           /\ req[k].op # "idle" => req[k].id \in Proposals
           /\ req[k].op = "submit" => req[k].steps \in Steps
           /\ req[k].op = "free" => req[k].unit \in Units
           /\ req[k].op = "create" => /\ req[k].unit \in Units
                                      /\ req[k].terms \in Steps
                                      /\ req[k].by \in {"event", "user"}
BY DEF TypeOK, Requests, Idle

LEMMA AskKeepsType ==
    ASSUME TypeOK, NEW k \in Clients, NEW r \in Requests, Ask(k, r)
    PROVE  req' \in [Clients -> Requests]
BY DEF TypeOK, Ask

LEMMA IdleIsRequest == Idle \in Requests
BY DEF Idle, Requests

LEMMA CreateIsRequest ==
    ASSUME TypeOK, NEW p \in Proposals, NEW by \in {"event", "user"}
    PROVE  CreateRequest(p, by) \in Requests
<1>1. terms[p] \in Steps /\ target[p] \in Units
  BY DEF TypeOK
<1> QED
  BY <1>1 DEF CreateRequest, Requests

\* The requests that name a proposal and nothing else.
LEMMA PlainIsRequest ==
    ASSUME NEW p \in Proposals, NEW op \in {"update", "reject", "tenant", "handle", "build"}
    PROVE  [op |-> op, id |-> p] \in Requests
BY DEF Requests

LEMMA TypeStart == Init => TypeOK
<1> SUFFICES ASSUME Init
             PROVE  TypeOK
  OBVIOUS
<1>1. (CHOOSE u \in Units : TRUE) \in Units
  BY UnitsAssumption
<1>2. 1 \in Steps
  BY MaxStepsAssumption DEF Steps
<1> QED
  BY <1>1, <1>2, IdleIsRequest
     DEF Init, TypeOK, ProposalStatuses, WorkflowStatuses, StepStatuses, EventStatuses, UnitStatuses

LEMMA ApprovalTypes ==
    ASSUME TypeOK, NEW p \in Proposals, NEW s \in Steps, ApproveStep(p, s) \/ RejectStep(p, s)
    PROVE  TypeOK'
<1> USE DEF TypeOK, WorkflowStatuses, StepStatuses, EventStatuses
<1>1. CASE ApproveStep(p, s)
  <2>1. step' \in [Proposals -> [Steps -> StepStatuses]]
    BY <1>1 DEF ApproveStep
  <2>2. workflow' \in [Proposals -> WorkflowStatuses] /\ event' \in [Proposals -> EventStatuses]
    BY <1>1 DEF ApproveStep
  <2> QED
    BY <1>1, <2>1, <2>2 DEF ApproveStep, proposalVars, contractVars, unitVars
<1>2. CASE RejectStep(p, s)
  BY <1>2 DEF RejectStep, proposalVars, contractVars, unitVars
<1> QED
  BY <1>1, <1>2

LEMMA DraftTypes ==
    ASSUME TypeOK, NEW k \in Clients, NEW p \in Proposals,
           \/ \E n \in Steps, u \in Units : Draft(k, p, n, u) \/ CreateDirectly(k, p, u, n)
           \/ UpdateRead(k, p) \/ SubmitRead(k, p) \/ RejectRead(k, p) \/ Convert(k, p)
    PROVE  TypeOK'
<1> USE DEF TypeOK, ProposalStatuses, approvalVars, contractVars, unitVars, proposalVars, rows
<1>1. ASSUME NEW n \in Steps, NEW u \in Units, Draft(k, p, n, u)
      PROVE  TypeOK'
  BY <1>1 DEF Draft
<1>2. ASSUME NEW n \in Steps, NEW u \in Units, CreateDirectly(k, p, u, n)
      PROVE  TypeOK'
  BY <1>2 DEF CreateDirectly, Book!Draft, UnitStatuses
<1>3. CASE UpdateRead(k, p) \/ RejectRead(k, p)
  <2>1. PICK op \in {"update", "reject"} : Ask(k, [op |-> op, id |-> p]) /\ UNCHANGED rows
    BY <1>3 DEF UpdateRead, RejectRead
  <2>2. req' \in [Clients -> Requests]
    BY <2>1, PlainIsRequest, AskKeepsType
  <2> QED
    BY <2>1, <2>2
<1>4. CASE SubmitRead(k, p)
  <2>1. [op |-> "submit", id |-> p, steps |-> terms[p]] \in Requests
    BY DEF Requests
  <2>2. req' \in [Clients -> Requests]
    BY <1>4, <2>1, AskKeepsType DEF SubmitRead
  <2> QED
    BY <1>4, <2>2 DEF SubmitRead
<1>5. CASE Convert(k, p)
  <2>1. PICK r \in Requests : Ask(k, r)
    BY <1>5, CreateIsRequest, PlainIsRequest DEF Convert
  <2>2. req' \in [Clients -> Requests]
    BY <2>1, AskKeepsType
  <2> QED
    BY <1>5, <2>2 DEF Convert
<1> QED
  BY <1>1, <1>2, <1>3, <1>4, <1>5

LEMMA RequestTypes ==
    ASSUME TypeOK, NEW k \in Clients,
           \/ Update(k) \/ Submit(k) \/ Reject(k) \/ FreeUnit(k)
           \/ AssignTenant(k) \/ CreateFound(k) \/ Abandon(k)
    PROVE  TypeOK'
<1> USE DEF TypeOK, ProposalStatuses, approvalVars, contractVars, unitVars, proposalVars, rows
<1>0. Done(k) => req' \in [Clients -> Requests]
  BY IdleIsRequest, AskKeepsType DEF Done
<1>1. CASE Update(k)
  BY <1>0, <1>1, RequestFields DEF Update, Asked
<1>2. CASE Submit(k)
  <2>1. step' \in [Proposals -> [Steps -> StepStatuses]]
    BY <1>2 DEF Submit, StepStatuses
  <2> QED
    BY <1>0, <1>2, <2>1 DEF Submit, WorkflowStatuses
<1>3. CASE Reject(k)
  <2> DEFINE p == req[k].id
  <2>1. p \in Proposals
    BY <1>3, RequestFields DEF Reject, Asked
  <2>2. [op |-> "free", id |-> p, unit |-> target[p]] \in Requests
    BY <2>1 DEF Requests
  <2>3. req' \in [Clients -> Requests]
    BY <1>3, <2>2, AskKeepsType DEF Reject
  <2> QED
    BY <1>3, <2>3 DEF Reject
<1>4. CASE FreeUnit(k)
  BY <1>0, <1>4 DEF FreeUnit, UnitStatuses
<1>5. CASE AssignTenant(k)
  <2>1. req[k].id \in Proposals
    BY <1>5, RequestFields DEF AssignTenant, Asked
  <2>2. req' \in [Clients -> Requests]
    BY <1>0, <1>5, <2>1, CreateIsRequest, AskKeepsType DEF AssignTenant
  <2> QED
    BY <1>5, <2>1, <2>2 DEF AssignTenant
<1>6. CASE CreateFound(k)
  <2>1. req[k].id \in Proposals
    BY <1>6, RequestFields DEF CreateFound, Asked
  <2>2. req' \in [Clients -> Requests]
    BY <1>0, <1>6, <2>1, PlainIsRequest, AskKeepsType DEF CreateFound, AfterCreate
  <2> QED
    BY <1>6, <2>2 DEF CreateFound
<1>7. CASE Abandon(k)
  BY <1>0, <1>7 DEF Abandon
<1> QED
  BY <1>1, <1>2, <1>3, <1>4, <1>5, <1>6, <1>7

LEMMA CreateTypes ==
    ASSUME TypeOK, NEW k \in Clients, Create(k)
    PROVE  TypeOK'
<1> USE DEF TypeOK
<1>1. req[k].id \in Proposals /\ req[k].unit \in Units /\ req[k].terms \in Steps
  BY RequestFields DEF Create, Asked
<1>2. req' \in [Clients -> Requests]
  <2>1. Done(k) => req' \in [Clients -> Requests]
    BY IdleIsRequest, AskKeepsType DEF Done
  <2> QED
    BY <1>1, <2>1, PlainIsRequest, AskKeepsType DEF Create, AfterCreate
<1>3. /\ contract' \in [Proposals -> {"none", "draft", "lease", "over"}]
      /\ site' \in [Proposals -> Units]
      /\ billed' \subseteq {p \in Proposals : contract'[p] \in {"lease", "over"}}
  BY <1>1 DEF Create, Book!Draft
<1> QED
  BY <1>1, <1>2, <1>3 DEF Create, ProposalStatuses, UnitStatuses, approvalVars

LEMMA DeliveryTypes ==
    ASSUME TypeOK, NEW k \in Clients, Delivery(k)
    PROVE  TypeOK'
<1> USE DEF TypeOK, ProposalStatuses, EventStatuses, approvalVars, contractVars, unitVars,
            proposalVars
<1>0. Done(k) => req' \in [Clients -> Requests]
  BY IdleIsRequest, AskKeepsType DEF Done
<1>1. ASSUME NEW p \in Proposals, DeliverRejected(k, p)
      PROVE  TypeOK'
  BY <1>1 DEF DeliverRejected, Settled
<1>2. ASSUME NEW p \in Proposals, DeliverCompleted(k, p)
      PROVE  TypeOK'
  <2>1. req' \in [Clients -> Requests]
    BY <1>2, PlainIsRequest, AskKeepsType DEF DeliverCompleted
  <2> QED
    BY <1>2, <2>1 DEF DeliverCompleted
<1>3. CASE Handle(k)
  <2>1. req[k].id \in Proposals
    BY <1>3, RequestFields DEF Handle, Asked
  <2>2. event' \in [Proposals -> EventStatuses]
    BY <1>3, <2>1 DEF Handle, Settled
  <2>3. req' \in [Clients -> Requests]
    BY <1>0, <1>3, <2>1, PlainIsRequest, CreateIsRequest, AskKeepsType DEF Handle
  <2> QED
    BY <1>3, <2>2, <2>3 DEF Handle, Settled
<1>4. CASE Build(k)
  <2>1. req[k].id \in Proposals
    BY <1>4, RequestFields DEF Build, Asked
  <2> QED
    BY <1>0, <1>4, <2>1 DEF Build, Settled
<1>5. CASE Fail(k)
  <2>1. req[k].id \in Proposals
    BY <1>5, RequestFields DEF Fail, ForEvent, DeliveryOps
  <2> QED
    BY <1>0, <1>5, <2>1 DEF Fail, Swallowed
<1>6. ASSUME NEW p \in Proposals, DeliveryFails(k, p)
      PROVE  TypeOK'
  BY <1>6 DEF DeliveryFails, Swallowed
<1> QED
  BY <1>1, <1>2, <1>3, <1>4, <1>5, <1>6 DEF Delivery

\* The two actions of the unit's desk write the unit and its queue.
DeskStep(u) == (\E to \in UnitStatuses : BookUnit(u, to)) \/ Negotiate(u)

LEMMA DeskFrame ==
    ASSUME NEW u \in Units, DeskStep(u), TypeOK
    PROVE  /\ UNCHANGED <<proposalVars, approvalVars, event, lost, contractVars, req>>
           /\ unit' \in [Units -> UnitStatuses] /\ queued' \subseteq Units
           /\ \A w \in Units \ {u} : unit'[w] = unit[w] /\ (w \in queued' <=> w \in queued)
<1>1. ASSUME NEW to \in UnitStatuses, BookUnit(u, to)
      PROVE  /\ unit' = [unit EXCEPT ![u] = to]
             /\ queued' \in {queued \ {u}, queued \cup {u}}
             /\ UNCHANGED <<proposalVars, approvalVars, event, lost, contractVars, req>>
  BY <1>1 DEF BookUnit, Desk!Serve
<1>2. ASSUME Negotiate(u)
      PROVE  /\ unit' = [unit EXCEPT ![u] = "NEGOTIATING"]
             /\ UNCHANGED queued
             /\ UNCHANGED <<proposalVars, approvalVars, event, lost, contractVars, req>>
  BY <1>2 DEF Negotiate
<1> QED
  BY <1>1, <1>2 DEF DeskStep, TypeOK, UnitStatuses

LEMMA LeaseTypes ==
    ASSUME TypeOK,
           \/ \E p \in Proposals : Activate(p) \/ EndLease(p)
           \/ \E u \in Units : DeskStep(u)
    PROVE  TypeOK'
<1> USE DEF TypeOK, approvalVars, contractVars, unitVars, proposalVars, UnitStatuses
<1>1. ASSUME NEW p \in Proposals, Activate(p)
      PROVE  TypeOK'
  BY <1>1 DEF Activate, Book!Activate
<1>2. ASSUME NEW p \in Proposals, EndLease(p)
      PROVE  TypeOK'
  BY <1>2 DEF EndLease, Book!End
<1>3. ASSUME NEW u \in Units, DeskStep(u)
      PROVE  TypeOK'
  BY <1>3, DeskFrame
<1> QED
  BY <1>1, <1>2, <1>3

LEMMA TypeStep == TypeOK /\ [Next]_vars => TypeOK'
<1>1. CASE TypeOK /\ Next
  BY <1>1, ApprovalTypes, DraftTypes, RequestTypes, CreateTypes, DeliveryTypes, LeaseTypes
     DEF Next, Endpoint, DeskStep
<1>2. CASE TypeOK /\ UNCHANGED vars
  BY <1>2 DEF vars, proposalVars, approvalVars, contractVars, unitVars, TypeOK
<1> QED
  BY <1>1, <1>2

\* Every state has its types, whatever endpoints are in use; only contracts
\* that are or were in force have a billing schedule.
THEOREM TypeCorrect == Spec => []TypeOK
BY TypeStart, TypeStep, PTL DEF Spec

-----------------------------------------------------------------------------
(* Verdicts.                                                               *)

\* The steps of a workflow are used from the first on and decided in order.
StepsInOrder(p) ==
    \A s, t \in Steps : s < t =>
        /\ step[p][t] # "NONE" => step[p][s] # "NONE"
        /\ step[p][t] \in {"APPROVED", "REJECTED"} => step[p][s] = "APPROVED"

\* What the status of a workflow says of its steps.
WorkflowReflects(p) ==
    /\ workflow[p] = "NONE" => \A s \in Steps : step[p][s] = "NONE"
    /\ workflow[p] = "IN_PROGRESS" =>
          /\ step[p][1] # "NONE"
          /\ \A s \in Steps : step[p][s] # "REJECTED"
          /\ \E s \in Steps : step[p][s] = "PENDING"
    /\ workflow[p] = "APPROVED" =>
          step[p][1] = "APPROVED" /\ \A s \in Steps : step[p][s] \in {"APPROVED", "NONE"}
    /\ workflow[p] = "REJECTED" => \E s \in Steps : step[p][s] = "REJECTED"

HasVerdict(p) == workflow[p] \in {"APPROVED", "REJECTED"}

WorkflowsOK == \A p \in Proposals : StepsInOrder(p) /\ WorkflowReflects(p)

EventsOK ==
    /\ \A p \in Proposals : event[p] # "NONE" <=> HasVerdict(p)
    /\ \A k \in Clients : ForEvent(req[k]) => event[req[k].id] # "NONE"

LEMMA FirstStep == 1 \in Steps /\ Steps \subseteq Nat
BY MaxStepsAssumption DEF Steps

LEMMA ApproveKeepsWorkflows ==
    ASSUME TypeOK, WorkflowsOK, NEW p \in Proposals, NEW s \in Steps, ApproveStep(p, s)
    PROVE  WorkflowsOK'
<1> USE DEF TypeOK, WorkflowsOK
<1>1. /\ \A q \in Proposals \ {p} : step'[q] = step[q] /\ workflow'[q] = workflow[q]
      /\ \A t \in Steps \ {s} : step'[p][t] = step[p][t]
      /\ step'[p][s] = "APPROVED"
  BY DEF ApproveStep
<1>2. /\ workflow[p] = "IN_PROGRESS" /\ step[p][s] = "PENDING"
      /\ \A t \in Steps : t < s => step[p][t] = "APPROVED"
  BY FirstStep DEF ApproveStep, Actionable, Steps
<1>3. StepsInOrder(p)'
  <2> SUFFICES ASSUME NEW t1 \in Steps, NEW t2 \in Steps, t1 < t2
               PROVE  /\ step'[p][t2] # "NONE" => step'[p][t1] # "NONE"
                      /\ step'[p][t2] \in {"APPROVED", "REJECTED"} => step'[p][t1] = "APPROVED"
    BY DEF StepsInOrder
  <2>1. /\ step[p][t2] # "NONE" => step[p][t1] # "NONE"
        /\ step[p][t2] \in {"APPROVED", "REJECTED"} => step[p][t1] = "APPROVED"
    BY DEF StepsInOrder
  <2>2. CASE t2 = s
    BY <1>1, <1>2, <2>2, FirstStep
  <2>3. CASE t2 # s
    BY <1>1, <1>2, <2>1, <2>3
  <2> QED
    BY <2>2, <2>3
<1>4. WorkflowReflects(p)'
  <2>1. \A t \in Steps : step'[p][t] # "REJECTED"
    BY <1>1, <1>2 DEF WorkflowReflects
  <2>2. step'[p][1] # "NONE"
    BY <1>1, <1>2, FirstStep DEF WorkflowReflects
  <2>3. CASE \A t \in Steps \ {s} : step[p][t] \in {"NONE", "APPROVED"}
    <3>1. workflow'[p] = "APPROVED"
      BY <2>3 DEF ApproveStep
    <3>2. \A t \in Steps : step'[p][t] \in {"APPROVED", "NONE"}
      BY <1>1, <2>3
    <3> QED
      BY <2>2, <3>1, <3>2, FirstStep DEF WorkflowReflects
  <2>4. CASE \E t \in Steps \ {s} : step[p][t] \notin {"NONE", "APPROVED"}
    <3>1. PICK t \in Steps \ {s} : step[p][t] \notin {"NONE", "APPROVED"}
      BY <2>4
    <3>2. step'[p][t] = "PENDING"
      BY <1>1, <2>1, <3>1 DEF StepStatuses
    <3>3. workflow'[p] = "IN_PROGRESS"
      BY <1>2, <2>4 DEF ApproveStep
    <3> QED
      BY <2>1, <2>2, <3>2, <3>3 DEF WorkflowReflects
  <2> QED
    BY <2>3, <2>4
<1>5. \A q \in Proposals \ {p} : StepsInOrder(q)' /\ WorkflowReflects(q)'
  BY <1>1 DEF StepsInOrder, WorkflowReflects
<1> QED
  BY <1>3, <1>4, <1>5

LEMMA RejectKeepsWorkflows ==
    ASSUME TypeOK, WorkflowsOK, NEW p \in Proposals, NEW s \in Steps, RejectStep(p, s)
    PROVE  WorkflowsOK'
<1> USE DEF TypeOK, WorkflowsOK
<1>1. /\ \A q \in Proposals \ {p} : step'[q] = step[q] /\ workflow'[q] = workflow[q]
      /\ \A t \in Steps \ {s} : step'[p][t] = step[p][t]
      /\ step'[p][s] = "REJECTED"
      /\ workflow'[p] = "REJECTED"
  BY DEF RejectStep
<1>2. /\ step[p][s] = "PENDING"
      /\ \A t \in Steps : t < s => step[p][t] = "APPROVED"
  BY FirstStep DEF RejectStep, Actionable, Steps
<1>3. StepsInOrder(p)'
  <2> SUFFICES ASSUME NEW t1 \in Steps, NEW t2 \in Steps, t1 < t2
               PROVE  /\ step'[p][t2] # "NONE" => step'[p][t1] # "NONE"
                      /\ step'[p][t2] \in {"APPROVED", "REJECTED"} => step'[p][t1] = "APPROVED"
    BY DEF StepsInOrder
  <2>1. /\ step[p][t2] # "NONE" => step[p][t1] # "NONE"
        /\ step[p][t2] \in {"APPROVED", "REJECTED"} => step[p][t1] = "APPROVED"
    BY DEF StepsInOrder
  <2>2. CASE t2 = s
    BY <1>1, <1>2, <2>2, FirstStep
  <2>3. CASE t2 # s
    BY <1>1, <1>2, <2>1, <2>3
  <2> QED
    BY <2>2, <2>3
<1>4. WorkflowReflects(p)'
  BY <1>1 DEF WorkflowReflects
<1>5. \A q \in Proposals \ {p} : StepsInOrder(q)' /\ WorkflowReflects(q)'
  BY <1>1 DEF StepsInOrder, WorkflowReflects
<1> QED
  BY <1>3, <1>4, <1>5

LEMMA SubmitKeepsWorkflows ==
    ASSUME TypeOK, WorkflowsOK, NEW k \in Clients, Submit(k)
    PROVE  WorkflowsOK'
<1> USE DEF TypeOK, WorkflowsOK
<1>1. PICK p \in Proposals, n \in Steps : p = req[k].id /\ n = req[k].steps
  BY RequestFields DEF Submit, Asked
<1>2. /\ \A q \in Proposals \ {p} : step'[q] = step[q] /\ workflow'[q] = workflow[q]
      /\ \A t \in Steps : step'[p][t] = IF t <= n THEN "PENDING" ELSE "NONE"
      /\ workflow'[p] = "IN_PROGRESS"
  BY <1>1 DEF Submit
<1>3. StepsInOrder(p)'
  <2> SUFFICES ASSUME NEW t1 \in Steps, NEW t2 \in Steps, t1 < t2
               PROVE  /\ step'[p][t2] # "NONE" => step'[p][t1] # "NONE"
                      /\ step'[p][t2] \notin {"APPROVED", "REJECTED"}
    BY DEF StepsInOrder
  <2>1. t2 <= n => t1 <= n
    BY FirstStep
  <2> QED
    BY <1>2, <2>1
<1>4. WorkflowReflects(p)'
  <2>1. step'[p][1] = "PENDING"
    BY <1>1, <1>2, FirstStep DEF Steps
  <2>2. \A t \in Steps : step'[p][t] # "REJECTED"
    BY <1>2
  <2> QED
    BY <1>2, <2>1, <2>2, FirstStep DEF WorkflowReflects
<1>5. \A q \in Proposals \ {p} : StepsInOrder(q)' /\ WorkflowReflects(q)'
  BY <1>2 DEF StepsInOrder, WorkflowReflects
<1> QED
  BY <1>1, <1>3, <1>4, <1>5

\* Only the three transactions above write workflows.
LEMMA WorkflowWriters ==
    ASSUME [Next]_vars
    PROVE  \/ \E p \in Proposals, s \in Steps : ApproveStep(p, s) \/ RejectStep(p, s)
           \/ \E k \in Clients : Submit(k)
           \/ UNCHANGED approvalVars
<1>1. ASSUME NEW k \in Clients, Delivery(k)
      PROVE  UNCHANGED approvalVars
  BY <1>1 DEF Delivery, DeliverRejected, DeliverCompleted, DeliveryFails, Handle, Build, Fail
<1>2. ASSUME NEW k \in Clients, Endpoint(k), ~Submit(k)
      PROVE  UNCHANGED approvalVars
  BY <1>2 DEF Endpoint, Draft, CreateDirectly, UpdateRead, SubmitRead, RejectRead, Convert,
              Update, Reject, FreeUnit, AssignTenant, Create, CreateFound, Abandon, rows
<1> QED
  BY <1>1, <1>2 DEF Next, Activate, EndLease, BookUnit, Negotiate, vars

LEMMA WorkflowsStep ==
    ASSUME TypeOK, WorkflowsOK, [Next]_vars
    PROVE  WorkflowsOK'
<1>1. CASE UNCHANGED approvalVars
  BY <1>1 DEF approvalVars, WorkflowsOK, StepsInOrder, WorkflowReflects
<1> QED
  BY <1>1, WorkflowWriters, ApproveKeepsWorkflows, RejectKeepsWorkflows, SubmitKeepsWorkflows

\* Requests of the endpoints deliver nothing, except that a creation made
\* for an event goes on to the schedule.
LEMMA EndpointDelivers ==
    ASSUME TypeOK, NEW k \in Clients, Endpoint(k), NEW j \in Clients, ForEvent(req'[j])
    PROVE  ForEvent(req[j]) /\ req'[j].id = req[j].id
<1> USE DEF TypeOK, ForEvent, DeliveryOps
<1>0. ~ForEvent(Idle)
  BY DEF Idle
<1>1. CASE \E r \in Requests : Ask(k, r) /\ ~ForEvent(r)
  BY <1>1 DEF Ask
<1>2. ASSUME NEW p \in Proposals, Convert(k, p)
      PROVE  \E r \in Requests : Ask(k, r) /\ ~ForEvent(r)
  <2>1. CreateRequest(p, "user") \in Requests /\ ~ForEvent(CreateRequest(p, "user"))
    BY CreateIsRequest DEF CreateRequest
  <2>2. [op |-> "tenant", id |-> p] \in Requests
    BY DEF Requests
  <2> QED
    BY <1>2, <2>1, <2>2 DEF Convert
<1>3. CASE AssignTenant(k)
  <2>1. req[k].id \in Proposals
    BY <1>3, RequestFields DEF AssignTenant, Asked
  <2>2. CreateRequest(req[k].id, "user") \in Requests /\ ~ForEvent(CreateRequest(req[k].id, "user"))
    BY <2>1, CreateIsRequest DEF CreateRequest
  <2>3. \E r \in Requests : Ask(k, r) /\ ~ForEvent(r)
    BY <1>0, <1>3, <2>2, IdleIsRequest DEF AssignTenant, Done
  <2> QED
    BY <1>1, <2>3
<1>4. CASE Create(k) \/ CreateFound(k)
  BY <1>0, <1>4 DEF Create, CreateFound, AfterCreate, Asked, Ask, Done
<1>5. CASE Done(k)
  BY <1>0, <1>5 DEF Done, Ask
<1>6. CASE UNCHANGED req
  BY <1>6
<1>7. CASE \E p \in Proposals : UpdateRead(k, p) \/ SubmitRead(k, p) \/ RejectRead(k, p)
  BY <1>7 DEF UpdateRead, SubmitRead, RejectRead, Ask
<1>8. CASE Reject(k)
  BY <1>8 DEF Reject, Ask
<1>9. \/ UNCHANGED req
      \/ Done(k)
      \/ Create(k) \/ CreateFound(k) \/ AssignTenant(k) \/ Reject(k)
      \/ \E p \in Proposals : UpdateRead(k, p) \/ SubmitRead(k, p) \/ RejectRead(k, p) \/ Convert(k, p)
  BY DEF Endpoint, Draft, CreateDirectly, Update, Submit, FreeUnit, Abandon
<1> QED
  BY <1>1, <1>2, <1>3, <1>4, <1>5, <1>6, <1>7, <1>8, <1>9

LEMMA EventsStep ==
    ASSUME TypeOK, WorkflowsOK, EventsOK, [Next]_vars
    PROVE  EventsOK'
<1> USE DEF TypeOK, EventsOK, HasVerdict
<1>1. ASSUME NEW p \in Proposals, NEW s \in Steps, ApproveStep(p, s) \/ RejectStep(p, s)
      PROVE  EventsOK'
  <2>1. /\ \A q \in Proposals \ {p} : event'[q] = event[q] /\ workflow'[q] = workflow[q]
        /\ \/ event'[p] = "PENDING" /\ workflow'[p] \in {"APPROVED", "REJECTED"}
           \/ event'[p] = event[p] /\ workflow'[p] = workflow[p]
        /\ req' = req
    BY <1>1 DEF ApproveStep, RejectStep
  <2>2. \A q \in Proposals : event[q] # "NONE" => event'[q] # "NONE"
    BY <2>1
  <2>3. \A k \in Clients : ForEvent(req[k]) => req[k].id \in Proposals
    BY RequestFields DEF ForEvent, DeliveryOps
  <2> QED
    BY <2>1, <2>2, <2>3
<1>2. ASSUME NEW k \in Clients, Endpoint(k)
      PROVE  EventsOK'
  <2>1. event' = event
    BY <1>2 DEF Endpoint, Draft, CreateDirectly, UpdateRead, SubmitRead, RejectRead, Convert,
                Update, Submit, Reject, FreeUnit, AssignTenant, Create, CreateFound, Abandon, rows
  <2>2. \A p \in Proposals : HasVerdict(p)' <=> HasVerdict(p)
    <3>1. CASE Submit(k)
      BY <3>1 DEF Submit
    <3>2. CASE ~Submit(k)
      <4>1. workflow' = workflow
        BY <1>2, <3>2
           DEF Endpoint, Draft, CreateDirectly, UpdateRead, SubmitRead, RejectRead, Convert,
               Update, Reject, FreeUnit, AssignTenant, Create, CreateFound, Abandon, rows,
               approvalVars
      <4> QED
        BY <4>1
    <3> QED
      BY <3>1, <3>2
  <2>3. \A j \in Clients : ForEvent(req'[j]) => ForEvent(req[j]) /\ req'[j].id = req[j].id
    BY <1>2, EndpointDelivers
  <2> QED
    BY <2>1, <2>2, <2>3
<1>3. ASSUME NEW k \in Clients, Delivery(k)
      PROVE  EventsOK'
  <2>1. workflow' = workflow
    BY <1>3 DEF Delivery, DeliverRejected, DeliverCompleted, DeliveryFails, Handle, Build, Fail,
              approvalVars
  <2>2. /\ \A p \in Proposals : event'[p] # "NONE" <=> event[p] # "NONE"
        /\ ForEvent(req'[k]) => event[req'[k].id] # "NONE" /\ req'[k].id \in Proposals
        /\ \A j \in Clients \ {k} : req'[j] = req[j]
    <3> USE DEF Settled, Done, Ask, Idle, ForEvent, DeliveryOps
    <3>1. ASSUME NEW p \in Proposals, DeliverRejected(k, p)
          PROVE  <2>2!1 /\ <2>2!2 /\ <2>2!3
      BY <3>1, RequestFields DEF DeliverRejected, CanDeliver, IsIdle
    <3>2. ASSUME NEW p \in Proposals, DeliverCompleted(k, p)
          PROVE  <2>2!1 /\ <2>2!2 /\ <2>2!3
      BY <3>2 DEF DeliverCompleted, CanDeliver
    <3>3. CASE Handle(k)
      <4>1. req[k].id \in Proposals /\ event[req[k].id] # "NONE"
        BY <3>3, RequestFields DEF Handle, Asked
      <4> QED
        BY <3>3, <4>1 DEF Handle, Asked, CreateRequest
    <3>4. CASE Build(k)
      <4>1. req[k].id \in Proposals /\ event[req[k].id] # "NONE"
        BY <3>4, RequestFields DEF Build, Asked
      <4> QED
        BY <3>4, <4>1 DEF Build
    <3>5. CASE Fail(k)
      <4>1. req[k].id \in Proposals /\ event[req[k].id] # "NONE"
        BY <3>5, RequestFields DEF Fail
      <4> QED
        BY <3>5, <4>1 DEF Fail, Swallowed
    <3>6. ASSUME NEW p \in Proposals, DeliveryFails(k, p)
          PROVE  <2>2!1 /\ <2>2!2 /\ <2>2!3
      BY <3>6, RequestFields DEF DeliveryFails, Swallowed, CanDeliver, IsIdle
    <3> QED
      BY <1>3, <3>1, <3>2, <3>3, <3>4, <3>5, <3>6 DEF Delivery
  <2>3. \A j \in Clients : ForEvent(req[j]) => req[j].id \in Proposals
    BY RequestFields DEF ForEvent, DeliveryOps
  <2> QED
    BY <2>1, <2>2, <2>3
<1>4. CASE UNCHANGED <<event, workflow, req>>
  BY <1>4
<1>5. CASE UNCHANGED vars \/ \E p \in Proposals : Activate(p) \/ EndLease(p)
  BY <1>4, <1>5 DEF vars, approvalVars, Activate, EndLease
<1>6. CASE \E u \in Units : DeskStep(u)
  BY <1>4, <1>6 DEF DeskStep, BookUnit, Negotiate, approvalVars
<1> QED
  BY <1>1, <1>2, <1>3, <1>5, <1>6 DEF Next, DeskStep

LEMMA VerdictsFollow == TypeOK /\ WorkflowsOK /\ EventsOK => VerdictIsOfTheSteps
<1> SUFFICES ASSUME TypeOK, WorkflowsOK, EventsOK, NEW p \in Proposals
             PROVE  /\ \A s, t \in Steps :
                          s < t /\ step[p][t] \in {"APPROVED", "REJECTED"} => step[p][s] = "APPROVED"
                    /\ workflow[p] = "REJECTED" <=> \E s \in Steps : step[p][s] = "REJECTED"
                    /\ workflow[p] = "APPROVED" <=>
                          step[p][1] = "APPROVED" /\ \A s \in Steps : step[p][s] \in {"APPROVED", "NONE"}
                    /\ event[p] # "NONE" <=> workflow[p] \in {"APPROVED", "REJECTED"}
  BY DEF VerdictIsOfTheSteps
<1>1. StepsInOrder(p) /\ WorkflowReflects(p)
  BY DEF WorkflowsOK
<1>2. workflow[p] \in {"NONE", "IN_PROGRESS", "APPROVED", "REJECTED"}
  BY DEF TypeOK, WorkflowStatuses
<1>3. workflow[p] = "REJECTED" <=> \E s \in Steps : step[p][s] = "REJECTED"
  BY <1>1, <1>2 DEF WorkflowReflects
<1>4. workflow[p] = "APPROVED" <=>
          step[p][1] = "APPROVED" /\ \A s \in Steps : step[p][s] \in {"APPROVED", "NONE"}
  BY <1>1, <1>2, FirstStep DEF WorkflowReflects
<1> QED
  BY <1>1, <1>3, <1>4 DEF StepsInOrder, EventsOK, HasVerdict

LEMMA WorkflowsStart == Init => WorkflowsOK /\ EventsOK
<1> SUFFICES ASSUME Init
             PROVE  WorkflowsOK /\ EventsOK
  OBVIOUS
<1>1. WorkflowsOK
  BY DEF Init, WorkflowsOK, StepsInOrder, WorkflowReflects
<1>2. EventsOK
  BY DEF Init, EventsOK, HasVerdict, ForEvent, DeliveryOps, Idle
<1> QED
  BY <1>1, <1>2

\* Steps are approved in their order, one rejection ends the workflow, and
\* the outbox has an event exactly when there is a verdict.
THEOREM VerdictsAreSound == Spec => []VerdictIsOfTheSteps
<1>1. TypeOK /\ WorkflowsOK /\ EventsOK /\ [Next]_vars => WorkflowsOK' /\ EventsOK'
  BY WorkflowsStep, EventsStep
<1> QED
  BY <1>1, WorkflowsStart, VerdictsFollow, TypeCorrect, PTL DEF Spec

-----------------------------------------------------------------------------
(* Units.                                                                  *)

\* The steps that write contracts.
LEMMA ContractWriters ==
    ASSUME [Next]_vars
    PROVE  \/ \E k \in Clients : Create(k)
           \/ \E k \in Clients, p \in Proposals, n \in Steps, u \in Units : CreateDirectly(k, p, u, n)
           \/ \E p \in Proposals : Activate(p) \/ EndLease(p)
           \/ UNCHANGED <<contract, site, agreed>>
<1>1. ASSUME NEW k \in Clients, Delivery(k)
      PROVE  UNCHANGED <<contract, site, agreed>>
  BY <1>1 DEF Delivery, DeliverRejected, DeliverCompleted, DeliveryFails, Handle, Build, Fail,
              contractVars
<1>2. ASSUME NEW k \in Clients, Endpoint(k), ~Create(k),
             \A p \in Proposals, n \in Steps, u \in Units : ~CreateDirectly(k, p, u, n)
      PROVE  UNCHANGED <<contract, site, agreed>>
  BY <1>2 DEF Endpoint, Draft, UpdateRead, SubmitRead, RejectRead, Convert, Update, Submit,
              Reject, FreeUnit, AssignTenant, CreateFound, Abandon, rows, contractVars
<1>3. ASSUME NEW p \in Proposals, NEW s \in Steps, ApproveStep(p, s) \/ RejectStep(p, s)
      PROVE  UNCHANGED <<contract, site, agreed>>
  BY <1>3 DEF ApproveStep, RejectStep, contractVars
<1> QED
  BY <1>1, <1>2, <1>3 DEF Next, BookUnit, Negotiate, vars, contractVars

\* Whoever drafts a contract finds the unit free.
LEMMA DraftIsAlone ==
    ASSUME TypeOK, NEW p \in Proposals, NEW u \in Units, Book!Draft(p, u)
    PROVE  /\ contract'[p] = "draft" /\ site'[p] = u
           /\ \A q \in Proposals \ {p} : contract'[q] = contract[q] /\ site'[q] = site[q]
           /\ \A q \in Proposals : Live(q) => site[q] # u
BY DEF TypeOK, Book!Draft, Book!IsFree, Live

LEMMA OneContractStep ==
    ASSUME TypeOK, OneContractPerUnit, [Next]_vars
    PROVE  OneContractPerUnit'
<1> USE DEF OneContractPerUnit
<1>1. ASSUME NEW p \in Proposals, NEW u \in Units, Book!Draft(p, u)
      PROVE  OneContractPerUnit'
  BY <1>1, DraftIsAlone DEF Live
<1>2. ASSUME NEW k \in Clients, Create(k)
      PROVE  OneContractPerUnit'
  BY <1>1, <1>2, RequestFields DEF Create, Asked
<1>3. ASSUME NEW p \in Proposals, Activate(p) \/ EndLease(p)
      PROVE  OneContractPerUnit'
  BY <1>3 DEF Activate, EndLease, Book!Activate, Book!End, TypeOK, Live
<1>4. CASE UNCHANGED <<contract, site, agreed>>
  BY <1>4 DEF Live
<1> QED
  BY <1>1, <1>2, <1>3, <1>4, ContractWriters DEF CreateDirectly

\* Whatever endpoints are in use and however they interleave, a unit has at
\* most one contract.
THEOREM UnitsAreContractedOnce == Spec => []OneContractPerUnit
<1>1. Init => OneContractPerUnit
  BY DEF Init, OneContractPerUnit, Live
<1>2. TypeOK /\ OneContractPerUnit /\ [Next]_vars => OneContractPerUnit'
  BY OneContractStep
<1> QED
  BY <1>1, <1>2, TypeCorrect, PTL DEF Spec

LEMMA HoldsStep ==
    ASSUME TypeOK, ContractHoldsUnit, "direct" \notin Operations, [Next]_vars
    PROVE  ContractHoldsUnit'
<1> USE DEF TypeOK, ContractHoldsUnit
<1>1. ASSUME NEW k \in Clients, Create(k)
      PROVE  ContractHoldsUnit'
  <2>1. PICK p \in Proposals, u \in Units : p = req[k].id /\ u = req[k].unit
    BY <1>1, RequestFields DEF Create, Asked
  <2>2. /\ contract'[p] = "draft" /\ site'[p] = u
        /\ \A q \in Proposals \ {p} : contract'[q] = contract[q] /\ site'[q] = site[q]
        /\ \A q \in Proposals : Live(q) => site[q] # u
    BY <1>1, <2>1, DraftIsAlone DEF Create
  <2>3. /\ unit'[u] = "CONTRACTED" /\ u \notin queued'
        /\ \A w \in Units \ {u} : unit'[w] = unit[w] /\ (w \in queued' <=> w \in queued)
    BY <1>1, <2>1 DEF Create
  <2> QED
    BY <2>2, <2>3 DEF Live, CommittedStatuses
<1>2. ASSUME NEW p \in Proposals, Activate(p)
      PROVE  ContractHoldsUnit'
  <2>1. /\ site' = site /\ unit' = unit /\ queued' = queued
        /\ \A q \in Proposals : Live(q)' <=> Live(q)
    BY <1>2 DEF Activate, Book!Activate, unitVars, Live
  <2> QED
    BY <2>1
<1>3. ASSUME NEW p \in Proposals, EndLease(p)
      PROVE  ContractHoldsUnit'
  <2>1. /\ site' = site /\ queued' = queued
        /\ ~Live(p)'
        /\ \A q \in Proposals \ {p} : Live(q)' <=> Live(q)
        /\ \A w \in Units \ {site[p]} : unit'[w] = unit[w]
    BY <1>3 DEF EndLease, Book!End, Live
  <2>2. CASE unit[site[p]] = "VACANT"
    BY <1>3, <2>1, <2>2 DEF EndLease, CommittedStatuses
  <2>3. CASE unit[site[p]] # "VACANT"
    <3>1. LiveOn(site[p]) \ {p} = {}
      BY <1>3, <2>3 DEF EndLease, TransitionAllowed, LowAvailability
    <3>2. \A q \in Proposals \ {p} : Live(q) => site[q] # site[p]
      BY <3>1 DEF LiveOn
    <3> QED
      BY <2>1, <3>2
  <2> QED
    BY <2>2, <2>3
<1>4. ASSUME NEW u \in Units, unit[u] \notin CommittedStatuses,
             UNCHANGED <<contract, site>>,
             \A w \in Units \ {u} : unit'[w] = unit[w] /\ (w \in queued' <=> w \in queued)
      PROVE  ContractHoldsUnit'
  <2>1. \A q \in Proposals : Live(q) => site[q] # u
    BY <1>4
  <2> QED
    BY <1>4, <2>1 DEF Live
<1>5. ASSUME NEW k \in Clients, FreeUnit(k)
      PROVE  ContractHoldsUnit'
  <2>1. PICK u \in Units : u = req[k].unit
    BY <1>5, RequestFields DEF FreeUnit, Asked
  <2>2. unit[u] \notin CommittedStatuses
    BY <1>5, <2>1 DEF FreeUnit, CommittedStatuses
  <2> QED
    BY <1>4, <1>5, <2>1, <2>2 DEF FreeUnit, contractVars
<1>6. ASSUME NEW u \in Units, DeskStep(u)
      PROVE  ContractHoldsUnit'
  <2>1. /\ UNCHANGED <<contract, site>>
        /\ \A w \in Units \ {u} : unit'[w] = unit[w] /\ (w \in queued' <=> w \in queued)
    BY <1>6, DeskFrame DEF contractVars
  <2>2. CASE \A q \in Proposals : Live(q) => site[q] # u
    BY <2>1, <2>2 DEF Live
  <2>3. ASSUME NEW q \in Proposals, Live(q), site[q] = u
        PROVE  FALSE
    <3>1. ~Negotiate(u)
      BY <2>3 DEF Negotiate, TransitionAllowed, LowAvailability, LiveOn, CommittedStatuses
    <3>2. \A to \in UnitStatuses : ~BookUnit(u, to)
      BY <2>3 DEF BookUnit, Desk!Serve
    <3> QED
      BY <1>6, <3>1, <3>2 DEF DeskStep
  <2> QED
    BY <2>2, <2>3
<1>7. CASE UNCHANGED <<contract, site, unit, queued>>
  BY <1>7 DEF Live
<1>8. ASSUME NEW k \in Clients, Endpoint(k), ~Create(k), ~FreeUnit(k)
      PROVE  UNCHANGED <<contract, site, unit, queued>>
  BY <1>8 DEF Endpoint, Draft, CreateDirectly, UpdateRead, SubmitRead, RejectRead, Convert,
              Update, Submit, Reject, AssignTenant, CreateFound, Abandon, rows, contractVars,
              unitVars
<1>9. ASSUME NEW k \in Clients, Delivery(k)
      PROVE  UNCHANGED <<contract, site, unit, queued>>
  BY <1>9 DEF Delivery, DeliverRejected, DeliverCompleted, DeliveryFails, Handle, Build, Fail,
              contractVars,
              unitVars
<1>10. ASSUME NEW p \in Proposals, NEW s \in Steps, ApproveStep(p, s) \/ RejectStep(p, s)
       PROVE  UNCHANGED <<contract, site, unit, queued>>
  BY <1>10 DEF ApproveStep, RejectStep, contractVars, unitVars
<1>11. CASE UNCHANGED vars
  BY <1>7, <1>11 DEF vars, contractVars, unitVars
<1> QED
  BY <1>1, <1>2, <1>3, <1>5, <1>6, <1>7, <1>8, <1>9, <1>10, <1>11 DEF Next, DeskStep

\* If contracts come from proposals only, the unit of a contract is
\* committed to it and its queue is empty.
THEOREM ContractsHoldTheirUnits == "direct" \notin Operations => (Spec => []ContractHoldsUnit)
<1> SUFFICES ASSUME "direct" \notin Operations
             PROVE  Spec => []ContractHoldsUnit
  OBVIOUS
<1>1. Init => ContractHoldsUnit
  BY DEF Init, ContractHoldsUnit, Live
<1>2. TypeOK /\ ContractHoldsUnit /\ [Next]_vars => ContractHoldsUnit'
  BY HoldsStep
<1> QED
  BY <1>1, <1>2, TypeCorrect, PTL DEF Spec

-----------------------------------------------------------------------------
(* Approvals: no edits of proposals, no contracts created directly.        *)

\* A proposal leaves its draft with the submission, and is APPROVED or
\* CONVERTED only after its workflow was.
StatusOK(p) ==
    /\ proposal[p] \in {"NONE", "DRAFT"} <=> workflow[p] = "NONE"
    /\ proposal[p] \in {"APPROVED", "CONVERTED"} => workflow[p] = "APPROVED"

\* The workflow has the steps the terms call for.
StepsOfTerms(p) ==
    workflow[p] # "NONE" => \A s \in Steps : s <= terms[p] => step[p][s] # "NONE"

\* A contract has the terms that were approved.
ContractOK(p) == contract[p] # "none" => workflow[p] = "APPROVED" /\ agreed[p] = terms[p]

\* What a request has read is still so.
RequestOK(r) ==
    /\ r.op # "update"
    /\ r.op = "submit" => r.steps = terms[r.id] /\ proposal[r.id] # "NONE"
    /\ r.op = "create" => workflow[r.id] = "APPROVED" /\ r.terms = terms[r.id]
    /\ r.op \in {"tenant", "handle", "build"} => workflow[r.id] = "APPROVED"
    /\ r.op = "reject" => workflow[r.id] # "NONE"

PipelineOK ==
    /\ \A p \in Proposals : StatusOK(p) /\ StepsOfTerms(p) /\ ContractOK(p)
    /\ \A k \in Clients : RequestOK(req[k])

LEMMA IdleIsOK == RequestOK(Idle)'
BY DEF RequestOK, Idle

\* A step that moves neither proposals nor workflows, and one request only.
LEMMA StillRows ==
    ASSUME TypeOK, PipelineOK, UNCHANGED <<proposal, terms, workflow, step, contract, agreed>>,
           NEW k \in Clients, \A j \in Clients \ {k} : req'[j] = req[j],
           RequestOK(req[k])'
    PROVE  PipelineOK'
<1>1. \A p \in Proposals : (StatusOK(p) /\ StepsOfTerms(p) /\ ContractOK(p))'
  BY DEF PipelineOK, StatusOK, StepsOfTerms, ContractOK
<1>2. \A j \in Clients \ {k} : RequestOK(req[j])'
  BY DEF PipelineOK, RequestOK
<1> QED
  BY <1>1, <1>2 DEF PipelineOK

\* Sound requests, by the way they are asked for.
LEMMA AskIsOK ==
    ASSUME TypeOK, NEW k \in Clients, NEW r \in Requests, Ask(k, r), RequestOK(r)'
    PROVE  (\A j \in Clients \ {k} : req'[j] = req[j]) /\ RequestOK(req[k])'
<1>1. req'[k] = r /\ \A j \in Clients \ {k} : req'[j] = req[j]
  BY DEF Ask, TypeOK
<1> QED
  BY <1>1 DEF RequestOK

LEMMA DoneIsOK ==
    ASSUME TypeOK, NEW k \in Clients, Done(k)
    PROVE  (\A j \in Clients \ {k} : req'[j] = req[j]) /\ RequestOK(req[k])'
BY AskIsOK, IdleIsOK, IdleIsRequest DEF Done

\* Reads, and requests that end, with nothing written that counts here.
LEMMA ReadsKeepPipeline ==
    ASSUME TypeOK, PipelineOK, NEW k \in Clients,
           \/ \E p \in Proposals : SubmitRead(k, p) \/ RejectRead(k, p) \/ Convert(k, p)
           \/ FreeUnit(k) \/ AssignTenant(k) \/ CreateFound(k) \/ Abandon(k)
           \/ Handle(k) \/ Build(k) \/ Fail(k)
    PROVE  PipelineOK'
<1>1. UNCHANGED <<proposal, terms, workflow, step, contract, agreed>>
  BY DEF SubmitRead, RejectRead, Convert, FreeUnit, AssignTenant, CreateFound, Abandon, Handle,
         Build, Fail, rows, proposalVars, approvalVars, contractVars
<1>2. ASSUME NEW r \in Requests, Ask(k, r), RequestOK(r)
      PROVE  PipelineOK'
  <2>1. RequestOK(r)'
    BY <1>1, <1>2 DEF RequestOK
  <2> QED
    BY <1>1, <1>2, <2>1, AskIsOK, StillRows
<1>3. CASE Done(k)
  BY <1>1, <1>3, DoneIsOK, StillRows
<1>4. ASSUME NEW p \in Proposals, NEW by \in {"event", "user"}, workflow[p] = "APPROVED"
      PROVE  CreateRequest(p, by) \in Requests /\ RequestOK(CreateRequest(p, by))
  BY <1>4, CreateIsRequest DEF CreateRequest, RequestOK
<1>5. ASSUME NEW p \in Proposals, NEW op \in {"tenant", "handle", "build"},
             workflow[p] = "APPROVED"
      PROVE  [op |-> op, id |-> p] \in Requests /\ RequestOK([op |-> op, id |-> p])
  BY <1>5, PlainIsRequest DEF RequestOK
<1>6. ASSUME NEW p \in Proposals, SubmitRead(k, p)
      PROVE  PipelineOK'
  <2>1. [op |-> "submit", id |-> p, steps |-> terms[p]] \in Requests
    BY DEF TypeOK, Requests
  <2>2. RequestOK([op |-> "submit", id |-> p, steps |-> terms[p]])
    BY <1>6 DEF SubmitRead, RequestOK
  <2> QED
    BY <1>2, <1>6, <2>1, <2>2 DEF SubmitRead
<1>7. ASSUME NEW p \in Proposals, RejectRead(k, p)
      PROVE  PipelineOK'
  <2>1. [op |-> "reject", id |-> p] \in Requests
    BY PlainIsRequest
  <2>2. RequestOK([op |-> "reject", id |-> p])
    BY <1>7 DEF RejectRead, RequestOK, PipelineOK, StatusOK
  <2> QED
    BY <1>2, <1>7, <2>1, <2>2 DEF RejectRead
<1>8. ASSUME NEW p \in Proposals, Convert(k, p)
      PROVE  PipelineOK'
  <2>1. workflow[p] = "APPROVED"
    BY <1>8 DEF Convert, PipelineOK, StatusOK
  <2> QED
    BY <1>2, <1>4, <1>5, <1>8, <2>1 DEF Convert
<1>9. CASE AssignTenant(k) \/ CreateFound(k) \/ Handle(k)
  <2>1. req[k].id \in Proposals /\ workflow[req[k].id] = "APPROVED"
    BY <1>9, RequestFields DEF AssignTenant, CreateFound, Handle, Asked, PipelineOK, RequestOK
  <2> QED
    BY <1>2, <1>3, <1>4, <1>5, <1>9, <2>1 DEF AssignTenant, CreateFound, AfterCreate, Handle
<1> QED
  BY <1>3, <1>6, <1>7, <1>8, <1>9 DEF FreeUnit, Abandon, Build, Fail

LEMMA DraftKeepsPipeline ==
    ASSUME TypeOK, PipelineOK, NEW k \in Clients, NEW p \in Proposals, NEW n \in Steps,
           NEW u \in Units, Draft(k, p, n, u)
    PROVE  PipelineOK'
<1> USE DEF TypeOK
<1>1. /\ proposal[p] = "NONE" /\ proposal'[p] = "DRAFT"
      /\ \A q \in Proposals \ {p} : proposal'[q] = proposal[q] /\ terms'[q] = terms[q]
      /\ UNCHANGED <<workflow, step, contract, agreed, req>>
  BY DEF Draft, approvalVars, contractVars
<1>2. workflow[p] = "NONE"
  BY <1>1 DEF PipelineOK, StatusOK
<1>3. \A q \in Proposals : (StatusOK(q) /\ StepsOfTerms(q) /\ ContractOK(q))'
  BY <1>1, <1>2 DEF PipelineOK, StatusOK, StepsOfTerms, ContractOK
<1>4. ASSUME NEW j \in Clients
      PROVE  RequestOK(req[j])'
  <2>1. req[j].op # "idle" => req[j].id \in Proposals
    BY RequestFields
  <2>2. RequestOK(req[j])
    BY DEF PipelineOK
  <2> QED
    BY <1>1, <1>2, <2>1, <2>2 DEF RequestOK
<1> QED
  BY <1>3, <1>4 DEF PipelineOK

LEMMA SubmitKeepsPipeline ==
    ASSUME TypeOK, PipelineOK, NEW k \in Clients, Submit(k)
    PROVE  PipelineOK'
<1> USE DEF TypeOK
<1>1. PICK p \in Proposals, n \in Steps : p = req[k].id /\ n = req[k].steps
  BY RequestFields DEF Submit, Asked
<1>2. n = terms[p]
  BY <1>1 DEF Submit, Asked, PipelineOK, RequestOK
<1>3. /\ workflow[p] = "NONE"
      /\ proposal'[p] = "SUBMITTED" /\ workflow'[p] = "IN_PROGRESS"
      /\ \A q \in Proposals \ {p} : proposal'[q] = proposal[q] /\ workflow'[q] = workflow[q]
      /\ \A q \in Proposals \ {p} : step'[q] = step[q]
      /\ \A s \in Steps : s <= n => step'[p][s] = "PENDING"
      /\ UNCHANGED <<terms, contract, agreed>>
  BY <1>1 DEF Submit, contractVars
<1>4. \A q \in Proposals : (StatusOK(q) /\ StepsOfTerms(q) /\ ContractOK(q))'
  BY <1>2, <1>3 DEF PipelineOK, StatusOK, StepsOfTerms, ContractOK
<1>5. ASSUME NEW j \in Clients \ {k}
      PROVE  RequestOK(req[j])'
  <2>1. req[j].op # "idle" => req[j].id \in Proposals
    BY RequestFields
  <2>2. RequestOK(req[j]) /\ req'[j] = req[j]
    BY DEF PipelineOK, Submit, Done, Ask
  <2> QED
    BY <1>3, <2>1, <2>2 DEF RequestOK
<1>6. RequestOK(req[k])'
  BY DoneIsOK DEF Submit
<1> QED
  BY <1>4, <1>5, <1>6 DEF PipelineOK

\* A decision opens no workflow, takes no approval back and leaves every
\* step that is used in use.
LEMMA DecisionKeepsPipeline ==
    ASSUME TypeOK, PipelineOK, NEW p \in Proposals, NEW s \in Steps,
           ApproveStep(p, s) \/ RejectStep(p, s)
    PROVE  PipelineOK'
<1> USE DEF TypeOK
<1>1. /\ workflow[p] = "IN_PROGRESS" /\ workflow'[p] # "NONE"
      /\ \A q \in Proposals \ {p} : workflow'[q] = workflow[q]
      /\ UNCHANGED <<proposal, terms, contract, agreed, req>>
  BY DEF ApproveStep, RejectStep, Actionable, proposalVars, contractVars
<1>2. \A q \in Proposals, t \in Steps : step[q][t] # "NONE" => step'[q][t] # "NONE"
  BY DEF ApproveStep, RejectStep
<1>3. \A q \in Proposals : (StatusOK(q) /\ StepsOfTerms(q) /\ ContractOK(q))'
  BY <1>1, <1>2 DEF PipelineOK, StatusOK, StepsOfTerms, ContractOK
<1>4. ASSUME NEW j \in Clients
      PROVE  RequestOK(req[j])'
  <2>1. req[j].op # "idle" => req[j].id \in Proposals
    BY RequestFields
  <2>2. RequestOK(req[j])
    BY DEF PipelineOK
  <2> QED
    BY <1>1, <2>1, <2>2 DEF RequestOK
<1> QED
  BY <1>3, <1>4 DEF PipelineOK

\* The proposal is given a status its workflow allows; nobody is misled.
LEMMA StatusKeepsPipeline ==
    ASSUME TypeOK, PipelineOK, NEW k \in Clients, NEW p \in Proposals,
           NEW new \in {"APPROVED", "REJECTED", "CONVERTED"},
           proposal' = [proposal EXCEPT ![p] = new],
           workflow[p] # "NONE",
           new \in {"APPROVED", "CONVERTED"} => workflow[p] = "APPROVED",
           UNCHANGED <<terms, workflow, step>>,
           UNCHANGED <<contract, agreed>> \/ ContractOK(p)',
           \A q \in Proposals \ {p} : contract'[q] = contract[q] /\ agreed'[q] = agreed[q],
           \A j \in Clients \ {k} : req'[j] = req[j],
           RequestOK(req[k])'
    PROVE  PipelineOK'
<1> USE DEF TypeOK
<1>1. proposal'[p] = new /\ \A q \in Proposals \ {p} : proposal'[q] = proposal[q]
  OBVIOUS
<1>2. \A q \in Proposals : (StatusOK(q) /\ StepsOfTerms(q) /\ ContractOK(q))'
  BY <1>1 DEF PipelineOK, StatusOK, StepsOfTerms, ContractOK
<1>3. ASSUME NEW j \in Clients \ {k}
      PROVE  RequestOK(req[j])'
  <2>1. req[j].op # "idle" => req[j].id \in Proposals
    BY RequestFields
  <2>2. RequestOK(req[j])
    BY DEF PipelineOK
  <2> QED
    BY <1>1, <2>1, <2>2 DEF RequestOK
<1> QED
  BY <1>2, <1>3 DEF PipelineOK

LEMMA DeliverKeepsPipeline ==
    ASSUME TypeOK, PipelineOK, NEW k \in Clients, NEW p \in Proposals,
           DeliverRejected(k, p) \/ DeliverCompleted(k, p)
    PROVE  PipelineOK'
<1>1. CASE DeliverRejected(k, p)
  <2>1. RequestOK(req[k])'
    BY <1>1 DEF DeliverRejected, CanDeliver, IsIdle, RequestOK, Idle
  <2>2. /\ proposal' = [proposal EXCEPT ![p] = "REJECTED"]
        /\ workflow[p] = "REJECTED"
        /\ UNCHANGED <<terms, workflow, step, contract, agreed, req>>
    BY <1>1 DEF DeliverRejected, approvalVars, contractVars
  <2> QED
    BY <2>1, <2>2, StatusKeepsPipeline
<1>2. CASE DeliverCompleted(k, p)
  <2>1. /\ proposal' = [proposal EXCEPT ![p] = "APPROVED"]
        /\ workflow[p] = "APPROVED"
        /\ UNCHANGED <<terms, workflow, step, contract, agreed>>
        /\ Ask(k, [op |-> "handle", id |-> p])
    BY <1>2 DEF DeliverCompleted, approvalVars, contractVars
  <2>2. [op |-> "handle", id |-> p] \in Requests /\ RequestOK([op |-> "handle", id |-> p])'
    BY <2>1, PlainIsRequest DEF RequestOK
  <2>3. (\A j \in Clients \ {k} : req'[j] = req[j]) /\ RequestOK(req[k])'
    BY <2>1, <2>2, AskIsOK
  <2> QED
    BY <2>1, <2>3, StatusKeepsPipeline
<1> QED
  BY <1>1, <1>2

LEMMA RejectKeepsPipeline ==
    ASSUME TypeOK, PipelineOK, NEW k \in Clients, Reject(k)
    PROVE  PipelineOK'
<1>1. PICK p \in Proposals, u \in Units : p = req[k].id /\ u = target[p]
  BY RequestFields DEF Reject, Asked, TypeOK
<1>2. /\ proposal' = [proposal EXCEPT ![p] = "REJECTED"]
      /\ UNCHANGED <<terms, workflow, step, contract, agreed>>
      /\ Ask(k, [op |-> "free", id |-> p, unit |-> u])
  BY <1>1 DEF Reject, approvalVars, contractVars
<1>3. workflow[p] # "NONE"
  BY <1>1 DEF Reject, Asked, PipelineOK, RequestOK
<1>4. /\ [op |-> "free", id |-> p, unit |-> u] \in Requests
      /\ RequestOK([op |-> "free", id |-> p, unit |-> u])'
  BY DEF Requests, RequestOK
<1>5. (\A j \in Clients \ {k} : req'[j] = req[j]) /\ RequestOK(req[k])'
  BY <1>2, <1>4, AskIsOK
<1> QED
  BY <1>2, <1>3, <1>5, StatusKeepsPipeline

LEMMA CreateKeepsPipeline ==
    ASSUME TypeOK, PipelineOK, NEW k \in Clients, Create(k)
    PROVE  PipelineOK'
<1> USE DEF TypeOK
<1>1. PICK p \in Proposals, n \in Steps : p = req[k].id /\ n = req[k].terms
  BY RequestFields DEF Create, Asked
<1>2. workflow[p] = "APPROVED" /\ n = terms[p]
  BY <1>1 DEF Create, Asked, PipelineOK, RequestOK
<1>3. /\ proposal' = [proposal EXCEPT ![p] = "CONVERTED"]
      /\ agreed' = [agreed EXCEPT ![p] = n]
      /\ \A q \in Proposals \ {p} : contract'[q] = contract[q]
      /\ UNCHANGED <<terms, workflow, step>>
      /\ Done(k) \/ Ask(k, [op |-> "build", id |-> p])
  BY <1>1 DEF Create, Book!Draft, AfterCreate, approvalVars
<1>4. ContractOK(p)'
  BY <1>2, <1>3 DEF ContractOK
<1>5. (\A j \in Clients \ {k} : req'[j] = req[j]) /\ RequestOK(req[k])'
  <2>1. [op |-> "build", id |-> p] \in Requests /\ RequestOK([op |-> "build", id |-> p])'
    BY <1>2, <1>3, PlainIsRequest DEF RequestOK
  <2> QED
    BY <1>3, <2>1, AskIsOK, DoneIsOK
<1> QED
  BY <1>2, <1>3, <1>4, <1>5, StatusKeepsPipeline

LEMMA LeaseKeepsPipeline ==
    ASSUME TypeOK, PipelineOK,
           \/ \E p \in Proposals : Activate(p) \/ EndLease(p)
           \/ \E u \in Units : DeskStep(u)
           \/ UNCHANGED vars
    PROVE  PipelineOK'
<1>1. UNCHANGED <<proposal, terms, workflow, step, agreed, req>>
  BY DeskFrame DEF Activate, EndLease, vars, proposalVars, approvalVars, contractVars
<1>2. \A p \in Proposals : contract'[p] # "none" => contract[p] # "none"
  BY DeskFrame DEF TypeOK, Activate, EndLease, Book!Activate, Book!End, vars, contractVars
<1> QED
  BY <1>1, <1>2 DEF PipelineOK, StatusOK, StepsOfTerms, ContractOK, RequestOK

LEMMA PipelineStep ==
    ASSUME TypeOK, PipelineOK, [Next]_vars, Operations \cap {"update", "direct"} = {}
    PROVE  PipelineOK'
<1>1. ASSUME NEW k \in Clients, Endpoint(k)
      PROVE  PipelineOK'
  <2>1. ~Update(k)
    BY DEF Update, Asked, PipelineOK, RequestOK
  <2>2. /\ \A p \in Proposals : ~UpdateRead(k, p)
        /\ \A p \in Proposals, n \in Steps, u \in Units : ~CreateDirectly(k, p, u, n)
    BY DEF UpdateRead, CreateDirectly
  <2> QED
    BY <1>1, <2>1, <2>2, DraftKeepsPipeline, ReadsKeepPipeline, SubmitKeepsPipeline,
       RejectKeepsPipeline, CreateKeepsPipeline DEF Endpoint
<1>2. ASSUME NEW k \in Clients, Delivery(k)
      PROVE  PipelineOK'
  <2>1. ASSUME NEW p \in Proposals, DeliveryFails(k, p)
        PROVE  PipelineOK'
    <3>1. /\ UNCHANGED <<proposal, terms, workflow, step, contract, agreed, req>>
          /\ req[k] = Idle
      BY <2>1 DEF DeliveryFails, CanDeliver, IsIdle, proposalVars, approvalVars, contractVars
    <3>2. RequestOK(req[k])'
      BY <3>1 DEF RequestOK, Idle
    <3> QED
      BY <3>1, <3>2, StillRows
  <2> QED
    BY <1>2, <2>1, DeliverKeepsPipeline, ReadsKeepPipeline DEF Delivery
<1> QED
  BY <1>1, <1>2, DecisionKeepsPipeline, LeaseKeepsPipeline DEF Next, DeskStep

\* If proposals are not edited and contracts come from proposals only, a
\* contract has every approval its terms call for, whatever is interleaved.
THEOREM ContractsAreApproved ==
    Operations \cap {"update", "direct"} = {} => (Spec => []ContractIsApproved)
<1> SUFFICES ASSUME Operations \cap {"update", "direct"} = {}
             PROVE  Spec => []ContractIsApproved
  OBVIOUS
<1>1. Init => PipelineOK
  <2> SUFFICES ASSUME Init
               PROVE  PipelineOK
    OBVIOUS
  <2> QED
    BY DEF Init, PipelineOK, StatusOK, StepsOfTerms, ContractOK, RequestOK, Idle
<1>2. TypeOK /\ PipelineOK /\ [Next]_vars => PipelineOK'
  BY PipelineStep
<1>3. TypeOK /\ PipelineOK /\ WorkflowsOK => ContractIsApproved
  <2> SUFFICES ASSUME TypeOK, PipelineOK, WorkflowsOK,
                      NEW p \in Proposals, contract[p] # "none"
               PROVE  workflow[p] = "APPROVED" /\ \A s \in 1 .. agreed[p] : step[p][s] = "APPROVED"
    BY DEF ContractIsApproved
  <2>1. workflow[p] = "APPROVED" /\ agreed[p] = terms[p] /\ terms[p] \in Steps
    BY DEF PipelineOK, ContractOK, TypeOK
  <2>2. \A s \in Steps : s <= terms[p] => step[p][s] # "NONE"
    BY <2>1 DEF PipelineOK, StepsOfTerms
  <2>3. \A s \in Steps : step[p][s] \in {"APPROVED", "NONE"}
    BY <2>1 DEF WorkflowsOK, WorkflowReflects
  <2>4. \A s \in 1 .. terms[p] : s \in Steps /\ s <= terms[p]
    BY <2>1, MaxStepsAssumption DEF Steps
  <2> QED
    BY <2>1, <2>2, <2>3, <2>4
<1>4. TypeOK /\ WorkflowsOK /\ [Next]_vars => WorkflowsOK'
  BY WorkflowsStep
<1>5. Init => WorkflowsOK
  BY WorkflowsStart
<1> QED
  BY <1>1, <1>2, <1>3, <1>4, <1>5, TypeCorrect, PTL DEF Spec
=============================================================================
