--------------------------- MODULE ContractProofs ---------------------------
(***************************************************************************)
(* What the contract endpoints guarantee, for any number of contracts,     *)
(* units and requests in flight, and the stages of FitoutStages, for every *)
(* configuration of them and every order upsert() can give them.           *)
(***************************************************************************)
EXTENDS ContractLifecycle, FitoutStages, TLAPS

LEMMA TransitionsStayStatuses ==
    \A s \in ContractStatuses : Transitions[s] \subseteq ContractStatuses
BY DEF Transitions, ContractStatuses, PreActivation, Ended

\* What is in flight, by its operation.
LEMMA RequestTypes ==
    ASSUME TypeOK, NEW k \in Clients
    PROVE  /\ Asked(k, "update") => req[k].id \in Contracts /\ req[k].unit \in Units
           /\ Asked(k, "status") => req[k].id \in Contracts /\ req[k].to \in ContractStatuses
           /\ Asked(k, "initiate") => req[k].id \in Contracts
           /\ Asked(k, "complete") => req[k].id \in Contracts /\ req[k].unit \in Units
           /\ Asked(k, "cancel") => req[k].id \in Contracts /\ req[k].to \in ContractStatuses
BY DEF TypeOK, Requests, Asked, Idle

LEMMA IdleIsRequest == Idle \in Requests
BY DEF Requests

-----------------------------------------------------------------------------
(* Types.                                                                  *)

LEMMA TypeStart ==
    ASSUME Init
    PROVE  TypeOK
<1>1. (CHOOSE u \in Units : TRUE) \in Units
  BY UnitsAssumption
<1> QED
  BY <1>1, IdleIsRequest
     DEF Init, TypeOK, Terms, TerminationStatuses, UnitStatuses

LEMMA TypeRead ==
    ASSUME TypeOK, NEW k \in Clients, NEW c \in Contracts, Read(k, c)
    PROVE  TypeOK'
<1>1. ASSUME NEW r \in Requests, Ask(k, r)
      PROVE  TypeOK'
  BY <1>1 DEF Ask, rows, TypeOK
<1>2. ASSUME NEW u \in Units, UpdateRead(k, c, u)
      PROVE  TypeOK'
  <2>1. [op |-> "update", id |-> c, unit |-> u] \in Requests
    BY DEF Requests
  <2> QED
    BY <1>1, <1>2, <2>1 DEF UpdateRead
<1>3. \A to \in ContractStatuses : [op |-> "status", id |-> c, to |-> to] \in Requests
  BY DEF Requests
<1>4. ASSUME NEW to \in ContractStatuses, StatusRead(k, c, to)
      PROVE  TypeOK'
  BY <1>1, <1>3, <1>4 DEF StatusRead
<1>5. CASE ExpiryJobRead(k, c)
  <2>1. PICK to \in {"EXPIRED", "EXPIRING"} : Ask(k, [op |-> "status", id |-> c, to |-> to])
    BY <1>5 DEF ExpiryJobRead
  <2>2. to \in ContractStatuses
    BY DEF ContractStatuses, Ended
  <2> QED
    BY <1>1, <1>3, <2>1, <2>2
<1>6. CASE InitiateRead(k, c)
  <2>1. [op |-> "initiate", id |-> c] \in Requests
    BY DEF Requests
  <2> QED
    BY <1>1, <1>6, <2>1 DEF InitiateRead
<1>7. CASE CompleteRead(k, c)
  <2>1. [op |-> "complete", id |-> c, unit |-> place[c]] \in Requests
    BY DEF Requests, TypeOK
  <2> QED
    BY <1>1, <1>7, <2>1 DEF CompleteRead
<1>8. CASE CancelRead(k, c)
  <2>1. PICK to \in {"EXPIRED", "EXPIRING", "ACTIVE"} :
          Ask(k, [op |-> "cancel", id |-> c, to |-> to])
    BY <1>8 DEF CancelRead
  <2>2. [op |-> "cancel", id |-> c, to |-> to] \in Requests
    BY DEF Requests, ContractStatuses, Ended
  <2> QED
    BY <1>1, <2>1, <2>2
<1> QED
  BY <1>2, <1>4, <1>5, <1>6, <1>7, <1>8 DEF Read

LEMMA TypeWrite ==
    ASSUME TypeOK, NEW k \in Clients, Write(k)
    PROVE  TypeOK'
<1> USE IdleIsRequest DEF TypeOK, Done
<1>1. CASE Update(k)
  BY <1>1, RequestTypes DEF Update
<1>2. CASE ChangeStatus(k)
  BY <1>2, RequestTypes DEF ChangeStatus
<1>3. CASE Initiate(k)
  BY <1>3, RequestTypes DEF Initiate, ContractStatuses, TerminationStatuses
<1>4. CASE Complete(k)
  BY <1>4, RequestTypes DEF Complete, ContractStatuses, Ended, TerminationStatuses, UnitStatuses
<1>5. CASE Cancel(k)
  BY <1>5, RequestTypes DEF Cancel, TerminationStatuses
<1> QED
  BY <1>1, <1>2, <1>3, <1>4, <1>5 DEF Write

LEMMA TypeStep ==
    ASSUME TypeOK, [Next]_vars
    PROVE  TypeOK'
<1>1. ASSUME NEW k \in Clients, NEW c \in Contracts, NEW term \in Terms, NEW u \in Units,
             Create(k, c, u, term)
      PROVE  TypeOK'
  BY <1>1 DEF Create, TypeOK, ContractStatuses, PreActivation, UnitStatuses
<1>2. ASSUME NEW k \in Clients, NEW c \in Contracts, NEW term \in Terms, Amend(k, c, term)
      PROVE  TypeOK'
  BY <1>2 DEF Amend, TypeOK
<1>3. ASSUME NEW k \in Clients, NEW c \in Contracts, NEW done \in BOOLEAN,
             NEW new \in TerminationStatuses, Checklist(k, c, done, new)
      PROVE  TypeOK'
  BY <1>3 DEF Checklist, TypeOK
<1>4. ASSUME NEW k \in Clients, NEW u \in Units, NEW to \in UnitStatuses, MoveUnit(k, u, to)
      PROVE  TypeOK'
  BY <1>4 DEF MoveUnit, TypeOK
<1>5. ASSUME NEW k \in Clients, Abandon(k)
      PROVE  TypeOK'
  BY <1>5, IdleIsRequest DEF Abandon, Done, rows, TypeOK
<1>6. ASSUME NEW c \in Contracts, TimePasses(c)
      PROVE  TypeOK'
  BY <1>6 DEF TimePasses, TypeOK, Terms
<1>7. CASE UNCHANGED vars
  BY <1>7 DEF vars, TypeOK
<1> QED
  BY <1>1, <1>2, <1>3, <1>4, <1>5, <1>6, <1>7, TypeRead, TypeWrite DEF Next

\* The columns keep their types; what a request carries from its checks to
\* its write is enough to write from.
THEOREM TypeCorrect == Spec => []TypeOK
<1>1. TypeOK /\ [Next]_vars => TypeOK'
  BY TypeStep
<1> QED
  BY <1>1, TypeStart, PTL DEF Spec

-----------------------------------------------------------------------------
(* Billing.                                                                *)

InForce == {"ACTIVE", "EXPIRING", "TERMINATING"} \cup Ended

\* Terminations, and requests that will put a contract into a later status
\* without an activation, are about contracts that were activated.  The
\* request may have read that long before it writes.
BilledInv ==
    /\ TypeOK
    /\ ActivatedIsBilled
    /\ \A c \in Contracts : termination[c] # "NONE" => c \in billed
    /\ \A k \in Clients :
          /\ Asked(k, "status") /\ req[k].to \in InForce \ {"ACTIVE"} => req[k].id \in billed
          /\ Asked(k, "initiate") \/ Asked(k, "complete") \/ Asked(k, "cancel")
                => req[k].id \in billed

LEMMA BilledRead ==
    ASSUME BilledInv, NEW k \in Clients, NEW c \in Contracts, Read(k, c)
    PROVE  BilledInv'
<1>0. TypeOK'
  BY TypeRead DEF BilledInv
<1>1. ASSUME NEW r, Ask(k, r),
             \/ r.op = "update"
             \/ r.op = "status" /\ (r.to \in InForce \ {"ACTIVE"} => r.id \in billed)
             \/ r.op \in {"initiate", "complete", "cancel"} /\ r.id \in billed
      PROVE  BilledInv'
  <2>1. /\ UNCHANGED <<status, termination, billed>>
        /\ req' = [req EXCEPT ![k] = r]
    BY <1>1 DEF Ask, rows
  <2> QED
    BY <1>0, <1>1, <2>1 DEF BilledInv, TypeOK, ActivatedIsBilled, Asked
<1>2. ASSUME NEW u \in Units, UpdateRead(k, c, u)
      PROVE  BilledInv'
  BY <1>1, <1>2 DEF UpdateRead
<1>3. \A s \in ContractStatuses : Transitions[s] \cap (InForce \ {"ACTIVE"}) # {} => s \in InForce
  BY DEF Transitions, InForce, ContractStatuses, PreActivation, Ended
<1>4. \A s \in ContractStatuses \cup {"NONE"} : s # "NONE" => s \in ContractStatuses
  OBVIOUS
<1>5. ASSUME NEW to \in ContractStatuses, StatusRead(k, c, to)
      PROVE  BilledInv'
  <2>1. status[c] \in ContractStatuses
    BY <1>5 DEF StatusRead, Exists, BilledInv, TypeOK
  <2>2. to \in InForce \ {"ACTIVE"} => status[c] \in InForce
    BY <1>3, <1>5, <2>1 DEF StatusRead
  <2>3. to \in InForce \ {"ACTIVE"} => c \in billed
    BY <2>2 DEF BilledInv, ActivatedIsBilled, InForce
  <2> QED
    BY <1>1, <1>5, <2>3 DEF StatusRead
<1>6. CASE ExpiryJobRead(k, c)
  <2>1. c \in billed
    BY <1>6 DEF ExpiryJobRead, BilledInv, ActivatedIsBilled
  <2> QED
    BY <1>1, <1>6, <2>1 DEF ExpiryJobRead
<1>7. CASE InitiateRead(k, c)
  <2>1. c \in billed
    BY <1>7 DEF InitiateRead, BilledInv, ActivatedIsBilled
  <2> QED
    BY <1>1, <1>7, <2>1 DEF InitiateRead
<1>8. CASE CompleteRead(k, c)
  <2>1. c \in billed
    BY <1>8 DEF CompleteRead, BilledInv
  <2> QED
    BY <1>1, <1>8, <2>1 DEF CompleteRead
<1>9. CASE CancelRead(k, c)
  <2>1. c \in billed
    BY <1>9 DEF CancelRead, BilledInv
  <2> QED
    BY <1>1, <1>9, <2>1 DEF CancelRead
<1> QED
  BY <1>2, <1>5, <1>6, <1>7, <1>8, <1>9 DEF Read

LEMMA BilledWrite ==
    ASSUME BilledInv, NEW k \in Clients, Write(k)
    PROVE  BilledInv'
<1>0. TypeOK'
  BY TypeWrite DEF BilledInv
<1>1. req' = [req EXCEPT ![k] = Idle] /\ billed \subseteq billed'
  BY DEF Write, Update, ChangeStatus, Initiate, Complete, Cancel, Done
<1>2. ASSUME ActivatedIsBilled',
             \A c \in Contracts : termination'[c] # "NONE" => c \in billed'
      PROVE  BilledInv'
  BY <1>0, <1>1, <1>2 DEF BilledInv, TypeOK, Asked, Idle
<1> USE RequestTypes DEF BilledInv, TypeOK, ActivatedIsBilled
<1>3. CASE Update(k)
  BY <1>2, <1>3 DEF Update
<1>4. CASE ChangeStatus(k)
  BY <1>2, <1>4 DEF ChangeStatus, InForce
<1>5. CASE Initiate(k)
  BY <1>2, <1>5 DEF Initiate
<1>6. CASE Complete(k)
  BY <1>2, <1>6 DEF Complete
<1>7. CASE Cancel(k)
  BY <1>2, <1>7 DEF Cancel
<1> QED
  BY <1>3, <1>4, <1>5, <1>6, <1>7 DEF Write

LEMMA BilledStep ==
    ASSUME BilledInv, [Next]_vars
    PROVE  BilledInv'
<1>0. TypeOK'
  BY TypeStep DEF BilledInv
<1>1. ASSUME NEW k \in Clients, NEW c \in Contracts, NEW term \in Terms, NEW u \in Units,
             Create(k, c, u, term)
      PROVE  BilledInv'
  BY <1>0, <1>1 DEF Create, BilledInv, TypeOK, ActivatedIsBilled, Asked, Ended
<1>2. ASSUME NEW k \in Clients, NEW c \in Contracts, NEW done \in BOOLEAN,
             NEW new \in TerminationStatuses, Checklist(k, c, done, new)
      PROVE  BilledInv'
  BY <1>0, <1>2 DEF Checklist, BilledInv, TypeOK, ActivatedIsBilled, Asked
<1>3. ASSUME NEW k \in Clients, Abandon(k)
      PROVE  BilledInv'
  BY <1>0, <1>3 DEF Abandon, Done, rows, BilledInv, TypeOK, ActivatedIsBilled, Asked, Idle
<1>4. ASSUME UNCHANGED <<status, termination, billed, req>>
      PROVE  BilledInv'
  BY <1>0, <1>4 DEF BilledInv, ActivatedIsBilled, Asked
<1> QED
  BY <1>1, <1>2, <1>3, <1>4, BilledRead, BilledWrite
     DEF Next, Amend, MoveUnit, TimePasses, vars, BilledInv

\* However requests interleave, a contract in force has its billing schedule
\* and its activation event.
THEOREM InForceIsBilled == Spec => []ActivatedIsBilled
<1>1. Init => BilledInv
  BY TypeStart DEF Init, BilledInv, ActivatedIsBilled, Asked, Idle, Ended
<1>2. BilledInv /\ [Next]_vars => BilledInv'
  BY BilledStep
<1>3. BilledInv => ActivatedIsBilled
  BY DEF BilledInv
<1> QED
  BY <1>1, <1>2, <1>3, PTL DEF Spec
-----------------------------------------------------------------------------
(* FitoutStages: the rows and the requests in flight.                      *)

Tasks ==
    {NoTask}
    \cup [op : {"create"}, to : Stages]
    \cup [op : {"advance"}, from : Stages, to : Stages]
    \cup [op : {"deactivate"}, stage : Stages]

StageRows ==
    /\ active \subseteq Stages
    /\ project \in Stages \cup {"none"}
    /\ milestone \in [Stages -> {"none", "open", "done"}]
    /\ task \in [Users -> Tasks]

LEMMA StageRowsInit == StageInit => StageRows
BY DEF StageInit, StageRows, Tasks

\* What a request does as it starts, and as it is answered.
LEMMA Requested ==
    ASSUME StageRows, NEW k \in Users, NEW c \in Tasks, Request(k, c)
    PROVE  /\ StageRows'
           /\ active' = active /\ project' = project /\ milestone' = milestone
           /\ contract' = contract /\ space' = space
           /\ task'[k] = c /\ \A j \in Users \ {k} : task'[j] = task[j]
           /\ \A j \in Users : task[j].op # "none" => {c.op, task[j].op} \notin StageApart
BY DEF Request, StageRows

LEMMA Answered ==
    ASSUME StageRows, NEW k \in Users, Answer(k)
    PROVE  /\ task' \in [Users -> Tasks]
           /\ task'[k] = NoTask /\ \A j \in Users \ {k} : task'[j] = task[j]
BY DEF Answer, StageRows, Tasks

LEMMA TaskShapes ==
    ASSUME StageRows, NEW k \in Users
    PROVE  /\ task[k].op = "create" => task[k].to \in Stages
           /\ task[k].op = "advance" => task[k].from \in Stages /\ task[k].to \in Stages
           /\ task[k].op = "deactivate" => task[k].stage \in Stages
BY DEF StageRows, Tasks, NoTask

\* The stages a request may name.
LEMMA CreateRequest ==
    ASSUME StageRows, NEW k \in Users, CreateRead(k)
    PROVE  \E s \in active : Request(k, [op |-> "create", to |-> s])
BY DEF CreateRead, First

LEMMA AdvanceRequest ==
    ASSUME StageRows, NEW k \in Users, NEW s \in Stages, AdvanceRead(k, s)
    PROVE  /\ s \in active /\ project \in Stages /\ contract = "live"
           /\ Request(k, [op |-> "advance", from |-> project, to |-> s])
BY DEF AdvanceRead, After, StageRows

LEMMA StageRowsStep == StageRows /\ [StageNext]_stageVars => StageRows'
<1>. SUFFICES ASSUME StageRows, [StageNext]_stageVars PROVE StageRows'
    OBVIOUS
<1>1. CASE UNCHANGED stageVars
    BY <1>1 DEF StageRows, stageVars
<1>2. ASSUME NEW k \in Users, CreateRead(k) PROVE StageRows'
    <2>1. PICK s \in active : Request(k, [op |-> "create", to |-> s])
        BY <1>2, CreateRequest
    <2>2. [op |-> "create", to |-> s] \in Tasks
        BY DEF StageRows, Tasks
    <2>. QED  BY <2>1, <2>2, Requested
<1>3. ASSUME NEW k \in Users, CreateWrite(k) PROVE StageRows'
    <2>1. task[k].to \in Stages /\ task' \in [Users -> Tasks]
        BY <1>3, TaskShapes, Answered DEF CreateWrite
    <2>. QED  BY <1>3, <2>1 DEF CreateWrite, StageRows
<1>4. ASSUME NEW k \in Users, NEW s \in Stages, AdvanceRead(k, s) PROVE StageRows'
    <2>1. [op |-> "advance", from |-> project, to |-> s] \in Tasks
        BY <1>4, AdvanceRequest DEF Tasks
    <2>. QED  BY <1>4, <2>1, AdvanceRequest, Requested
<1>5. ASSUME NEW k \in Users, AdvanceWrite(k) PROVE StageRows'
    <2>1. task[k].to \in Stages /\ task' \in [Users -> Tasks]
        BY <1>5, TaskShapes, Answered DEF AdvanceWrite
    <2>. QED  BY <1>5, <2>1 DEF AdvanceWrite, Move, StageRows
<1>6. ASSUME NEW k \in Users, NEW s \in Stages, DeactivateRead(k, s) PROVE StageRows'
    <2>1. [op |-> "deactivate", stage |-> s] \in Tasks
        BY DEF Tasks
    <2>. QED  BY <1>6, <2>1, Requested DEF DeactivateRead
<1>7. ASSUME NEW k \in Users, DeactivateWrite(k) PROVE StageRows'
    BY <1>7, Answered DEF DeactivateWrite, StageRows
<1>8. ASSUME NEW s \in Stages, NEW n \in Places, Reorder(s, n) PROVE StageRows'
    BY <1>8 DEF Reorder, StageRows
<1>9. CASE EndLease \/ NextLease
    BY <1>9 DEF EndLease, NextLease, StageRows
<1>. QED
    BY <1>1, <1>2, <1>3, <1>4, <1>5, <1>6, <1>7, <1>8, <1>9 DEF StageNext

LEMMA StageRowsAlways == StageSpec => []StageRows
BY StageRowsInit, StageRowsStep, PTL DEF StageSpec

-----------------------------------------------------------------------------

\* Creating and advancing look at the project again in their transaction, so
\* nothing is assumed of what is under way.
THEOREM OneMilestoneIsOpen == StageSpec => []OneOpenMilestone
<1>1. StageInit => OneOpenMilestone
    BY StagesAssumption DEF StageInit, OneOpenMilestone
<1>2. StageRows /\ OneOpenMilestone /\ [StageNext]_stageVars => OneOpenMilestone'
    <2>. SUFFICES ASSUME StageRows, OneOpenMilestone, [StageNext]_stageVars
                  PROVE  OneOpenMilestone'
        OBVIOUS
    <2>. USE DEF OneOpenMilestone
    <2>1. CASE UNCHANGED <<project, milestone>>
        BY <2>1
    <2>2. ASSUME NEW k \in Users, CreateWrite(k) PROVE OneOpenMilestone'
        <3>1. task[k].to \in Stages
            BY <2>2, TaskShapes DEF CreateWrite
        <3>. QED  BY <2>2, <3>1, StagesAssumption DEF CreateWrite, StageRows
    <2>3. ASSUME NEW k \in Users, AdvanceWrite(k) PROVE OneOpenMilestone'
        <3>1. task[k].to \in Stages /\ task[k].from \in Stages
            BY <2>3, TaskShapes DEF AdvanceWrite
        <3>. QED  BY <2>3, <3>1, StagesAssumption DEF AdvanceWrite, Move, StageRows
    <2>. QED
        BY <2>1, <2>2, <2>3
           DEF StageNext, stageVars, CreateRead, AdvanceRead, DeactivateRead, Request,
               DeactivateWrite, Reorder, EndLease, NextLease
<1>. QED
    BY <1>1, <1>2, StageRowsAlways, PTL DEF StageSpec
-----------------------------------------------------------------------------
(* deactivate() counts the projects before it writes, outside of any       *)
(* transaction: that it is apart from create and advance is assumed.       *)

DeactivationIsApart ==
    {"create", "deactivate"} \in StageApart /\ {"advance", "deactivate"} \in StageApart

Moves == {"create", "advance"}

\* No stage in use, or about to be, is being deactivated.
ActiveInv ==
    /\ StageIsActive
    /\ \A k \in Users : task[k].op \in Moves => task[k].to \in active
    /\ \A k \in Users : task[k].op = "deactivate" =>
        /\ project # task[k].stage
        /\ \A j \in Users : task[j].op \notin Moves

LEMMA ActiveStep ==
    ASSUME DeactivationIsApart, StageRows, ActiveInv, [StageNext]_stageVars
    PROVE  ActiveInv'
<1>. USE DEF ActiveInv, StageIsActive, Moves
<1>1. CASE UNCHANGED <<active, project, task>>
    BY <1>1
<1>2. ASSUME NEW k \in Users, NEW c \in Tasks, Request(k, c), c.op \in Moves, c.to \in active
      PROVE  ActiveInv'
    <2>1. \A j \in Users : task[j].op # "deactivate"
        <3>1. \A j \in Users : task[j].op # "none" => {c.op, task[j].op} \notin StageApart
            BY <1>2, Requested
        <3>. QED  BY <1>2, <3>1 DEF DeactivationIsApart
    <2>. QED  BY <1>2, <2>1, Requested
<1>3. ASSUME NEW k \in Users, CreateRead(k) PROVE ActiveInv'
    <2>1. PICK s \in active : Request(k, [op |-> "create", to |-> s])
        BY <1>3, CreateRequest
    <2>2. [op |-> "create", to |-> s] \in Tasks
        BY DEF StageRows, Tasks
    <2>. QED  BY <1>2, <2>1, <2>2
<1>4. ASSUME NEW k \in Users, NEW s \in Stages, AdvanceRead(k, s) PROVE ActiveInv'
    <2>1. [op |-> "advance", from |-> project, to |-> s] \in Tasks
        BY <1>4, AdvanceRequest DEF Tasks
    <2>. QED  BY <1>2, <1>4, <2>1, AdvanceRequest
<1>5. ASSUME NEW k \in Users, CreateWrite(k) \/ AdvanceWrite(k) PROVE ActiveInv'
    <2>1. /\ active' = active /\ task[k].to \in active
          /\ project' = project \/ project' = task[k].to
          /\ task'[k] = NoTask /\ \A j \in Users \ {k} : task'[j] = task[j]
        BY <1>5, Answered DEF CreateWrite, AdvanceWrite, Move
    <2>2. task[k].op \in Moves
        BY <1>5 DEF CreateWrite, AdvanceWrite
    <2>. QED  BY <2>1, <2>2 DEF NoTask
<1>6. ASSUME NEW k \in Users, NEW s \in Stages, DeactivateRead(k, s) PROVE ActiveInv'
    <2>. DEFINE c == [op |-> "deactivate", stage |-> s]
    <2>1. c \in Tasks /\ Request(k, c) /\ project # s
        BY <1>6 DEF Tasks, DeactivateRead
    <2>2. \A j \in Users : task[j].op \notin Moves
        <3>1. \A j \in Users : task[j].op # "none" => {"deactivate", task[j].op} \notin StageApart
            BY <2>1, Requested
        <3>2. /\ {"deactivate", "create"} = {"create", "deactivate"}
              /\ {"deactivate", "advance"} = {"advance", "deactivate"}
            OBVIOUS
        <3>. QED  BY <3>1, <3>2 DEF DeactivationIsApart
    <2>. QED  BY <2>1, <2>2, Requested
<1>7. ASSUME NEW k \in Users, DeactivateWrite(k) PROVE ActiveInv'
    <2>1. /\ active' = active \ {task[k].stage} /\ project' = project
          /\ task[k].op = "deactivate"
          /\ task'[k] = NoTask /\ \A j \in Users \ {k} : task'[j] = task[j]
        BY <1>7, Answered DEF DeactivateWrite
    <2>. QED  BY <2>1 DEF NoTask
<1>. QED
    BY <1>1, <1>3, <1>4, <1>5, <1>6, <1>7
       DEF StageNext, stageVars, Reorder, EndLease, NextLease

\* A project stays at a stage it can advance from.
LEMMA ProjectStageIsActive ==
    ASSUME DeactivationIsApart
    PROVE  StageSpec => []StageIsActive
<1>1. StageInit => ActiveInv
    BY DEF StageInit, ActiveInv, StageIsActive, NoTask, Moves
<1>2. StageRows /\ ActiveInv /\ [StageNext]_stageVars => ActiveInv'
    BY ActiveStep
<1>3. ActiveInv => StageIsActive
    BY DEF ActiveInv
<1>. QED
    BY <1>1, <1>2, <1>3, StageRowsAlways, PTL DEF StageSpec

\* Both together: the stage of a project is active and its milestone is the
\* one that is open.
THEOREM StagesAlwaysAgree ==
    ASSUME DeactivationIsApart
    PROVE  StageSpec => []StagesAgree
<1>1. OneOpenMilestone /\ StageIsActive => StagesAgree
    BY DEF StagesAgree
<1>. QED
    BY <1>1, OneMilestoneIsOpen, ProjectStageIsActive, PTL
=============================================================================
