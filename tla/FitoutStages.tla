---------------------------- MODULE FitoutStages ----------------------------
(***************************************************************************)
(* One fit-out project and the configured stages it advances through       *)
(* (fitout.service.ts, fitout-sla.service.ts, fitout-stage-config.service.ts), *)
(* beside the contract it was made for and the unit of that contract.      *)
(*                                                                         *)
(* Creating a project and advancing it read first and write in a           *)
(* Serializable transaction that looks at the project again, but neither   *)
(* at the stages nor at the contract.  Whether the documents of a gate are *)
(* complete may be overridden and is left out, as are the dates.           *)
(***************************************************************************)
EXTENDS UnitStatus, Naturals

CONSTANTS
    Stages,      \* the codes that are configured
    Places,      \* the numbers upsert() may give a stage in the order
    Trigger,     \* the unit status a stage sets; "none" for the other stages
    Users,       \* requests that can be in flight, events among them
    StageApart   \* pairs of operations that are never under way together

ASSUME StagesAssumption == "none" \notin Stages
ASSUME PlacesAssumption == Places \subseteq Nat
ASSUME TriggerAssumption == Trigger \in [Stages -> UnitStatuses \cup {"none"}]

VARIABLES
    order,       \* the place of each stage in the order; places may be shared
    active,      \* those not deactivated
    project,     \* the stage of the project, "none" before there is one
    milestone,   \* each stage: "none", "open" or "done"
    contract,    \* the contract: "live", "over", or "next" when the unit has
                 \* another one since
    space,       \* the status of the unit
    task         \* what each request in flight has read

stageVars == <<order, active, project, milestone, contract, space, task>>

NoTask == [op |-> "none"]

\* Types; the project is at a stage that was configured.
StageTypeOK ==
    /\ order \in [Stages -> Places]
    /\ active \subseteq Stages
    /\ project \in Stages \cup {"none"}
    /\ milestone \in [Stages -> {"none", "open", "done"}]
    /\ contract \in {"live", "over", "next"} /\ space \in UnitStatuses
    /\ \A k \in Users : task[k].op \in {"none", "create", "advance", "deactivate"}

StageInit ==
    /\ order \in [Stages -> Places]
    /\ active = Stages
    /\ project = "none"
    /\ milestone = [s \in Stages |-> "none"]
    /\ contract = "live" /\ space = "CONTRACTED"
    /\ task = [k \in Users |-> NoTask]

-----------------------------------------------------------------------------

Request(k, call) ==
    /\ task[k] = NoTask
    /\ \A j \in Users : task[j].op # "none" => {call.op, task[j].op} \notin StageApart
    /\ task' = [task EXCEPT ![k] = call]
    /\ UNCHANGED <<order, active, project, milestone, contract, space>>

Answer(k) == task' = [task EXCEPT ![k] = NoTask]

\* Stages of getOrderedActive(), which sorts the active ones by their place:
\* those that may come first, and those that may come right after s.
First == {s \in active : \A t \in active : order[s] <= order[t]}

After(s) ==
    IF s \notin active THEN {}
    ELSE {t \in active \ {s} :
            /\ order[s] <= order[t]
            /\ \A u \in active : ~(order[s] < order[u] /\ order[u] < order[t])}

\* createFromContract(): contract.activated, delivered again or not.
CreateRead(k) ==
    /\ project = "none"
    /\ \E s \in First : Request(k, [op |-> "create", to |-> s])

CreateWrite(k) ==
    /\ task[k].op = "create"
    /\ IF project # "none" THEN UNCHANGED <<project, milestone>>
       ELSE /\ project' = task[k].to
            /\ milestone' = [milestone EXCEPT ![task[k].to] = "open"]
    /\ Answer(k) /\ UNCHANGED <<order, active, contract, space>>

\* advanceStatus(), to the stage after the present one.
AdvanceRead(k, to) ==
    /\ project # "none" /\ to \in After(project)
    /\ contract = "live"
    /\ Request(k, [op |-> "advance", from |-> project, to |-> to])

\* The unit cannot take the status of the stage: the transaction is undone.
Blocked(to) ==
    /\ Trigger[to] # "none"
    /\ ~TransitionAllowed(space, Trigger[to], contract # "over", FALSE)

Move(from, to) ==
    /\ space' = IF Trigger[to] = "none" THEN space ELSE Trigger[to]
    /\ project' = to
    /\ milestone' = [milestone EXCEPT ![from] = "done",
                                      ![to] = "open"]

\* Mutant of AdvanceWrite: the project is not looked at again.
AdvanceWriteBlindly(k) ==
    /\ task[k].op = "advance"
    /\ IF Blocked(task[k].to)
       THEN UNCHANGED <<project, milestone, space>>
       ELSE Move(task[k].from, task[k].to)
    /\ Answer(k) /\ UNCHANGED <<order, active, contract>>

\* A project that is not where it was read is left as it is: the request was
\* answered already, or is refused.
AdvanceWrite(k) ==
    /\ task[k].op = "advance"
    /\ IF project # task[k].from \/ Blocked(task[k].to)
       THEN UNCHANGED <<project, milestone, space>>
       ELSE Move(task[k].from, task[k].to)
    /\ Answer(k) /\ UNCHANGED <<order, active, contract>>

\* Mutant of DeactivateRead: stages in use can be deactivated.
DeactivateReadAny(k, s) == Request(k, [op |-> "deactivate", stage |-> s])

\* deactivate(): counts the projects at the stage first.
DeactivateRead(k, s) == project # s /\ Request(k, [op |-> "deactivate", stage |-> s])

DeactivateWrite(k) ==
    /\ task[k].op = "deactivate"
    /\ active' = active \ {task[k].stage}
    /\ Answer(k) /\ UNCHANGED <<order, project, milestone, contract, space>>

\* upsert() gives a stage another place in the order; isActive stays.
Reorder(s, place) ==
    /\ order' = [order EXCEPT ![s] = place]
    /\ UNCHANGED <<active, project, milestone, contract, space, task>>

\* The contracts module ends the contract, and later the unit has another.
EndLease ==
    /\ contract = "live"
    /\ contract' = "over" /\ space' = "VACANT"
    /\ UNCHANGED <<order, active, project, milestone, task>>

NextLease ==
    /\ contract = "over"
    /\ contract' = "next" /\ space' = "CONTRACTED"
    /\ UNCHANGED <<order, active, project, milestone, task>>

StageNext ==
    \/ \E k \in Users :
        \/ CreateRead(k) \/ CreateWrite(k)
        \/ \E s \in Stages : AdvanceRead(k, s) \/ DeactivateRead(k, s)
        \/ AdvanceWrite(k) \/ DeactivateWrite(k)
    \/ \E s \in Stages, place \in Places : Reorder(s, place)
    \/ EndLease \/ NextLease

StageSpec == StageInit /\ [][StageNext]_stageVars

-----------------------------------------------------------------------------
(* Properties.                                                             *)

\* The SLA job watches the open milestones: that of the stage a project is at
\* is open, and it is the only one, though requests that read an earlier
\* stage are still on their way and the order of the stages changes.
OneOpenMilestone == \A s \in Stages : milestone[s] = "open" <=> project = s

\* A project is never left at a stage that was deactivated, from which
\* advanceStatus() does not let it go on.
StageIsActive == project # "none" => project \in active

\* A project is at an active stage, and at no other by its milestones.
StagesAgree == OneOpenMilestone /\ StageIsActive
=============================================================================
