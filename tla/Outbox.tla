------------------------------- MODULE Outbox -------------------------------
(***************************************************************************)
(* The transactional outbox (common/services/outbox.service.ts): business  *)
(* transactions leave events in a table, and a job that runs every ten     *)
(* seconds under the scheduler lock hands them to the listeners.           *)
(***************************************************************************)
EXTENDS SchedulerLock, Sequences

CONSTANTS
    Events,  \* event keys
    Limit,   \* events taken by one batch
    Answers  \* how listeners end: "done", "threw"

ASSUME LimitAssumption == Limit \in Nat \ {0}

VARIABLES
    status,   \* the status column of the event, "NONE" before it is enqueued
    due,      \* is nextAttemptAt over?
    created,  \* the events in the order of createdAt
    batch,    \* the events a run has fetched and not yet dealt with
    emitted,  \* runs whose call of the listeners of the first of them is over
    answers   \* how the listeners of an event have ever ended: history

tableVars == <<status, due, created>>
workVars == <<batch, emitted>>
vars == <<holder, phase, lease, ledger, status, due, created, batch, emitted, answers>>

EventStatuses == {"NONE", "PENDING", "FAILED", "PROCESSED"}

Init ==
    /\ LockInit
    /\ status = [e \in Events |-> "NONE"]
    /\ due = [e \in Events |-> TRUE]
    /\ created = <<>>
    /\ batch = [r \in Runs |-> {}]
    /\ emitted = {}
    /\ answers = [e \in Events |-> {}]

\* Part of the transaction of the sender.  The upsert leaves a row that
\* exists as it is: an event happens once.
Enqueue(e) ==
    /\ status[e] = "NONE"
    /\ status' = [status EXCEPT ![e] = "PENDING"]
    /\ created' = Append(created, e)
    /\ UNCHANGED <<lockVars, workVars, due, answers>>

Older(e, f) ==
    \E i, j \in 1 .. Len(created) : i < j /\ created[i] = e /\ created[j] = f

\* Mutant of Ready: events that failed are not taken again.
ReadyPendingOnly == {e \in Events : status[e] = "PENDING" /\ due[e]}

Ready == {e \in Events : status[e] \in {"PENDING", "FAILED"} /\ due[e]}

\* The oldest ready events, as many as the batch may have.
IsBatch(fetched) ==
    /\ fetched \subseteq Ready
    /\ Cardinality(fetched) <= Limit
    /\ fetched # Ready => Cardinality(fetched) = Limit
    /\ \A e \in fetched, f \in Ready \ fetched : Older(e, f)

\* The backoff is at most five minutes.
BackoffEnds(e) ==
    /\ ~due[e]
    /\ due' = [due EXCEPT ![e] = TRUE]
    /\ UNCHANGED <<lockVars, workVars, status, created, answers>>

StartBatch(r) ==
    /\ Start(r)
    /\ \E fetched \in SUBSET Events :
          /\ IsBatch(fetched)
          /\ batch' = [batch EXCEPT ![r] = fetched]
    /\ UNCHANGED <<tableVars, emitted, answers>>

SkipBatch(r) == Skip(r) /\ UNCHANGED <<tableVars, workVars, answers>>

\* The loop goes through the batch from the oldest event to the youngest.
IsFirst(r, e) == e \in batch[r] /\ \A f \in batch[r] : ~Older(f, e)

\* emitAsync waits for every listener.  A listener may throw, but the event
\* emitter of Nest catches and logs that: to the batch all answers are alike.
Emit(r, e, answer) ==
    /\ phase[r] = "running" /\ IsFirst(r, e) /\ r \notin emitted
    /\ emitted' = emitted \cup {r}
    /\ answers' = [answers EXCEPT ![e] = @ \cup {answer}]
    /\ UNCHANGED <<lockVars, tableVars, batch>>

\* Mutant of Called: the row is written before the listeners are called.
CalledLater(r, e) == phase[r] = "running" /\ IsFirst(r, e)

Called(r, e) == phase[r] = "running" /\ IsFirst(r, e) /\ r \in emitted

\* The update names the row by its id alone: whatever another batch has
\* written to it since the fetch is overwritten.
Marked(r, e, new) ==
    /\ Called(r, e)
    /\ status' = [status EXCEPT ![e] = new]
    /\ due' = [due EXCEPT ![e] = new # "FAILED" /\ @]
    /\ batch' = [batch EXCEPT ![r] = @ \ {e}]
    /\ emitted' = emitted \ {r}
    /\ UNCHANGED <<lockVars, created, answers>>

MarkProcessed(r, e) == Marked(r, e, "PROCESSED")

\* The update to PROCESSED itself failed: nothing else throws here.
MarkFailed(r, e) == Marked(r, e, "FAILED")

\* The batch is through, or recording a failure failed and the rest of the
\* batch is dropped.
EndBatch(r) ==
    /\ \/ batch[r] = {} /\ Finish(r, "SUCCEEDED")
       \/ r \in emitted /\ Finish(r, "FAILED")
    /\ batch' = [batch EXCEPT ![r] = {}]
    /\ emitted' = emitted \ {r}
    /\ UNCHANGED <<tableVars, answers>>

ReleaseBatch(r) == Release(r) /\ UNCHANGED <<tableVars, workVars, answers>>

ExpireLock == Expire /\ UNCHANGED <<tableVars, workVars, answers>>

CrashBatch(r) ==
    /\ Crash(r)
    /\ batch' = [batch EXCEPT ![r] = {}]
    /\ emitted' = emitted \ {r}
    /\ UNCHANGED <<tableVars, answers>>

Next ==
    \/ \E e \in Events : Enqueue(e) \/ BackoffEnds(e)
    \/ \E r \in Runs, e \in Events :
          \/ \E answer \in Answers : Emit(r, e, answer)
          \/ MarkProcessed(r, e)
          \/ MarkFailed(r, e)
    \/ \E r \in Runs :
          \/ StartBatch(r)
          \/ SkipBatch(r)
          \/ EndBatch(r)
          \/ ReleaseBatch(r)
          \/ CrashBatch(r)
    \/ ExpireLock

Spec == Init /\ [][Next]_vars

\* The job is scheduled for ever, a run that does not crash goes on and a
\* key times out.  The failures end: instances do not crash for ever, and
\* neither Redis nor the database fail every time they are asked.
Fairness ==
    /\ WF_vars(ExpireLock)
    /\ \A e \in Events :
          /\ WF_vars(BackoffEnds(e))
          /\ SF_vars(\E r \in Runs : MarkProcessed(r, e))
    /\ \A r \in Runs :
          /\ SF_vars(StartBatch(r))
          /\ WF_vars(\E e \in Events, answer \in Answers : Emit(r, e, answer))
          /\ WF_vars(EndBatch(r))
          /\ WF_vars(ReleaseBatch(r))
    /\ <>[][\A r \in Runs : ~CrashBatch(r)]_vars

FairSpec == Spec /\ Fairness

-----------------------------------------------------------------------------
(* Properties.                                                             *)

\* The table has one row for each event key ever enqueued.
TypeOK ==
    /\ LockTypeOK
    /\ status \in [Events -> EventStatuses]
    /\ due \in [Events -> BOOLEAN]
    /\ created \in Seq(Events)
    /\ \A i \in 1 .. Len(created) : status[created[i]] # "NONE"
    /\ \A i, j \in 1 .. Len(created) : created[i] = created[j] => i = j
    /\ batch \in [Runs -> SUBSET Events]
    /\ emitted \subseteq Runs
    /\ answers \in [Events -> SUBSET Answers]

\* An event is PROCESSED only after its listeners were called to the end: no
\* crash, no overlapping batch, no lost lock and no failed update in between
\* makes the table forget a delivery that never took place.
ProcessedWasCalled == \A e \in Events : status[e] = "PROCESSED" => answers[e] # {}

\* An event is PROCESSED only after its listeners got through once without
\* throwing; one that throws makes the outbox mark the event FAILED and
\* deliver it again (fitout.service.ts:160-168).
ProcessedWasHandled == \A e \in Events : status[e] = "PROCESSED" => "done" \in answers[e]

\* Once PROCESSED an event is not handed out again.
ProcessedIsFinal ==
    [][\A e \in Events : status[e] = "PROCESSED" => status'[e] = "PROCESSED"]_vars

\* Every event enqueued is eventually delivered and its row PROCESSED, however
\* often runs crash, updates fail and locks are lost before that ends.
EventuallyProcessed == \A e \in Events : status[e] = "PENDING" ~> status[e] = "PROCESSED"
=============================================================================
