---------------------------- MODULE OutboxProofs ----------------------------
(* What the scheduler lock and the outbox guarantee, for any number of     *)
(* runs and events and any batch size.                                     *)
EXTENDS Outbox, FiniteSetTheorems, TLAPS

-----------------------------------------------------------------------------
(* The lock.  Its steps, whatever they do to the outbox at the same time:  *)

LockStep ==
    \/ \E r \in Runs : Start(r) \/ Skip(r) \/ Release(r) \/ Crash(r)
    \/ \E r \in Runs : Finish(r, "SUCCEEDED") \/ Finish(r, "FAILED")
    \/ Expire
    \/ UNCHANGED lockVars

LEMMA NextIsLockStep ==
    ASSUME [Next]_vars
    PROVE  LockStep
<1>1. ASSUME NEW e \in Events, Enqueue(e) \/ BackoffEnds(e)
      PROVE  LockStep
  BY <1>1 DEF Enqueue, BackoffEnds, LockStep
<1>2. ASSUME NEW r \in Runs, NEW e \in Events,
             \/ \E answer \in Answers : Emit(r, e, answer)
             \/ MarkProcessed(r, e)
             \/ MarkFailed(r, e)
      PROVE  LockStep
  BY <1>2 DEF Emit, MarkProcessed, MarkFailed, Marked, LockStep
<1>3. ASSUME NEW r \in Runs,
             StartBatch(r) \/ SkipBatch(r) \/ EndBatch(r) \/ ReleaseBatch(r) \/ CrashBatch(r)
      PROVE  LockStep
  BY <1>3 DEF StartBatch, SkipBatch, EndBatch, ReleaseBatch, CrashBatch, LockStep
<1>4. CASE ExpireLock
  BY <1>4 DEF ExpireLock, LockStep
<1>5. CASE UNCHANGED vars
  BY <1>5 DEF vars, lockVars, LockStep
<1> QED
  BY <1>1, <1>2, <1>3, <1>4, <1>5 DEF Next

LEMMA LockTypeStep ==
    ASSUME LockTypeOK, LockStep
    PROVE  LockTypeOK'
<1> USE NoRunAssumption, SwitchesAssumption
<1>1. ASSUME NEW r \in Runs, Start(r)
      PROVE  LockTypeOK'
  BY <1>1 DEF LockTypeOK, Start, Record, LedgerStatuses
<1>2. ASSUME NEW r \in Runs, Skip(r)
      PROVE  LockTypeOK'
  BY <1>2 DEF LockTypeOK, Skip, Record, LedgerStatuses
<1>3. ASSUME NEW r \in Runs, Release(r) \/ Crash(r)
      PROVE  LockTypeOK'
  BY <1>3 DEF LockTypeOK, Release, Crash
<1>4. ASSUME NEW r \in Runs, Finish(r, "SUCCEEDED") \/ Finish(r, "FAILED")
      PROVE  LockTypeOK'
  BY <1>4 DEF LockTypeOK, Finish, LedgerStatuses
<1>5. CASE Expire
  BY <1>5 DEF LockTypeOK, Expire
<1>6. CASE UNCHANGED lockVars
  BY <1>6 DEF LockTypeOK, lockVars
<1> QED
  BY <1>1, <1>2, <1>3, <1>4, <1>5, <1>6 DEF LockStep

\* A run whose lock has not timed out is the one named by the key.
LeaseIsHeld == \A r \in Runs : lease[r] => holder = r

LEMMA LeaseStep ==
    ASSUME LockTypeOK, LeaseIsHeld, LockStep
    PROVE  LeaseIsHeld'
<1> USE NoRunAssumption, SwitchesAssumption DEF LeaseIsHeld, LockTypeOK
<1>1. ASSUME NEW r \in Runs, Start(r)
      PROVE  LeaseIsHeld'
  BY <1>1 DEF Start
<1>2. ASSUME NEW r \in Runs, Skip(r)
      PROVE  LeaseIsHeld'
  BY <1>2 DEF Skip
<1>3. ASSUME NEW r \in Runs, Release(r)
      PROVE  LeaseIsHeld'
  <2> SUFFICES ASSUME NEW q \in Runs, lease'[q]
               PROVE  holder' = q
    OBVIOUS
  <2>1. CASE q = r
    BY <1>3, <2>1 DEF Release
  <2>2. CASE q # r
    <3>1. lease[q] /\ holder = q
      BY <1>3, <2>2 DEF Release
    <3> QED
      BY <1>3, <2>2, <3>1 DEF Release
  <2> QED
    BY <2>1, <2>2
<1>7. ASSUME NEW r \in Runs, Crash(r)
      PROVE  LeaseIsHeld'
  BY <1>7 DEF Crash
<1>4. ASSUME NEW r \in Runs, Finish(r, "SUCCEEDED") \/ Finish(r, "FAILED")
      PROVE  LeaseIsHeld'
  BY <1>4 DEF Finish
<1>5. CASE Expire
  BY <1>5 DEF Expire
<1>6. CASE UNCHANGED lockVars
  BY <1>6 DEF lockVars
<1> QED
  BY <1>1, <1>2, <1>3, <1>4, <1>5, <1>6, <1>7 DEF LockStep

LEMMA LockStart ==
    ASSUME Init
    PROVE  LockTypeOK /\ LeaseIsHeld
BY NoRunAssumption DEF Init, LockInit, LockTypeOK, LeaseIsHeld, LedgerStatuses

\* While the lock of a run has not timed out no other run gets going,
\* whatever crashes, times out late or is not answered by Redis.
THEOREM LockIsExclusive == Spec => []LeaseIsExclusive
<1>1. Init => LockTypeOK /\ LeaseIsHeld
  BY LockStart
<1>2. LockTypeOK /\ LeaseIsHeld /\ [Next]_vars => LockTypeOK' /\ LeaseIsHeld'
  BY NextIsLockStep, LockTypeStep, LeaseStep
<1>3. LockTypeOK /\ LeaseIsHeld => LeaseIsExclusive
  BY DEF LockTypeOK, LeaseIsHeld, LeaseIsExclusive, Busy
<1> QED
  BY <1>1, <1>2, <1>3, PTL DEF Spec

-----------------------------------------------------------------------------
(* Without overruns the lock does what it is there for.                    *)

InTime == RedisEnabled /\ ~MayOverrun

BusyHolds == \A r \in Runs : phase[r] # "idle" => holder = r

LEMMA BusyStep ==
    ASSUME InTime, LockTypeOK, BusyHolds, LockStep
    PROVE  BusyHolds'
<1> USE NoRunAssumption DEF BusyHolds, LockTypeOK, InTime
<1>1. ASSUME NEW r \in Runs, Start(r)
      PROVE  BusyHolds'
  BY <1>1 DEF Start
<1>2. ASSUME NEW r \in Runs, Skip(r)
      PROVE  BusyHolds'
  BY <1>2 DEF Skip
<1>3. ASSUME NEW r \in Runs, Release(r) \/ Crash(r)
      PROVE  BusyHolds'
  BY <1>3 DEF Release, Crash
<1>4. ASSUME NEW r \in Runs, Finish(r, "SUCCEEDED") \/ Finish(r, "FAILED")
      PROVE  BusyHolds'
  BY <1>4 DEF Finish
<1>5. CASE Expire
  BY <1>5 DEF Expire
<1>6. CASE UNCHANGED lockVars
  BY <1>6 DEF lockVars
<1> QED
  BY <1>1, <1>2, <1>3, <1>4, <1>5, <1>6 DEF LockStep

LEMMA BusyStart ==
    ASSUME Init
    PROVE  BusyHolds
BY DEF Init, LockInit, BusyHolds

\* If every run ends within the time to live of its lock, runs of one job
\* never overlap.
THEOREM RunsAreSerial == InTime => (Spec => []RunsNeverOverlap)
<1> SUFFICES ASSUME InTime
             PROVE  Spec => []RunsNeverOverlap
  OBVIOUS
<1>1. Init => LockTypeOK /\ BusyHolds
  BY LockStart, BusyStart
<1>2. LockTypeOK /\ BusyHolds /\ [Next]_vars => LockTypeOK' /\ BusyHolds'
  BY NextIsLockStep, LockTypeStep, BusyStep
<1>3. LockTypeOK /\ BusyHolds => RunsNeverOverlap
  <2> SUFFICES ASSUME BusyHolds
               PROVE  Cardinality(Busy) <= 1
    BY DEF RunsNeverOverlap
  <2>1. Busy \subseteq {holder}
    BY DEF Busy, BusyHolds
  <2>2. IsFiniteSet({holder}) /\ Cardinality({holder}) = 1
    BY FS_Singleton
  <2> QED
    BY <2>1, <2>2, FS_Subset
<1> QED
  BY <1>1, <1>2, <1>3, PTL DEF Spec
-----------------------------------------------------------------------------
(* The table.                                                              *)

\* Appending to a sequence, index by index.
LEMMA Appended ==
    ASSUME NEW S, NEW s \in Seq(S), NEW e \in S
    PROVE  /\ Append(s, e) \in Seq(S)
           /\ Len(Append(s, e)) = Len(s) + 1
           /\ \A i \in 1 .. Len(s) : Append(s, e)[i] = s[i]
           /\ Append(s, e)[Len(s) + 1] = e
OBVIOUS

LEMMA TypeStep ==
    ASSUME TypeOK, [Next]_vars
    PROVE  TypeOK'
<1>0. LockTypeOK'
  BY NextIsLockStep, LockTypeStep DEF TypeOK
<1>1. ASSUME NEW e \in Events, Enqueue(e)
      PROVE  TypeOK'
  <2>1. /\ created' \in Seq(Events)
        /\ Len(created') = Len(created) + 1
        /\ \A i \in 1 .. Len(created) : created'[i] = created[i]
        /\ created'[Len(created) + 1] = e
        /\ Len(created) \in Nat
    BY <1>1, Appended DEF Enqueue, TypeOK
  <2>2. \A i \in 1 .. Len(created) : created[i] # e
    BY <1>1 DEF Enqueue, TypeOK
  <2>3. (\A i \in 1 .. Len(created) : status[created[i]] # "NONE")'
    BY <1>1, <2>1 DEF Enqueue, TypeOK, EventStatuses
  <2>4. (\A i, j \in 1 .. Len(created) : created[i] = created[j] => i = j)'
    BY <2>1, <2>2 DEF TypeOK
  <2>5. /\ (status \in [Events -> EventStatuses])'
        /\ UNCHANGED <<due, batch, emitted, answers>>
    BY <1>1 DEF Enqueue, workVars, TypeOK, EventStatuses
  <2> QED
    BY <1>0, <2>1, <2>3, <2>4, <2>5 DEF TypeOK
<1>2. ASSUME NEW e \in Events, BackoffEnds(e)
      PROVE  TypeOK'
  BY <1>0, <1>2 DEF BackoffEnds, TypeOK, workVars
<1>3. ASSUME NEW r \in Runs, NEW e \in Events, NEW answer \in Answers,
             Emit(r, e, answer)
      PROVE  TypeOK'
  BY <1>0, <1>3 DEF Emit, TypeOK, tableVars
<1>4. ASSUME NEW r \in Runs, NEW e \in Events, NEW new \in {"PROCESSED", "FAILED"},
             Marked(r, e, new)
      PROVE  TypeOK'
  <2>1. /\ (status \in [Events -> EventStatuses])'
        /\ (due \in [Events -> BOOLEAN])'
        /\ (batch \in [Runs -> SUBSET Events])'
        /\ (emitted \subseteq Runs)'
        /\ created' = created /\ answers' = answers
    BY <1>4 DEF Marked, TypeOK, EventStatuses
  <2>2. \A f \in Events : status[f] # "NONE" => status'[f] # "NONE"
    BY <1>4 DEF Marked, TypeOK, EventStatuses
  <2>3. \A i \in 1 .. Len(created) : created[i] \in Events
    BY DEF TypeOK
  <2>4. (\A i \in 1 .. Len(created) : status[created[i]] # "NONE")'
    BY <2>1, <2>2, <2>3 DEF TypeOK
  <2> QED
    BY <1>0, <2>1, <2>4 DEF TypeOK
<1>5. ASSUME NEW r \in Runs, StartBatch(r) \/ EndBatch(r) \/ CrashBatch(r)
      PROVE  TypeOK'
  <2>1. /\ (batch \in [Runs -> SUBSET Events])'
        /\ (emitted \subseteq Runs)'
        /\ UNCHANGED <<status, due, created, answers>>
    BY <1>5 DEF StartBatch, EndBatch, CrashBatch, TypeOK, tableVars
  <2> QED
    BY <1>0, <2>1 DEF TypeOK
<1>6. ASSUME UNCHANGED <<status, due, created, batch, emitted, answers>>
      PROVE  TypeOK'
  BY <1>0, <1>6 DEF TypeOK
<1> QED
  BY <1>1, <1>2, <1>3, <1>4, <1>5, <1>6
     DEF Next, MarkProcessed, MarkFailed, SkipBatch, ReleaseBatch, ExpireLock, vars,
         tableVars, workVars

LEMMA TypeStart ==
    ASSUME Init
    PROVE  TypeOK
<1>1. <<>> \in Seq(Events) /\ Len(<<>>) = 0
  OBVIOUS
<1> QED
  BY <1>1, LockStart DEF Init, TypeOK, EventStatuses

\* The variables keep their types, and the table never gets a second row for
\* an event key.
THEOREM TypeCorrect == Spec => []TypeOK
<1>1. TypeOK /\ [Next]_vars => TypeOK'
  BY TypeStep
<1> QED
  BY <1>1, TypeStart, PTL DEF Spec
-----------------------------------------------------------------------------
(* No row claims more than was done.                                       *)

Enqueued(e) == \E i \in 1 .. Len(created) : created[i] = e

\* Every row has its place in the order of the table, and batches are made
\* of rows.
RowsAreOrdered ==
    /\ \A e \in Events : status[e] # "NONE" => Enqueued(e)
    /\ \A r \in Runs : \A e \in batch[r] : status[e] # "NONE"

\* When a run has emitted the first event of its batch, that event is answered.
EmittedIsAnswered ==
    \A r \in emitted, e \in Events : IsFirst(r, e) => answers[e] # {}

\* Only a run under way has an event half dealt with.
OnlyRunsEmit == \A r \in emitted : phase[r] = "running"

\* The inductive invariant: a row is marked after the run has emitted the
\* event, possibly many steps later, and by then what was emitted must still
\* be this very event.
CalledInv ==
    TypeOK /\ RowsAreOrdered /\ OnlyRunsEmit /\ EmittedIsAnswered /\ ProcessedWasCalled

LEMMA FirstIsUnique ==
    ASSUME TypeOK, RowsAreOrdered, NEW r \in Runs, NEW e, NEW f,
           IsFirst(r, e), IsFirst(r, f)
    PROVE  e = f
<1>1. Enqueued(e) /\ Enqueued(f)
  BY DEF TypeOK, RowsAreOrdered, IsFirst
<1>2. PICK i \in 1 .. Len(created), j \in 1 .. Len(created) : created[i] = e /\ created[j] = f
  BY <1>1 DEF Enqueued
<1>3. ~(i < j) /\ ~(j < i)
  BY <1>2 DEF IsFirst, Older
<1> QED
  BY <1>2, <1>3 DEF TypeOK

LEMMA OrderedStep ==
    ASSUME TypeOK, RowsAreOrdered, [Next]_vars
    PROVE  RowsAreOrdered'
<1>1. ASSUME NEW e \in Events, Enqueue(e)
      PROVE  RowsAreOrdered'
  <2>1. /\ Len(created') = Len(created) + 1
        /\ \A i \in 1 .. Len(created) : created'[i] = created[i]
        /\ created'[Len(created) + 1] = e
        /\ Len(created) \in Nat
    BY <1>1, Appended DEF Enqueue, TypeOK
  <2>2. \A f \in Events : Enqueued(f) => Enqueued(f)'
    BY <2>1 DEF Enqueued
  <2>3. Enqueued(e)'
    BY <2>1 DEF Enqueued
  <2>4. /\ \A f \in Events : f # e => status'[f] = status[f]
        /\ status'[e] = "PENDING" /\ batch' = batch
    BY <1>1 DEF Enqueue, workVars, TypeOK
  <2> QED
    BY <2>2, <2>3, <2>4 DEF RowsAreOrdered, TypeOK
<1>2. ASSUME UNCHANGED <<status, created>>,
             \A r \in Runs : batch'[r] \subseteq batch[r] \/ batch'[r] \subseteq Ready
      PROVE  RowsAreOrdered'
  BY <1>2 DEF RowsAreOrdered, Enqueued, Ready
<1>3. ASSUME NEW r \in Runs, NEW e \in Events, NEW new \in {"PROCESSED", "FAILED"},
             Marked(r, e, new)
      PROVE  RowsAreOrdered'
  <2>1. /\ \A f \in Events : status'[f] # "NONE" <=> status[f] # "NONE"
        /\ \A q \in Runs : batch'[q] \subseteq batch[q]
        /\ created' = created
    BY <1>3 DEF Marked, Called, IsFirst, RowsAreOrdered, TypeOK
  <2> QED
    BY <2>1 DEF RowsAreOrdered, Enqueued, TypeOK
<1>4. ASSUME NEW r \in Runs, StartBatch(r) \/ EndBatch(r) \/ CrashBatch(r)
      PROVE  RowsAreOrdered'
  <2>1. /\ UNCHANGED <<status, created>>
        /\ \A q \in Runs : batch'[q] \subseteq batch[q] \/ batch'[q] \subseteq Ready
    BY <1>4 DEF StartBatch, EndBatch, CrashBatch, IsBatch, tableVars, TypeOK
  <2> QED
    BY <1>2, <2>1
<1> QED
  BY <1>1, <1>2, <1>3, <1>4
     DEF Next, BackoffEnds, Emit, MarkProcessed, MarkFailed, SkipBatch, ReleaseBatch,
         ExpireLock, vars, tableVars, workVars

LEMMA OnlyRunsEmitStep ==
    ASSUME TypeOK, OnlyRunsEmit, [Next]_vars
    PROVE  OnlyRunsEmit'
<1> USE DEF TypeOK, LockTypeOK, OnlyRunsEmit
<1>1. ASSUME NEW e \in Events, Enqueue(e) \/ BackoffEnds(e)
      PROVE  OnlyRunsEmit'
  BY <1>1 DEF Enqueue, BackoffEnds, lockVars, workVars
<1>2. ASSUME NEW r \in Runs, NEW e \in Events,
             \/ \E answer \in Answers : Emit(r, e, answer)
             \/ \E new \in {"PROCESSED", "FAILED"} : Marked(r, e, new)
      PROVE  OnlyRunsEmit'
  BY <1>2 DEF Emit, Marked, Called, lockVars
<1>3. ASSUME NEW r \in Runs, EndBatch(r) \/ CrashBatch(r)
      PROVE  OnlyRunsEmit'
  BY <1>3 DEF EndBatch, Finish, CrashBatch, Crash
<1>4. ASSUME NEW r \in Runs, StartBatch(r) \/ SkipBatch(r) \/ ReleaseBatch(r)
      PROVE  OnlyRunsEmit'
  BY <1>4 DEF StartBatch, Start, SkipBatch, Skip, ReleaseBatch, Release, workVars
<1>5. CASE ExpireLock \/ UNCHANGED vars
  BY <1>5 DEF ExpireLock, Expire, vars, workVars
<1> QED
  BY <1>1, <1>2, <1>3, <1>4, <1>5 DEF Next, MarkProcessed, MarkFailed

LEMMA AnsweredStep ==
    ASSUME CalledInv, [Next]_vars
    PROVE  EmittedIsAnswered'
<1> USE DEF CalledInv
<1>1. ASSUME NEW e \in Events, Enqueue(e)
      PROVE  EmittedIsAnswered'
  <2>1. /\ Len(created') = Len(created) + 1
        /\ \A i \in 1 .. Len(created) : created'[i] = created[i]
        /\ Len(created) \in Nat
    BY <1>1, Appended DEF Enqueue, TypeOK
  <2>2. \A f, g \in Events : Older(f, g) => Older(f, g)'
    BY <2>1 DEF Older
  <2>3. \A r \in Runs, f \in Events : IsFirst(r, f)' => IsFirst(r, f)
    BY <1>1, <2>2 DEF Enqueue, workVars, IsFirst, TypeOK
  <2> QED
    BY <1>1, <2>3 DEF Enqueue, workVars, EmittedIsAnswered, TypeOK
<1>2. ASSUME NEW r \in Runs, NEW e \in Events, NEW answer \in Answers,
             Emit(r, e, answer)
      PROVE  EmittedIsAnswered'
  <2> SUFFICES ASSUME NEW q \in emitted', NEW f \in Events, IsFirst(q, f)'
               PROVE  answers'[f] # {}
    BY DEF EmittedIsAnswered
  <2>1. IsFirst(q, f) /\ answers[f] \subseteq answers'[f] /\ q \in Runs
    BY <1>2 DEF Emit, tableVars, IsFirst, Older, TypeOK
  <2>2. CASE q = r
    <3>1. f = e
      BY <1>2, <2>1, <2>2, FirstIsUnique DEF Emit
    <3> QED
      BY <1>2, <3>1 DEF Emit, TypeOK
  <2>3. CASE q # r
    <3>1. q \in emitted
      BY <1>2, <2>3 DEF Emit
    <3> QED
      BY <2>1, <3>1 DEF EmittedIsAnswered
  <2> QED
    BY <2>2, <2>3
<1>3. ASSUME UNCHANGED <<created, answers>>,
             \A r \in emitted' : r \in emitted /\ batch'[r] = batch[r]
      PROVE  EmittedIsAnswered'
  BY <1>3 DEF EmittedIsAnswered, IsFirst, Older
<1>4. ASSUME NEW r \in Runs, StartBatch(r)
      PROVE  EmittedIsAnswered'
  <2>1. r \notin emitted' /\ UNCHANGED <<created, answers, emitted>>
    BY <1>4 DEF StartBatch, Start, tableVars, OnlyRunsEmit
  <2>2. \A q \in emitted' : q \in emitted /\ batch'[q] = batch[q]
    BY <1>4, <2>1 DEF StartBatch, TypeOK
  <2> QED
    BY <1>3, <2>1, <2>2
<1>5. ASSUME NEW r \in Runs, NEW e \in Events, NEW new \in {"PROCESSED", "FAILED"},
             Marked(r, e, new)
      PROVE  EmittedIsAnswered'
  <2>1. /\ UNCHANGED <<created, answers>>
        /\ \A q \in emitted' : q \in emitted /\ batch'[q] = batch[q]
    BY <1>5 DEF Marked, TypeOK
  <2> QED
    BY <1>3, <2>1
<1>6. ASSUME NEW r \in Runs, EndBatch(r) \/ CrashBatch(r)
      PROVE  EmittedIsAnswered'
  <2>1. /\ UNCHANGED <<created, answers>>
        /\ \A q \in emitted' : q \in emitted /\ batch'[q] = batch[q]
    BY <1>6 DEF EndBatch, CrashBatch, tableVars, TypeOK
  <2> QED
    BY <1>3, <2>1
<1> QED
  BY <1>1, <1>2, <1>3, <1>4, <1>5, <1>6
     DEF Next, BackoffEnds, MarkProcessed, MarkFailed, SkipBatch, ReleaseBatch,
         ExpireLock, vars, tableVars, workVars

LEMMA ProcessedStep ==
    ASSUME CalledInv, [Next]_vars
    PROVE  ProcessedWasCalled'
<1> USE DEF CalledInv, ProcessedWasCalled
<1>1. ASSUME NEW e \in Events, Enqueue(e)
      PROVE  ProcessedWasCalled'
  BY <1>1 DEF Enqueue, TypeOK
<1>2. ASSUME NEW r \in Runs, NEW e \in Events, MarkProcessed(r, e)
      PROVE  ProcessedWasCalled'
  BY <1>2 DEF MarkProcessed, Marked, Called, EmittedIsAnswered, TypeOK
<1>3. ASSUME NEW r \in Runs, NEW e \in Events, MarkFailed(r, e)
      PROVE  ProcessedWasCalled'
  BY <1>3 DEF MarkFailed, Marked, TypeOK
<1>4. ASSUME status' = status, \A e \in Events : answers[e] \subseteq answers'[e]
      PROVE  ProcessedWasCalled'
  BY <1>4
<1>5. ASSUME NEW r \in Runs, NEW e \in Events, NEW answer \in Answers,
             Emit(r, e, answer)
      PROVE  ProcessedWasCalled'
  BY <1>4, <1>5 DEF Emit, tableVars, TypeOK
<1> QED
  BY <1>1, <1>2, <1>3, <1>4, <1>5
     DEF Next, BackoffEnds, StartBatch, SkipBatch, EndBatch, CrashBatch, ReleaseBatch,
         ExpireLock, vars, tableVars, workVars

LEMMA CalledStart ==
    ASSUME Init
    PROVE  CalledInv
<1>1. emitted = {} /\ \A r \in Runs : batch[r] = {}
  BY DEF Init
<1>2. \A e \in Events : status[e] = "NONE"
  BY DEF Init
<1> QED
  BY <1>1, <1>2, TypeStart
     DEF CalledInv, RowsAreOrdered, OnlyRunsEmit, EmittedIsAnswered, ProcessedWasCalled

\* A row is PROCESSED only after the listeners of its event were called to
\* the end, with or without a lock, whatever overlaps, fails or crashes.
THEOREM ProcessedMeansCalled == Spec => []ProcessedWasCalled
<1>1. CalledInv /\ [Next]_vars => CalledInv'
  BY TypeStep, OrderedStep, OnlyRunsEmitStep, AnsweredStep, ProcessedStep DEF CalledInv
<1>2. CalledInv => ProcessedWasCalled
  BY DEF CalledInv
<1> QED
  BY <1>1, <1>2, CalledStart, PTL DEF Spec

-----------------------------------------------------------------------------
(* Without overruns no event is handed out after it was processed.         *)

\* What a run has fetched is still to be done.
BatchIsOpen ==
    \A r \in Runs : \A e \in batch[r] :
        phase[r] = "running" /\ status[e] \in {"PENDING", "FAILED"}

SerialInv == TypeOK /\ BusyHolds /\ BatchIsOpen

LEMMA OpenStep ==
    ASSUME SerialInv, [Next]_vars
    PROVE  BatchIsOpen'
<1> USE DEF SerialInv, BatchIsOpen, TypeOK, LockTypeOK
<1>1. ASSUME NEW e \in Events, Enqueue(e) \/ BackoffEnds(e)
      PROVE  BatchIsOpen'
  BY <1>1 DEF Enqueue, BackoffEnds, lockVars, workVars
<1>2. ASSUME NEW r \in Runs, NEW e \in Events, NEW answer \in Answers,
             Emit(r, e, answer)
      PROVE  BatchIsOpen'
  BY <1>2 DEF Emit, lockVars, tableVars
<1>3. ASSUME NEW r \in Runs, NEW e \in Events, NEW new \in {"PROCESSED", "FAILED"},
             Marked(r, e, new)
      PROVE  BatchIsOpen'
  <2> SUFFICES ASSUME NEW q \in Runs, NEW f \in batch'[q]
               PROVE  phase'[q] = "running" /\ status'[f] \in {"PENDING", "FAILED"}
    OBVIOUS
  <2>1. f \in batch[q] /\ phase[q] = "running" /\ phase[r] = "running"
    BY <1>3 DEF Marked, Called
  <2>2. q = r
    BY <2>1 DEF BusyHolds
  <2>3. f # e
    BY <1>3, <2>2 DEF Marked
  <2> QED
    BY <1>3, <2>1, <2>3 DEF Marked, lockVars
<1>4. ASSUME NEW r \in Runs, StartBatch(r)
      PROVE  BatchIsOpen'
  BY <1>4 DEF StartBatch, Start, IsBatch, Ready, tableVars
<1>5. ASSUME NEW r \in Runs, EndBatch(r) \/ CrashBatch(r)
      PROVE  BatchIsOpen'
  BY <1>5 DEF EndBatch, Finish, CrashBatch, Crash, tableVars
<1>6. ASSUME NEW r \in Runs, SkipBatch(r)
      PROVE  BatchIsOpen'
  BY <1>6 DEF SkipBatch, Skip, tableVars, workVars
<1>7. ASSUME NEW r \in Runs, ReleaseBatch(r)
      PROVE  BatchIsOpen'
  BY <1>7 DEF ReleaseBatch, Release, tableVars, workVars
<1>8. CASE ExpireLock \/ UNCHANGED vars
  BY <1>8 DEF ExpireLock, Expire, vars, tableVars, workVars
<1> QED
  BY <1>1, <1>2, <1>3, <1>4, <1>5, <1>6, <1>7, <1>8 DEF Next, MarkProcessed, MarkFailed

LEMMA FinalStep ==
    ASSUME SerialInv, [Next]_vars
    PROVE  \A e \in Events : status[e] = "PROCESSED" => status'[e] = "PROCESSED"
<1> USE DEF SerialInv, TypeOK
<1>1. ASSUME NEW r \in Runs, NEW e \in Events, NEW new \in {"PROCESSED", "FAILED"},
             Marked(r, e, new), NEW f \in Events, status[f] = "PROCESSED"
      PROVE  status'[f] = "PROCESSED"
  <2>1. f # e
    BY <1>1 DEF Marked, Called, IsFirst, BatchIsOpen
  <2> QED
    BY <1>1, <2>1 DEF Marked
<1>2. ASSUME NEW e \in Events, Enqueue(e), NEW f \in Events, status[f] = "PROCESSED"
      PROVE  status'[f] = "PROCESSED"
  BY <1>2 DEF Enqueue
<1> QED
  BY <1>1, <1>2
     DEF Next, MarkProcessed, MarkFailed, BackoffEnds, Emit, StartBatch, SkipBatch,
         EndBatch, CrashBatch, ReleaseBatch, ExpireLock, vars, tableVars, workVars

\* If every batch ends within the time to live of its lock, an event that is
\* PROCESSED stays so: it is not delivered again.
THEOREM ProcessedStays == InTime => (Spec => ProcessedIsFinal)
<1> SUFFICES ASSUME InTime
             PROVE  Spec => ProcessedIsFinal
  OBVIOUS
<1>1. Init => SerialInv
  BY TypeStart, BusyStart DEF SerialInv, BatchIsOpen, Init
<1>2. SerialInv /\ [Next]_vars => SerialInv'
  BY TypeStep, NextIsLockStep, BusyStep, OpenStep DEF SerialInv, TypeOK
<1>3. SerialInv /\ [Next]_vars =>
        [\A e \in Events : status[e] = "PROCESSED" => status'[e] = "PROCESSED"]_vars
  BY FinalStep
<1> QED
  BY <1>1, <1>2, <1>3, PTL DEF Spec, ProcessedIsFinal
=============================================================================
