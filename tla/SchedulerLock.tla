---------------------------- MODULE SchedulerLock ----------------------------
(***************************************************************************)
(* The lock every scheduled job runs under                                 *)
(* (common/services/scheduler-lock.service.ts over redis.service.ts), for  *)
(* one job name.  A run is one execution of the job on some instance; the  *)
(* lock is a Redis key that holds the token of a run and disappears when   *)
(* its time to live is over, whether or not the run is.                    *)
(*                                                                         *)
(* The token is a random UUID, different for each execution: here it is    *)
(* the run itself, which takes the lock again only after the key is gone.  *)
(***************************************************************************)
EXTENDS Naturals, FiniteSets

CONSTANTS
    Runs,          \* executions of the job that can be under way at once
    NoRun,         \* the key is absent
    RedisEnabled,  \* without Redis the job runs without a lock
    MayOverrun     \* can a run take longer than the time to live of its lock?

ASSUME NoRunAssumption == NoRun \notin Runs
ASSUME SwitchesAssumption == RedisEnabled \in BOOLEAN /\ MayOverrun \in BOOLEAN

VARIABLES
    holder,  \* the run whose token the key holds, or NoRun
    phase,   \* "idle", "running" its task, or "ending": it still has to release
    lease,   \* is the time to live of the run's lock not over yet?
    ledger   \* the JobExecution row of the run's latest execution

lockVars == <<holder, phase, lease, ledger>>

\* A row is missing when writing it failed.
LedgerStatuses == {"NONE", "RUNNING", "SUCCEEDED", "FAILED", "SKIPPED_LOCKED"}

\* Types of the key, the runs and the ledger.
LockTypeOK ==
    /\ holder \in Runs \cup {NoRun}
    /\ phase \in [Runs -> {"idle", "running", "ending"}]
    /\ lease \in [Runs -> BOOLEAN]
    /\ ledger \in [Runs -> LedgerStatuses]

LockInit ==
    /\ holder = NoRun
    /\ phase = [r \in Runs |-> "idle"]
    /\ lease = [r \in Runs |-> FALSE]
    /\ ledger = [r \in Runs |-> "NONE"]

\* Writing the ledger is best effort.
Record(r, status) ==
    \E row \in {status, "NONE"} : ledger' = [ledger EXCEPT ![r] = row]

\* SET key token PX ttl NX succeeds, or there is no Redis at all.
Start(r) ==
    /\ phase[r] = "idle"
    /\ RedisEnabled => holder = NoRun
    /\ holder' = IF RedisEnabled THEN r ELSE holder
    /\ lease' = [lease EXCEPT ![r] = RedisEnabled]
    /\ phase' = [phase EXCEPT ![r] = "running"]
    /\ Record(r, "RUNNING")

\* The lock is taken, or Redis does not answer: the execution is skipped.
\* The key may have been set although the answer was lost.
Skip(r) ==
    /\ phase[r] = "idle"
    /\ RedisEnabled
    /\ holder' \in IF holder = NoRun THEN {NoRun, r} ELSE {holder}
    /\ lease' = [lease EXCEPT ![r] = holder' # holder \/ @]
    /\ Record(r, "SKIPPED_LOCKED")
    /\ UNCHANGED phase

\* The task returned or threw; recordFinish changes a row that exists.
Finish(r, status) ==
    /\ phase[r] = "running"
    /\ phase' = [phase EXCEPT ![r] = "ending"]
    /\ ledger' \in {ledger, [ledger EXCEPT ![r] = IF @ = "RUNNING" THEN status ELSE @]}
    /\ UNCHANGED <<holder, lease>>

\* Mutant of Release: DEL without looking at the token.
ReleaseAnyone(r) ==
    /\ phase[r] = "ending"
    /\ holder' \in {NoRun, holder}
    /\ phase' = [phase EXCEPT ![r] = "idle"]
    /\ lease' = [lease EXCEPT ![r] = FALSE]
    /\ UNCHANGED ledger

\* The key is deleted if it still holds this run's token and Redis answers.
Release(r) ==
    /\ phase[r] = "ending"
    /\ holder' \in {holder, IF holder = r THEN NoRun ELSE holder}
    /\ phase' = [phase EXCEPT ![r] = "idle"]
    /\ lease' = [lease EXCEPT ![r] = @ /\ holder' = r]
    /\ UNCHANGED ledger

\* The time to live of the key is over.
Expire ==
    /\ holder # NoRun
    /\ MayOverrun \/ phase[holder] = "idle"
    /\ holder' = NoRun
    /\ lease' = [lease EXCEPT ![holder] = FALSE]
    /\ UNCHANGED <<phase, ledger>>

\* The instance of the run dies: nothing is released, nothing recorded.
Crash(r) ==
    /\ phase[r] # "idle"
    /\ phase' = [phase EXCEPT ![r] = "idle"]
    /\ UNCHANGED <<holder, lease, ledger>>

-----------------------------------------------------------------------------
(* Properties.                                                             *)

Busy == {r \in Runs : phase[r] # "idle"}

\* While a run's lock has not timed out no other run gets going, whoever
\* finishes late, crashes or loses an answer of Redis meanwhile: a late run
\* does not delete the lock of its successor (the compare-and-delete script
\* of releaseLock()).
LeaseIsExclusive ==
    \A r \in Busy : lease[r] => \A other \in Busy \ {r} : ~lease[other]

\* Runs of one job never overlap.
RunsNeverOverlap == Cardinality(Busy) <= 1
=============================================================================
