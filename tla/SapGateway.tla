----------------------------- MODULE SapGateway -----------------------------
(***************************************************************************)
(* One document on its way to the SAP interface, modules/sap: syncInvoice()*)
(* or syncCustomer(), retryPending() and callSapApi() under them.          *)
(*                                                                         *)
(* A call reads the document, or takes the payload the log holds, looks at *)
(* the log, posts with a bounded number of attempts behind a circuit       *)
(* breaker, and writes the log with an upsert that looks at nothing.  An   *)
(* answer can be lost after SAP did the work, and a restart ends every     *)
(* call where it is; it is also how the interface is switched on and off.  *)
(* SAP is external: it does what a post asks the first time it sees its    *)
(* idempotency key and answers success from then on, which is what the     *)
(* code sends the key for.  The key does not name the content.             *)
(***************************************************************************)
EXTENDS Naturals

CONSTANTS
    Senders,           \* calls that can be in flight
    MaxContent,        \* bound on the versions of the document
    MaxAttempts,       \* SAP_MAX_ATTEMPTS
    Threshold,         \* SAP_CIRCUIT_FAILURE_THRESHOLD
    MaxRestarts        \* bound on restarts of the process

ASSUME AttemptsAssumption == MaxAttempts \in Nat \ {0} /\ Threshold \in Nat \ {0}
ASSUME ContentAssumption == MaxContent \in Nat \ {0}

VARIABLES
    enabled,    \* SAP_ENABLED
    content,    \* the version of the document
    sapLog,     \* its row of the integration log
    posted,     \* the version SAP has, 0 for none
    breaker,    \* consecutive failures, and whether the circuit is open
    token,      \* is there an access token that has not expired?
    sending,    \* what each call is at
    restarts

sapVars == <<enabled, content, sapLog, posted, breaker, token, sending, restarts>>

NotSending == [at |-> "idle"]
Closed == [failures |-> 0, circuit |-> "closed"]

\* Types; the circuit is closed only below the threshold.
SapTypeOK ==
    /\ enabled \in BOOLEAN /\ token \in BOOLEAN
    /\ content \in 1 .. MaxContent /\ posted \in 0 .. MaxContent
    /\ sapLog \in [status : {"none", "PENDING", "FAILED", "SUCCESS"}, payload : 0 .. MaxContent]
    /\ breaker.circuit = "closed" => breaker.failures < Threshold
    /\ \A k \in Senders :
        sending[k].at \in {"idle", "queue", "look", "token", "post", "record"}

SapInit ==
    /\ enabled \in BOOLEAN
    /\ content = 1
    /\ sapLog = [status |-> "none", payload |-> 0]
    /\ posted = 0
    /\ breaker = Closed
    /\ token = FALSE
    /\ sending = [k \in Senders |-> NotSending]
    /\ restarts = 0

-----------------------------------------------------------------------------

\* An invoice is adjusted, the master data of a tenant is edited.
Revise ==
    /\ content < MaxContent
    /\ content' = content + 1
    /\ UNCHANGED <<enabled, sapLog, posted, breaker, token, sending, restarts>>

Send(k, call) == sending' = [sending EXCEPT ![k] = call]

\* syncInvoice(), syncCustomer(): the payload is made of the document; while
\* the interface is off it is only queued.
Sync(k) ==
    /\ sending[k] = NotSending
    /\ Send(k, [at |-> IF enabled THEN "look" ELSE "queue", payload |-> content, tries |-> 0])
    /\ UNCHANGED <<enabled, content, sapLog, posted, breaker, token, restarts>>

\* retryPending(): one log of its list, which waits until those before it
\* are through.
Retry(k) ==
    /\ sending[k] = NotSending
    /\ enabled /\ sapLog.status \in {"PENDING", "FAILED"}
    /\ Send(k, [at |-> "look", payload |-> sapLog.payload, tries |-> 0])
    /\ UNCHANGED <<enabled, content, sapLog, posted, breaker, token, restarts>>

WriteLog(k, status) ==
    /\ sapLog' = [status |-> status, payload |-> sending[k].payload]
    /\ Send(k, NotSending)
    /\ UNCHANGED <<enabled, content, posted, breaker, token, restarts>>

\* Written over whatever the log says.
Queue(k) == sending[k].at = "queue" /\ WriteLog(k, "PENDING")

\* callSapApi(): what was delivered is not sent again.
Look(k) ==
    /\ sending[k].at = "look"
    /\ Send(k, IF sapLog.status = "SUCCESS" THEN NotSending
               ELSE [sending[k] EXCEPT !.at = IF token THEN "post" ELSE "token"])
    /\ UNCHANGED <<enabled, content, sapLog, posted, breaker, token, restarts>>

Recording(k, result) ==
    Send(k, [at |-> "record", payload |-> sending[k].payload, result |-> result])

\* assertCircuitClosed(), at the start of each fetchWithResilience().
Enter(k) ==
    /\ sending[k].at \in {"token", "post"} /\ sending[k].tries = 0
    /\ \/ breaker.circuit = "open" /\ Recording(k, "FAILED") /\ UNCHANGED breaker
       \/ /\ breaker.circuit # "open"
          /\ breaker' = IF breaker.circuit = "rested" THEN Closed ELSE breaker
          /\ Send(k, [sending[k] EXCEPT !.tries = 1])
    /\ UNCHANGED <<enabled, content, sapLog, posted, token, restarts>>

UnderWay(k) == sending[k].at \in {"token", "post"} /\ sending[k].tries > 0

\* SAP does what a post asks once.
Handle(k) == posted' = IF sending[k].at = "post" /\ posted = 0 THEN sending[k].payload ELSE posted

\* Mutant of Refused: an answer that is an error is recorded as a success.
RefusedUnseen(k) ==
    /\ UnderWay(k)
    /\ breaker' = Closed
    /\ Recording(k, IF sending[k].at = "post" THEN "SUCCESS" ELSE "FAILED")
    /\ UNCHANGED <<enabled, content, sapLog, posted, token, restarts>>

\* An error of the request itself: not sent again, and SAP is well.
Refused(k) ==
    /\ UnderWay(k)
    /\ breaker' = Closed
    /\ Recording(k, "FAILED")
    /\ UNCHANGED <<enabled, content, sapLog, posted, token, restarts>>

Answered(k) ==
    /\ UnderWay(k)
    /\ Handle(k)
    /\ breaker' = Closed
    /\ IF sending[k].at = "post"
       THEN Recording(k, "SUCCESS") /\ UNCHANGED token
       ELSE token' = TRUE /\ Send(k, [sending[k] EXCEPT !.at = "post", !.tries = 0])
    /\ UNCHANGED <<enabled, content, sapLog, restarts>>

Failure ==
    LET n == breaker.failures + 1
    IN  [failures |-> n, circuit |-> IF n >= Threshold THEN "open" ELSE breaker.circuit]

\* A timeout, a dropped connection or a server error, before or after SAP did
\* the work: tried again, up to the last attempt.
Unanswered(k) ==
    /\ UnderWay(k)
    /\ Handle(k) \/ UNCHANGED posted
    /\ IF sending[k].tries < MaxAttempts
       THEN Send(k, [sending[k] EXCEPT !.tries = @ + 1]) /\ UNCHANGED breaker
       ELSE Recording(k, "FAILED") /\ breaker' = Failure
    /\ UNCHANGED <<enabled, content, sapLog, token, restarts>>

\* An error that is none of those is not tried again.
Broken(k) ==
    /\ UnderWay(k)
    /\ Handle(k) \/ UNCHANGED posted
    /\ Recording(k, "FAILED") /\ breaker' = Failure
    /\ UNCHANGED <<enabled, content, sapLog, token, restarts>>

Record(k) == sending[k].at = "record" /\ WriteLog(k, sending[k].result)

Cooldown ==
    /\ breaker.circuit = "open"
    /\ breaker' = [breaker EXCEPT !.circuit = "rested"]
    /\ UNCHANGED <<enabled, content, sapLog, posted, token, sending, restarts>>

TokenExpires ==
    /\ token /\ token' = FALSE
    /\ UNCHANGED <<enabled, content, sapLog, posted, breaker, sending, restarts>>

Restart(on) ==
    /\ restarts < MaxRestarts /\ restarts' = restarts + 1
    /\ enabled' = on
    /\ breaker' = Closed /\ token' = FALSE
    /\ sending' = [k \in Senders |-> NotSending]
    /\ UNCHANGED <<content, sapLog, posted>>

SapNext ==
    \/ Revise \/ Cooldown \/ TokenExpires
    \/ \E on \in BOOLEAN : Restart(on)
    \/ \E k \in Senders :
        \/ Sync(k) \/ Retry(k) \/ Queue(k) \/ Look(k) \/ Enter(k)
        \/ Refused(k) \/ Answered(k) \/ Unanswered(k) \/ Broken(k) \/ Record(k)

SapSpec == SapInit /\ [][SapNext]_sapVars

-----------------------------------------------------------------------------
(* Properties.                                                             *)

\* The log says SUCCESS of nothing that SAP did not do, whichever attempt,
\* retry or process wrote it and whatever was lost on the way.
LogShowsTheDelivery == sapLog.status = "SUCCESS" => posted # 0
=============================================================================
