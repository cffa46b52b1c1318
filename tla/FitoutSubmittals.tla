-------------------------- MODULE FitoutSubmittals --------------------------
(***************************************************************************)
(* The revisions of one fit-out submittal, the approval workflows they are *)
(* sent to and their attachments (fitout-submittal.service.ts, and the     *)
(* decisions of approvals.service.ts on a FITOUT_SUBMITTAL).               *)
(*                                                                         *)
(* submitForReview(), resubmit() and publish() read, decide and write a    *)
(* status that nobody looks at again.  A decision is one Serializable      *)
(* transaction; its verdict reaches the revision through the outbox, which *)
(* delivers an event late, again after a crash, or never, since the error  *)
(* of a listener is only logged.  An upload holds a lock on the row of the *)
(* revision, and nothing else, between its check and its commit.  A        *)
(* workflow of several steps ends like one of a single step.               *)
(***************************************************************************)
EXTENDS Naturals, Sequences

CONSTANTS
    Staff,          \* requests that can be in flight
    MaxRevisions,   \* bound on the revisions
    MaxFlows,       \* bound on the workflows
    MaxUploads      \* bound on the attachments of a revision

ASSUME ReviewBoundsAssumption ==
    MaxRevisions \in Nat \ {0} /\ MaxFlows \in Nat /\ MaxUploads \in Nat

VARIABLES
    revision,   \* the revisions, in the order of their making: status,
                \* workflow (its index, or 0) and number of attachments
    flow,       \* the workflows: the revision and the status
    paper       \* what each request in flight has read

reviewVars == <<revision, flow, paper>>

Draft == [status |-> "SUBMITTED", flow |-> 0, files |-> 0]
NoPaper == [op |-> "none"]
Verdicts == {"APPROVED", "REJECTED"}

\* Types; a revision that was sent to review has an attachment.
ReviewTypeOK ==
    /\ \A r \in DOMAIN revision :
        /\ revision[r].status \in
            {"SUBMITTED", "IN_PROGRESS", "APPROVED", "REJECTED", "PUBLISHED", "OBSOLETED"}
        /\ revision[r].files \in 0 .. MaxUploads
        /\ revision[r].flow \in 0 .. Len(flow)
        /\ revision[r].flow # 0 => flow[revision[r].flow].of = r /\ revision[r].files > 0
    /\ \A w \in DOMAIN flow :
        /\ flow[w].of \in DOMAIN revision
        /\ flow[w].status \in Verdicts \cup {"IN_PROGRESS"}
    /\ \A k \in Staff : paper[k].op \in {"none", "submit", "resubmit", "publish", "upload"}

ReviewInit ==
    /\ revision = <<Draft>>
    /\ flow = <<>>
    /\ paper = [k \in Staff |-> NoPaper]

-----------------------------------------------------------------------------

Hand(k, op, r) ==
    /\ paper[k] = NoPaper
    /\ paper' = [paper EXCEPT ![k] = [op |-> op, of |-> r]]
    /\ UNCHANGED <<revision, flow>>

HandBack(k) == paper' = [paper EXCEPT ![k] = NoPaper]

\* Mutant of Locked: an upload reads without FOR UPDATE.
LockedNever(r) == FALSE

\* An upload holds the lock of this row: whoever writes it waits.
Locked(r) == \E k \in Staff : paper[k].op = "upload" /\ paper[k].of = r

\* submitForReview(): a draft with an attachment.
SubmitRead(k, r) ==
    /\ revision[r].status = "SUBMITTED" /\ revision[r].flow = 0
    /\ revision[r].files > 0
    /\ Hand(k, "submit", r)

SubmitWrite(k) ==
    LET r == paper[k].of
    IN  /\ paper[k].op = "submit" /\ ~Locked(r) /\ Len(flow) < MaxFlows
        /\ flow' = Append(flow, [of |-> r, status |-> "IN_PROGRESS"])
        /\ revision' = [revision EXCEPT ![r].status = "IN_PROGRESS",
                                        ![r].flow = Len(flow) + 1]
        /\ HandBack(k)

\* resubmit(): the rejected revision is set aside for a new one.
ResubmitRead(k, r) == revision[r].status = "REJECTED" /\ Hand(k, "resubmit", r)

ResubmitWrite(k) ==
    /\ paper[k].op = "resubmit" /\ ~Locked(paper[k].of) /\ Len(revision) < MaxRevisions
    /\ revision' = Append([revision EXCEPT ![paper[k].of].status = "OBSOLETED"], Draft)
    /\ HandBack(k) /\ UNCHANGED flow

\* Mutant of PublishRead: what has been sent to review can be published.
PublishReadInReview(k, r) == revision[r].flow # 0 /\ Hand(k, "publish", r)

PublishRead(k, r) == revision[r].status = "APPROVED" /\ Hand(k, "publish", r)

PublishWrite(k) ==
    /\ paper[k].op = "publish" /\ ~Locked(paper[k].of)
    /\ revision' = [revision EXCEPT ![paper[k].of].status = "PUBLISHED"]
    /\ HandBack(k) /\ UNCHANGED flow

\* uploadAttachment(): both of its checks, of which the second takes the lock.
Mutable(r) ==
    /\ revision[r].status \in {"SUBMITTED", "IN_PROGRESS"}
    /\ revision[r].flow # 0 => flow[revision[r].flow].status = "IN_PROGRESS"

UploadLock(k, r) ==
    /\ Mutable(r) /\ ~Locked(r) /\ revision[r].files < MaxUploads
    /\ Hand(k, "upload", r)

UploadCommit(k) ==
    /\ paper[k].op = "upload"
    /\ revision' = [revision EXCEPT ![paper[k].of].files = @ + 1]
    /\ HandBack(k) /\ UNCHANGED flow

\* The last decision on a workflow, which has to be that of its revision.
Decide(w, verdict) ==
    /\ flow[w].status = "IN_PROGRESS"
    /\ revision[flow[w].of].flow = w
    /\ flow' = [flow EXCEPT ![w].status = verdict]
    /\ UNCHANGED <<revision, paper>>

\* onWorkflowCompleted() and onWorkflowRejected(): the status is written,
\* whatever it was, once or several times.
Deliver(w) ==
    LET r == flow[w].of
    IN  /\ flow[w].status \in Verdicts
        /\ ~Locked(r)
        /\ revision' = [revision EXCEPT ![r].status = flow[w].status]
        /\ UNCHANGED <<flow, paper>>

ReviewNext ==
    \/ \E k \in Staff :
        \/ \E r \in DOMAIN revision :
            \/ SubmitRead(k, r)  \/ ResubmitRead(k, r)
            \/ PublishRead(k, r) \/ UploadLock(k, r)
        \/ SubmitWrite(k)  \/ ResubmitWrite(k)
        \/ PublishWrite(k) \/ UploadCommit(k)
    \/ \E w \in DOMAIN flow : Deliver(w) \/ \E v \in Verdicts : Decide(w, v)

ReviewSpec == ReviewInit /\ [][ReviewNext]_reviewVars

-----------------------------------------------------------------------------
(* Properties.                                                             *)

Reviewed(r, verdict) ==
    \E w \in DOMAIN flow : flow[w].of = r /\ flow[w].status = verdict

\* However submissions, resubmissions, publications and deliveries cross, and
\* whatever is delivered twice or late: what stands as approved or published
\* was approved, what stands as rejected or was set aside was rejected, each
\* by a workflow of its own.
StatusIsOfReview ==
    \A r \in DOMAIN revision :
        /\ revision[r].status \in {"APPROVED", "PUBLISHED"} => Reviewed(r, "APPROVED")
        /\ revision[r].status \in {"REJECTED", "OBSOLETED"} => Reviewed(r, "REJECTED")

\* An upload commits before a verdict is delivered to its revision or is
\* refused, which is what its lock on the row is for.
UploadsAreInTime ==
    \A k \in Staff :
        paper[k].op = "upload" => revision[paper[k].of].status \in {"SUBMITTED", "IN_PROGRESS"}

RevisionsAreReviewed == StatusIsOfReview /\ UploadsAreInTime
=============================================================================
