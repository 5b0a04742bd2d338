---------------------------- MODULE WorkflowTrail ----------------------------
(***************************************************************************)
(* The audit trail of WorkflowEngine: what record_event has written in     *)
(* workflow_audit_events, and what the open transactions have inserted and *)
(* not committed.  An event is visible, or lost, together with the changes *)
(* of its transaction.                                                     *)
(***************************************************************************)
EXTENDS WorkflowEngine

CONSTANT TrailCap  \* bound: events of a kind are counted up to TrailCap

ASSUME TrailAssumption == TrailCap \in Nat \ {0}

VARIABLES
  trail,  \* event -> how often it is committed
  noted   \* request -> events it has inserted since its last commit

trailVars == <<vars, trail, noted>>

\* An event is a type and the step it names, 0 for the workflow.
Evidence ==
  ({"workflow_started", "workflow_resumed", "workflow_completed",
    "workflow_failed", "workflow_cancelled"} \X {0})
  \cup ({"step_started", "step_completed", "step_failed", "approval_requested",
         "approval_approved", "approval_rejected",
         "approved_action_executed"} \X Steps)

\* What the statement at the request's pc inserts.
Recorded(r) ==
  CASE pc[r] = "run_start"      -> {<<"workflow_started", 0>>}
    [] pc[r] = "step_start"     -> {<<"step_started", Current(r)>>}
    [] pc[r] = "save"           -> {<<"step_completed", Current(r)>>}
    [] pc[r] = "fail"           -> {<<"step_failed", Current(r)>>,
                                    <<"workflow_failed", 0>>}
    [] pc[r] = "gate"           -> {<<"approval_requested", Current(r)>>}
    [] pc[r] = "finish"         -> {<<"workflow_completed", 0>>}
    [] pc[r] = "resume_event"   -> {<<"workflow_resumed", 0>>}
    [] pc[r] = "cancel_lock"    -> {<<"workflow_cancelled", 0>>}
    [] pc[r] = "approve_commit" -> {<<"approval_approved", tgt[r]>>}
    [] pc[r] = "reject_commit"  -> {<<"approval_rejected", tgt[r]>>}
    [] pc[r] = "call_save"      -> {<<"approved_action_executed", tgt[r]>>}
    [] OTHER                    -> {}

\* The event is flushed with the statement.
Notes(r) ==
  /\ noted' = [noted EXCEPT ![r] = @ \cup Recorded(r)]
  /\ UNCHANGED trail

\* Mutant of Records: the event is inserted once its change is committed.
RecordsLate(r) ==
  /\ trail' = [e \in Evidence |->
                 IF e \in noted[r] /\ trail[e] < TrailCap THEN trail[e] + 1 ELSE trail[e]]
  /\ noted' = [noted EXCEPT ![r] = IF pc'[r] = "idle" THEN {} ELSE Recorded(r)]

\* The event is committed with the change it tells of.
Records(r) ==
  /\ trail' = [e \in Evidence |->
                 IF e \in noted[r] \cup Recorded(r) /\ trail[e] < TrailCap
                   THEN trail[e] + 1 ELSE trail[e]]
  /\ noted' = [noted EXCEPT ![r] = {}]

\* Nothing is inserted; what a request has inserted is rolled back at its end.
Forgets(r) ==
  /\ noted' = [noted EXCEPT ![r] = IF pc'[r] = "idle" THEN {} ELSE @]
  /\ UNCHANGED trail

\* The handler steps by what they do to their transaction.
Flushing(r) ==
  RunStart(r) \/ StepStart(r) \/ SaveStep(r) \/ ResumeEvent(r)

Committing(r) ==
  \/ FailStep(r) \/ Gate(r) \/ Finish(r) \/ ResumeStart(r)
  \/ CancelCommit(r) \/ ApproveCommit(r) \/ RejectCommit(r)
  \/ CallSave(r) \/ CallFail(r)

Other(r) ==
  \/ Post(r) \/ RunGet(r) \/ RunSteps(r)
  \/ ExecSucceeds(r) \/ ExecFails(r) \/ ExecRaises(r) \/ Retry(r)
  \/ GateTaken(r) \/ Refuse(r) \/ ResumeGet(r)
  \/ CancelSteps(r) \/ CancelApprovals(r)
  \/ ApproveLock(r) \/ ApproveGet(r) \/ ApproveSteps(r)
  \/ CallGet(r) \/ CallSteps(r) \/ Call(r) \/ CallDenied(r)
  \/ RejectLock(r) \/ RejectGet(r) \/ RejectSteps(r)
  \/ AbortDeadlocked(r) \/ LoseSession(r)

TrailInit ==
  /\ Init
  /\ trail = [e \in Evidence |-> 0]
  /\ noted = [r \in Requests |-> {}]

\* Cancelling is noted unless the workflow has ended or is missed.
Cancels(r) ==
  CancelLock(r) /\ IF pc'[r] = "idle" THEN Forgets(r) ELSE Notes(r)

TrailNext ==
  \/ \E r \in Requests :
       \/ Flushing(r) /\ Notes(r)
       \/ Cancels(r)
       \/ Committing(r) /\ Records(r)
       \/ Other(r) /\ Forgets(r)
  \/ \E s \in Steps : PassDue(s) /\ UNCHANGED <<trail, noted>>
  \/ AllAnswered /\ UNCHANGED <<trail, noted>>

TrailSpec == TrailInit /\ [][TrailNext]_trailVars

FairTrailSpec == TrailSpec /\ Fairness

-----------------------------------------------------------------------------
Once(claim) == IF claim THEN 1 ELSE 0

\* The trail and the rows never disagree, whatever requests interleave and
\* whichever transactions are rolled back: an approval was asked for, given or rejected
\* exactly when that is on record, and once; a consequential step is completed
\* exactly when its execution is; and no step or workflow has ended without a
\* record of it, but for the failure of an approved step, which has none.
EvidenceMatchesState ==
  /\ \A s \in Steps :
       /\ trail[<<"approval_requested", s>>] = Once(ap[s] # "none")
       /\ trail[<<"approval_approved", s>>] = Once(ap[s] = "approved")
       /\ trail[<<"approval_rejected", s>>] = Once(ap[s] = "rejected")
       /\ trail[<<"approved_action_executed", s>>]
            = Once(s \in Consequential /\ db.step_status[s] = "completed")
       /\ s \notin Consequential /\ db.step_status[s] = "completed"
            => trail[<<"step_completed", s>>] > 0
       /\ db.step_status[s] = "failed" /\ ap[s] # "approved"
            => trail[<<"step_failed", s>>] > 0
  /\ db.status = "completed" => trail[<<"workflow_completed", 0>>] > 0
  /\ db.status = "cancelled" =>
       \E e \in {<<"workflow_cancelled", 0>>} \cup ({"approval_rejected"} \X Steps) :
         trail[e] > 0

\* A run that was resumed and comes to a consequential step can ask for its
\* approval, at the gate: nothing has asked for it before.
ResumedReachesItsGate ==
  \A r \in Requests :
    pc[r] = "gate" /\ <<"workflow_resumed", 0>> \in noted[r]
      => ap[Current(r)] = "none"
=============================================================================
