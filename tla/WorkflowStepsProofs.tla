------------------------ MODULE WorkflowStepsProofs ------------------------
(***************************************************************************)
(* What the steps of a workflow of WorkflowEngine tell of its operations,  *)
(* for every number of steps and any set of requests: a consequential step *)
(* is completed only when it was executed, one whose arguments redact()    *)
(* changes never is, and an unavailable one stops the run.                 *)
(*                                                                         *)
(* The statuses of steps reach a session or the database only by copying:  *)
(* HandleFlow says from where, once for all actions, and the invariants    *)
(* are about what every copy satisfies.                                    *)
(*                                                                         *)
(* The last part is about the order of gates: approvals are asked for in   *)
(* the order of the steps, a waiting workflow waits at exactly one, and a  *)
(* cancelled one leaves none pending, whatever sessions with an old copy   *)
(* still write.                                                            *)
(***************************************************************************)
EXTENDS WorkflowGateProofs

USE EngineAssumption

-----------------------------------------------------------------------------
(* Where the statuses of steps come from.                                  *)

\* The status of step s in the copies of r, and in the database, after a step
\* of r.
ViewFlows(r, s) ==
  view'[r].step_status[s] \in
    {"pending", "cancelled", db.step_status[s], view[r].step_status[s],
     Written(r).step_status[s]}

DbFlows(r, s) ==
  db'.step_status[s] \in {db.step_status[s], Written(r).step_status[s]}

\* A SELECT copies statuses,
LEMMA ReadFlows ==
  ASSUME TypeOK, NEW r \in Requests, NEW rows, Read(r, rows), db' = db
  PROVE  \A s \in Steps : ViewFlows(r, s) /\ DbFlows(r, s)
<1>1. view'[r] = Loaded(r, rows)
  BY DEF Read, TypeOK
<1>. QED
  BY <1>1 DEF Loaded, Overwrite, ViewFlows, DbFlows

\* so does a flush,
LEMMA FlushFlows ==
  ASSUME TypeOK, NEW r \in Requests, Flush(r), db' = db
  PROVE  \A s \in Steps : ViewFlows(r, s) /\ DbFlows(r, s)
<1>1. view'[r] = Written(r)
  BY DEF Flush, TypeOK
<1>. QED
  BY <1>1 DEF ViewFlows, DbFlows

\* a move to the next statement,
LEMMA KeepFlows ==
  ASSUME NEW r \in Requests, view' = view, db' = db
  PROVE  \A s \in Steps : ViewFlows(r, s) /\ DbFlows(r, s)
BY DEF ViewFlows, DbFlows

\* the end of a request,
LEMMA LeaveFlows ==
  ASSUME TypeOK, NEW r \in Requests, Leave(r)
  PROVE  \A s \in Steps : ViewFlows(r, s)
<1>1. view'[r] = Created
  BY DEF Leave, TypeOK
<1>. QED
  BY <1>1 DEF Created, ViewFlows

\* going on after a commit,
LEMMA ContinueFlows ==
  ASSUME TypeOK, NEW r \in Requests, NEW label, NEW step, NEW rows,
         Continue(r, label, step, rows)
  PROVE  \A s \in Steps : ViewFlows(r, s)
<1>1. view'[r] = Overwrite(Created, Written(r), {c \in Columns : c[2] \in rows})
  BY DEF Continue, TypeOK
<1>. QED
  BY <1>1 DEF Created, Overwrite, ViewFlows

\* the commit itself,
LEMMA PersistFlows ==
  ASSUME NEW r \in Requests, Persist(r)
  PROVE  \A s \in Steps : DbFlows(r, s)
BY DEF Persist, Overwrite, DbFlows

\* and what commits nothing.
LEMMA SameDbFlows ==
  ASSUME NEW r \in Requests, db' = db
  PROVE  \A s \in Steps : DbFlows(r, s)
BY DEF DbFlows

\* Every handler step only copies statuses.
LEMMA HandleFlow ==
  ASSUME TypeOK, NEW r \in Requests, Handle(r)
  PROVE  \A s \in Steps : ViewFlows(r, s) /\ DbFlows(r, s)
<1>1. CASE Leave(r) /\ db' = db
  BY <1>1, LeaveFlows, SameDbFlows
<1>2. CASE Leave(r) /\ Persist(r)
  BY <1>2, LeaveFlows, PersistFlows
<1>3. CASE \E label, step, rows : Continue(r, label, step, rows) /\ Persist(r)
  BY <1>3, ContinueFlows, PersistFlows
<1>4. CASE Flush(r) /\ db' = db
  BY <1>4, FlushFlows
<1>5. CASE \E rows : Read(r, rows) /\ db' = db
  BY <1>5, ReadFlows
<1>6. CASE view' = view /\ db' = db
  BY <1>6, KeepFlows
<1>7. CASE CancelLock(r)
  <2>1. CASE ~ Leave(r)
    <3>1. view'[r] = [Loaded(r, {WorkflowRow}) EXCEPT !.status = "cancelled"]
      BY <1>7, <2>1 DEF CancelLock, TypeOK
    <3>2. view'[r].step_status = Loaded(r, {WorkflowRow}).step_status
      BY <3>1 DEF Loaded, Overwrite
    <3>3. db' = db
      BY <1>7 DEF CancelLock
    <3>. QED
      BY <3>2, <3>3 DEF Loaded, Overwrite, ViewFlows, DbFlows
  <2>. QED
    BY <1>1, <1>7, <2>1 DEF CancelLock
<1>8. CASE RunStep(r)
  BY <1>1, <1>2, <1>4, <1>5, <1>6, <1>8
     DEF RunStep, RunGet, RunStart, RunSteps, StepStart, ExecSucceeds, ExecFails,
         ExecRaises, Retry, SaveStep, FailStep, Gate, GateTaken, Finish, Refuse
<1>9. CASE ResumeStep(r)
  BY <1>1, <1>3, <1>4, <1>5, <1>9 DEF ResumeStep, ResumeGet, ResumeStart, ResumeEvent
<1>10. CASE CancelStep(r)
  BY <1>2, <1>4, <1>5, <1>7, <1>10
     DEF CancelStep, CancelSteps, CancelApprovals, CancelCommit
<1>11. CASE ApproveStep(r)
  BY <1>1, <1>3, <1>5, <1>6, <1>11
     DEF ApproveStep, ApproveLock, ApproveGet, ApproveSteps, ApproveCommit
<1>12. CASE CallStep(r)
  BY <1>1, <1>2, <1>3, <1>5, <1>6, <1>12
     DEF CallStep, CallGet, CallSteps, Call, CallDenied, CallSave, CallFail
<1>13. CASE RejectStep(r)
  BY <1>1, <1>2, <1>5, <1>6, <1>13
     DEF RejectStep, RejectLock, RejectGet, RejectSteps, RejectCommit
<1>. QED
  BY <1>8, <1>9, <1>10, <1>11, <1>12, <1>13 DEF Handle

\* What a request is about to flush sets at most one status, or cancels.
LEMMA WrittenStatus ==
  ASSUME TypeOK, NEW r \in Requests, HasItsStep(r), NEW s \in Steps
  PROVE  \/ Written(r).step_status[s] = view[r].step_status[s]
         \/ Written(r).step_status[s] \in {"failed", "cancelled"}
         \/ /\ pc[r] \in {"save", "gate", "call_save", "approve_commit", "reject_commit"}
            /\ s = IF tgt[r] # 0 THEN tgt[r] ELSE Current(r)
            /\ Written(r).step_status[s] = "completed" =>
                 pc[r] \in {"save", "call_save"}
<1>. DEFINE v == view[r]
            t == IF tgt[r] # 0 THEN tgt[r] ELSE Current(r)
<1>1. v \in RowValues
  BY DEF TypeOK
<1>. HIDE DEF v, t
<1>2. CASE pc[r] \in {"save", "call_save"}
  <2>1. Written(r) = [v EXCEPT !.step_status[t] = "completed", !.current_step = t]
    BY <1>2 DEF Written, t, v
  <2>2. s # t => Written(r).step_status[s] = v.step_status[s]
    BY <1>1, <2>1 DEF RowValues
  <2>. QED
    BY <1>2, <2>2 DEF t, v
<1>3. CASE pc[r] \in {"fail", "call_fail"}
  <2>1. Written(r) = [v EXCEPT !.step_status[t] = "failed", !.status = "failed"]
    BY <1>3 DEF Written, t, v
  <2>2. s # t => Written(r).step_status[s] = v.step_status[s]
    BY <1>1, <2>1 DEF RowValues
  <2>3. s = t => Written(r).step_status[s] = "failed"
    BY <1>1, <2>1 DEF RowValues
  <2>. QED
    BY <2>2, <2>3 DEF v
<1>4. CASE pc[r] \in {"gate", "approve_commit", "reject_commit"}
  <2>1. \E x \in {"waiting_for_approval", "approved", "rejected"}, y \in WorkflowStatus :
          Written(r) = [v EXCEPT !.step_status[t] = x, !.status = y]
    BY <1>4 DEF Written, t, v, WorkflowStatus
  <2>2. s # t => Written(r).step_status[s] = v.step_status[s]
    BY <1>1, <2>1 DEF RowValues
  <2>3. s = t => Written(r).step_status[s] # "completed"
    BY <1>1, <2>1 DEF RowValues
  <2>. QED
    BY <1>4, <2>2, <2>3 DEF t, v
<1>5. CASE pc[r] = "cancel_flush"
  <2>1. Written(r).step_status =
          [q \in Steps |-> IF v.step_status[q] = "completed"
                             THEN "completed" ELSE "cancelled"]
    BY <1>1, <1>5 DEF Written, v, RowValues
  <2>. QED
    BY <2>1 DEF v
<1>6. CASE pc[r] \notin {"save", "call_save", "fail", "call_fail", "gate",
                         "approve_commit", "reject_commit", "cancel_flush"}
  <2>1. Written(r).step_status = view[r].step_status
    BY <1>1, <1>6 DEF Written, v, RowValues
  <2>. QED
    BY <2>1
<1>. QED
  BY <1>2, <1>3, <1>4, <1>5, <1>6

-----------------------------------------------------------------------------
(* How a request comes to work on a step.                                  *)

\* The statements of run and resume_workflow.
Running ==
  {"run_get", "run_start", "run_steps", "finish", "resume_get", "resume_start",
   "resume_event"} \cup AtStep

\* The statements at which a run has passed the checks of a step.
Passed == {"exec", "retry", "save", "gate"}

\* It goes on with the step whose checks it has passed.
Works(r) ==
  /\ view'[r].step_status = view[r].step_status
  /\ \/ /\ pc[r] = "step_start"
        /\ Current(r) \notin Unavailable
        /\ pc'[r] = "gate" <=> Current(r) \in Consequential
     \/ pc[r] \in {"exec", "retry"} /\ pc'[r] # "gate"

Comes(r) ==
  /\ pc'[r] \in Passed => Works(r)
  /\ tgt'[r] \in {0, tgt[r]}
  /\ pc'[r] \in Running /\ tgt'[r] # 0 => pc[r] \in Running
  /\ pc'[r] = "call_save" => tgt'[r] = tgt[r] /\ calls'[tgt[r]] > 0
  /\ pc'[r] = "approve_commit" => tgt[r] \notin Redacted

\* Every handler step comes to its next statement this way.
LEMMA HandleComes ==
  ASSUME TypeOK, NEW r \in Requests, HasItsStep(r), Handle(r)
  PROVE  Comes(r)
<1>. USE DEF Comes, Running, AtStep, Passed
<1>1. CASE Leave(r)
  BY <1>1 DEF Leave, Goto, TypeOK
<1>2. ASSUME NEW label, Goto(r, label), label \notin Passed \cup Running,
             label \notin {"call_save", "approve_commit"}, tgt' = tgt
      PROVE  Comes(r)
  BY <1>2 DEF Goto, TypeOK
<1>3. ASSUME NEW label, Goto(r, label), label \notin Passed,
             label \notin {"call_save", "approve_commit"}, tgt' = tgt,
             pc[r] \in Running
      PROVE  Comes(r)
  BY <1>3 DEF Goto, TypeOK
<1>4. ASSUME NEW label, NEW step \in {0, tgt[r]}, NEW rows,
             Continue(r, label, step, rows), label \in {"resume_event", "call_get", "run_get"},
             label # "call_get" => step = 0
      PROVE  Comes(r)
  BY <1>4 DEF Continue, Goto, TypeOK
<1>5. CASE StepStart(r)
  <2>1. view'[r].step_status = view[r].step_status
    BY <1>5 DEF StepStart, Flush, Written, TypeOK
  <2>2. pc'[r] = CASE Current(r) \in Unavailable -> "fail"
                   [] Current(r) \in Consequential \ Unavailable -> "gate"
                   [] OTHER -> "exec"
    BY <1>5 DEF StepStart, Goto, TypeOK
  <2>. QED
    BY <1>5, <2>1, <2>2 DEF StepStart, Works
<1>6. CASE ExecSucceeds(r) \/ ExecFails(r)
  BY <1>6 DEF ExecSucceeds, ExecFails, Goto, TypeOK, Works
<1>7. CASE Retry(r)
  <2>1. Written(r).step_status = view[r].step_status
    BY <1>7 DEF Retry, Written, TypeOK, RowValues
  <2>. QED
    BY <1>7, <2>1 DEF Retry, Flush, Goto, TypeOK, Works
<1>8. CASE RunStep(r)
  BY <1>1, <1>3, <1>5, <1>6, <1>7, <1>8
     DEF RunStep, RunGet, RunStart, RunSteps, ExecRaises, SaveStep, FailStep,
         Gate, GateTaken, Finish, Refuse, Advance
<1>9. CASE ResumeStep(r)
  BY <1>1, <1>3, <1>4, <1>9 DEF ResumeStep, ResumeGet, ResumeStart, ResumeEvent
<1>10. CASE CancelStep(r)
  BY <1>1, <1>2, <1>10
     DEF CancelStep, CancelLock, CancelSteps, CancelApprovals, CancelCommit
<1>11. CASE ApproveSteps(r)
  BY <1>1, <1>11 DEF ApproveSteps, Goto, TypeOK
<1>12. CASE ApproveStep(r)
  BY <1>1, <1>2, <1>4, <1>11, <1>12
     DEF ApproveStep, ApproveLock, ApproveGet, ApproveCommit
<1>13. CASE Call(r)
  <2>1. tgt[r] \in Steps
    BY <1>13 DEF Call, HasItsStep, Calling
  <2>2. calls'[tgt[r]] > 0
    BY <1>13, <2>1 DEF Call, TypeOK
  <2>. QED
    BY <1>13, <2>2 DEF Call, Goto, TypeOK
<1>14. CASE CallStep(r)
  BY <1>1, <1>2, <1>4, <1>13, <1>14
     DEF CallStep, CallGet, CallSteps, CallDenied, CallSave, CallFail
<1>15. CASE RejectStep(r)
  BY <1>1, <1>2, <1>15
     DEF RejectStep, RejectLock, RejectGet, RejectSteps, RejectCommit
<1>. QED
  BY <1>8, <1>9, <1>10, <1>12, <1>14, <1>15 DEF Handle

-----------------------------------------------------------------------------
(* The inductive invariant.                                                *)

\* A consequential step of d is completed only if it was executed.
Earned(d) ==
  \A s \in Consequential : d.step_status[s] = "completed" => calls[s] > 0

\* What a request knows of the step it works on, or acts for.
KnowsItsStep(r) ==
  /\ pc[r] \in Passed => Current(r) \notin Unavailable
  /\ pc[r] \in Passed \ {"gate"} => Current(r) \notin Consequential
  /\ pc[r] \in Running => tgt[r] = 0
  /\ pc[r] = "call_save" => calls[tgt[r]] > 0
  /\ pc[r] = "approve_commit" => tgt[r] \notin Redacted
  /\ tgt[r] # 0 => ap[tgt[r]] # "none"

\* From an unavailable step on, nothing is done, in the copy d either.
Untried(d) ==
  \A u \in Unavailable : \A s \in u..N :
    d.step_status[s] \in {"pending", "failed", "cancelled"}

Unasked ==
  \A u \in Unavailable : \A s \in u..N : ap[s] = "none" /\ calls[s] = 0

StepsInv ==
  /\ Earned(db) /\ Untried(db)
  /\ \A r \in Requests : Earned(view[r]) /\ Untried(view[r]) /\ KnowsItsStep(r)
  /\ Unasked
  /\ RedactedNeverCalled

\* Steps from an unavailable one on are steps.
LEMMA LaterSteps ==
  ASSUME NEW u \in Unavailable, NEW s \in u..N
  PROVE  u \in Steps /\ s \in Steps
BY DEF Steps

\* The loop of `run` is never past an unavailable step.
LEMMA CurrentIsBefore ==
  ASSUME NEW v, Untried(v), NEW u \in Unavailable
  PROVE  FirstIncomplete(v) <= u
<1>1. u \in Steps
  BY DEF Steps
<1>2. v.step_status[u] # "completed"
  <2>1. u \in Nat /\ N \in Nat /\ u <= N
    BY <1>1 DEF Steps
  <2>2. u \in u..N
    BY <2>1
  <2>3. v.step_status[u] \in {"pending", "failed", "cancelled"}
    BY <2>2 DEF Untried
  <2>. QED
    BY <2>3
<1>3. u \in Incomplete(v)
  BY <1>1, <1>2 DEF Incomplete
<1>4. Incomplete(v) \in SUBSET Steps
  BY DEF Incomplete
<1>5. \E s \in Incomplete(v) : \A q \in Incomplete(v) : s <= q
  BY <1>3, <1>4, FirstStep
<1>. QED
  BY <1>3, <1>5 DEF FirstIncomplete

-----------------------------------------------------------------------------
(* It is preserved.                                                        *)

\* Executions are not undone, and approvals once asked for stay.
LEMMA HistoryGrows ==
  ASSUME IInv, NEW r \in Requests, Effect(r), NEW s \in Steps
  PROVE  /\ calls[s] > 0 => calls'[s] > 0
         /\ ap[s] # "none" => ap'[s] # "none"
<1>1. calls[s] > 0 => calls'[s] > 0
  BY ExecutesOnce DEF IInv
<1>2. CASE Rests(r) \/ Proceeds(r) \/ Locks(r) \/ StartsToCancel(r)
           \/ FindsPending(r) \/ Executes(r)
  BY <1>1, <1>2 DEF Rests, Proceeds, Locks, StartsToCancel, FindsPending, Executes
<1>3. CASE CancelsPending(r)
  BY <1>1, <1>3 DEF CancelsPending
<1>4. CASE \E t \in Steps : Asks(r, t)
  BY <1>1, <1>4 DEF Asks, IInv, TypeOK
<1>5. CASE Expires(r) \/ Voids(r) \/ Approves(r) \/ Rejects(r)
  BY <1>1, <1>5 DEF Expires, Voids, Approves, Rejects, IInv, TypeOK
<1>. QED
  BY <1>2, <1>3, <1>4, <1>5 DEF Effect

\* What a request is about to flush was earned,
LEMMA WrittenEarned ==
  ASSUME IInv, StepsInv, NEW r \in Requests
  PROVE  Earned(Written(r))
<1>. SUFFICES ASSUME NEW s \in Consequential, Written(r).step_status[s] = "completed"
              PROVE  calls[s] > 0
  BY DEF Earned
<1>1. HasItsStep(r) /\ KnowsItsStep(r) /\ Earned(view[r])
  BY DEF IInv, GateInv, StepsInv
<1>2. s \in Steps
  OBVIOUS
<1>3. CASE Written(r).step_status[s] = view[r].step_status[s]
  BY <1>1, <1>3 DEF Earned
<1>4. CASE pc[r] = "save" /\ s = IF tgt[r] # 0 THEN tgt[r] ELSE Current(r)
  BY <1>1, <1>4 DEF KnowsItsStep, Running, AtStep, Passed
<1>5. CASE pc[r] = "call_save" /\ s = IF tgt[r] # 0 THEN tgt[r] ELSE Current(r)
  <2>1. tgt[r] \in Steps
    BY <1>1, <1>5 DEF HasItsStep, Called
  <2>2. s = tgt[r]
    BY <1>5, <2>1 DEF Steps
  <2>. QED
    BY <1>1, <1>5, <2>2 DEF KnowsItsStep
<1>. QED
  BY <1>1, <1>2, <1>3, <1>4, <1>5, WrittenStatus DEF IInv

\* and leaves what comes after an unavailable step alone.
LEMMA WrittenUntried ==
  ASSUME IInv, StepsInv, NEW r \in Requests
  PROVE  Untried(Written(r))
<1>. SUFFICES ASSUME NEW u \in Unavailable, NEW s \in u..N
              PROVE  Written(r).step_status[s] \in {"pending", "failed", "cancelled"}
  BY DEF Untried
<1>1. HasItsStep(r) /\ KnowsItsStep(r) /\ Untried(view[r])
  BY DEF IInv, GateInv, StepsInv
<1>2. u \in Steps /\ s \in Steps
  BY LaterSteps
<1>3. view[r].step_status[s] \in {"pending", "failed", "cancelled"}
  BY <1>1 DEF Untried
<1>4. ASSUME pc[r] \in {"save", "gate"}, s = IF tgt[r] # 0 THEN tgt[r] ELSE Current(r)
      PROVE  FALSE
  <2>1. s = Current(r) /\ Current(r) \notin Unavailable
    BY <1>1, <1>4 DEF KnowsItsStep, Running, AtStep, Passed
  <2>2. Current(r) <= u
    BY <1>1, CurrentIsBefore DEF Current
  <2>. QED
    BY <1>2, <2>1, <2>2 DEF Steps
<1>5. ASSUME pc[r] \in {"call_save", "approve_commit", "reject_commit"},
             s = IF tgt[r] # 0 THEN tgt[r] ELSE Current(r)
      PROVE  FALSE
  <2>1. tgt[r] \in Steps
    BY <1>1, <1>5 DEF HasItsStep, Called, Deciding
  <2>2. s = tgt[r] /\ tgt[r] # 0
    BY <1>5, <2>1 DEF Steps
  <2>3. ap[s] # "none"
    BY <1>1, <2>2 DEF KnowsItsStep
  <2>. QED
    BY <2>3 DEF StepsInv, Unasked
<1>. QED
  BY <1>1, <1>2, <1>3, <1>4, <1>5, WrittenStatus DEF IInv

\* Nothing is asked or executed for a step from an unavailable one on.
LEMMA UnaskedKept ==
  ASSUME IInv, StepsInv, NEW r \in Requests, Effect(r),
         \A s \in Steps : Asks(r, s) /\ ap'[s] # ap[s] =>
           pc[r] = "gate" /\ s = Current(r)
  PROVE  Unasked'
<1>. SUFFICES ASSUME NEW u \in Unavailable, NEW s \in u..N
              PROVE  ap'[s] = "none" /\ calls'[s] = 0
  BY DEF Unasked
<1>1. HasItsStep(r) /\ KnowsItsStep(r) /\ Untried(view[r]) /\ HoldsTheWorkflow(r)
  BY DEF IInv, GateInv, StepsInv
<1>2. s \in Steps /\ u \in Steps
  BY LaterSteps
<1>3. ap[s] = "none" /\ calls[s] = 0
  BY DEF StepsInv, Unasked
<1>4. calls'[s] = 0
  BY <1>2, <1>3, ExecutesOnce DEF IInv
<1>5. tgt[r] # s
  BY <1>1, <1>2, <1>3 DEF KnowsItsStep, Steps
<1>6. CASE Rests(r) \/ Proceeds(r) \/ Locks(r) \/ StartsToCancel(r)
           \/ FindsPending(r) \/ Executes(r)
  BY <1>3, <1>4, <1>6
     DEF Rests, Proceeds, Locks, StartsToCancel, FindsPending, Executes
<1>7. CASE CancelsPending(r)
  BY <1>1, <1>2, <1>3, <1>4, <1>7 DEF CancelsPending, HoldsTheWorkflow
<1>8. CASE \E t \in Steps : Asks(r, t)
  <2>1. PICK t \in Steps : Asks(r, t)
    BY <1>8
  <2>2. CASE t = s
    <3>1. ap'[s] # ap[s]
      BY <1>2, <2>1, <2>2 DEF Asks, IInv, TypeOK
    <3>2. pc[r] = "gate" /\ s = Current(r)
      BY <2>1, <2>2, <3>1
    <3>3. Current(r) <= u /\ Current(r) \notin Unavailable
      BY <1>1, <3>2, CurrentIsBefore DEF Current, KnowsItsStep, Passed
    <3>. QED
      BY <1>2, <3>2, <3>3 DEF Steps
  <2>3. CASE t # s
    BY <1>2, <1>3, <1>4, <2>1, <2>3 DEF Asks, IInv, TypeOK
  <2>. QED
    BY <2>2, <2>3
<1>9. CASE Expires(r) \/ Voids(r) \/ Approves(r) \/ Rejects(r)
  BY <1>2, <1>3, <1>4, <1>5, <1>9
     DEF Expires, Voids, Approves, Rejects, IInv, TypeOK
<1>. QED
  BY <1>6, <1>7, <1>8, <1>9 DEF Effect

\* Nothing is approved or executed for a step whose arguments redact() changes.
LEMMA RedactedKept ==
  ASSUME IInv, StepsInv, NEW r \in Requests, Effect(r)
  PROVE  RedactedNeverCalled'
<1>. SUFFICES ASSUME NEW s \in Redacted
              PROVE  calls'[s] = 0 /\ ap'[s] # "approved"
  BY DEF RedactedNeverCalled
<1>1. s \in Steps /\ calls[s] = 0 /\ ap[s] # "approved"
  BY DEF StepsInv, RedactedNeverCalled
<1>2. calls'[s] = 0
  BY <1>1, ExecutesOnce DEF IInv
<1>3. pc[r] = "approve_commit" => tgt[r] # s
  BY DEF StepsInv, KnowsItsStep
<1>4. CASE Rests(r) \/ Proceeds(r) \/ Locks(r) \/ StartsToCancel(r)
           \/ FindsPending(r) \/ Executes(r) \/ CancelsPending(r)
  BY <1>1, <1>2, <1>4
     DEF Rests, Proceeds, Locks, StartsToCancel, FindsPending, Executes, CancelsPending
<1>5. CASE \E t \in Steps : Asks(r, t)
  BY <1>1, <1>2, <1>5 DEF Asks, IInv, TypeOK
<1>6. CASE Expires(r) \/ Voids(r) \/ Approves(r) \/ Rejects(r)
  BY <1>1, <1>2, <1>3, <1>6 DEF Expires, Voids, Approves, Rejects, IInv, TypeOK
<1>. QED
  BY <1>4, <1>5, <1>6 DEF Effect

\* What changes approvals.
LEMMA HandleAsks ==
  ASSUME NEW r \in Requests, Handle(r)
  PROVE  \/ Gate(r) \/ CancelCommit(r) \/ ApproveLock(r)
         \/ ApproveSteps(r) \/ ApproveCommit(r) \/ RejectCommit(r) \/ ap' = ap
<1>1. RunStep(r) => Gate(r) \/ ap' = ap
  BY DEF RunStep, RunGet, RunStart, RunSteps, StepStart, ExecSucceeds, ExecFails,
         ExecRaises, Retry, SaveStep, FailStep, GateTaken, Finish, Refuse
<1>2. ResumeStep(r) => ap' = ap
  BY DEF ResumeStep, ResumeGet, ResumeStart, ResumeEvent
<1>3. CancelStep(r) => CancelCommit(r) \/ ap' = ap
  BY DEF CancelStep, CancelLock, CancelSteps, CancelApprovals
<1>4. ApproveStep(r) => ApproveLock(r) \/ ApproveSteps(r) \/ ApproveCommit(r) \/ ap' = ap
  BY DEF ApproveStep, ApproveGet
<1>5. CallStep(r) => ap' = ap
  BY DEF CallStep, CallGet, CallSteps, Call, CallDenied, CallSave, CallFail
<1>6. RejectStep(r) => RejectCommit(r) \/ ap' = ap
  BY DEF RejectStep, RejectLock, RejectGet, RejectSteps
<1>. QED
  BY <1>1, <1>2, <1>3, <1>4, <1>5, <1>6 DEF Handle

\* The request asks for the approval of the step it has come to.
LEMMA AsksForCurrent ==
  ASSUME IInv, NEW r \in Requests, Handle(r), NEW s \in Steps, Asks(r, s),
         ap'[s] # ap[s]
  PROVE  pc[r] = "gate" /\ s = Current(r)
<1>1. ap[s] = "none" /\ ap'[s] = "pending"
  BY DEF Asks, IInv, TypeOK
<1>2. CASE Gate(r)
  <2>1. Current(r) \in Steps
    BY <1>2, FirstIncompleteIsStep DEF Gate, IInv, GateInv, HasItsStep, AtStep, Current
  <2>. QED
    BY <1>1, <1>2, <2>1 DEF Gate, IInv, TypeOK
<1>3. CASE CancelCommit(r)
  BY <1>1, <1>3 DEF CancelCommit
<1>4. CASE \/ ApproveLock(r) \/ ApproveSteps(r) \/ ApproveCommit(r) \/ RejectCommit(r)
  BY <1>1, <1>4
     DEF ApproveLock, ApproveSteps, ApproveCommit, RejectCommit, IInv, TypeOK
<1>5. CASE ap' = ap
  BY <1>1, <1>5
<1>. QED
  BY <1>2, <1>3, <1>4, <1>5, HandleAsks

\* A step of r keeps what r knows,
LEMMA KnowsItsStepKept ==
  ASSUME IInv, StepsInv, NEW r \in Requests, Effect(r), Comes(r)
  PROVE  KnowsItsStep(r)'
<1>1. KnowsItsStep(r)
  BY DEF StepsInv
<1>2. pc'[r] \in Passed => /\ Current(r)' \notin Unavailable
                           /\ pc'[r] # "gate" => Current(r)' \notin Consequential
  <2>. SUFFICES ASSUME pc'[r] \in Passed
                PROVE  /\ Current(r)' \notin Unavailable
                       /\ pc'[r] # "gate" => Current(r)' \notin Consequential
    OBVIOUS
  <2>1. Works(r)
    BY DEF Comes
  <2>2. Incomplete(view'[r]) = Incomplete(view[r])
    BY <2>1 DEF Works, Incomplete
  <2>3. Current(r)' = Current(r)
    BY <2>2 DEF Current, FirstIncomplete
  <2>4. CASE pc[r] = "step_start"
    BY <2>1, <2>3, <2>4 DEF Works
  <2>5. CASE pc[r] \in {"exec", "retry"}
    BY <1>1, <2>3, <2>5 DEF KnowsItsStep, Passed
  <2>. QED
    BY <2>1, <2>4, <2>5 DEF Works
<1>3. pc'[r] \in Running => tgt'[r] = 0
  BY <1>1 DEF Comes, KnowsItsStep
<1>4. pc'[r] = "call_save" => calls'[tgt'[r]] > 0
  BY DEF Comes
<1>5. pc'[r] = "approve_commit" => tgt'[r] \notin Redacted
  <2>1. tgt'[r] = 0 => tgt'[r] \notin Redacted
    BY DEF Steps
  <2>. QED
    BY <2>1 DEF Comes
<1>6. tgt'[r] # 0 => ap'[tgt'[r]] # "none"
  <2>1. tgt[r] # 0 => tgt[r] \in Steps
    BY DEF IInv, TypeOK, Steps
  <2>. QED
    BY <1>1, <2>1, HistoryGrows DEF Comes, KnowsItsStep
<1>. QED
  BY <1>2, <1>3, <1>4, <1>5, <1>6 DEF KnowsItsStep, Passed

\* and what the others know.
LEMMA OthersKnow ==
  ASSUME IInv, StepsInv, NEW r \in Requests, Effect(r), Untouched(r),
         NEW q \in Requests, q # r
  PROVE  KnowsItsStep(q)'
<1>1. KnowsItsStep(q) /\ HasItsStep(q)
  BY DEF StepsInv, IInv, GateInv
<1>2. pc'[q] = pc[q] /\ tgt'[q] = tgt[q] /\ Current(q)' = Current(q)
  BY DEF Untouched, Current
<1>3. tgt[q] # 0 => tgt[q] \in Steps
  BY DEF IInv, TypeOK, Steps
<1>4. pc[q] = "call_save" => tgt[q] \in Steps
  BY <1>1 DEF HasItsStep, Called
<1>. QED
  BY <1>1, <1>2, <1>3, <1>4, HistoryGrows DEF KnowsItsStep

\* Copies of statuses satisfy what the originals satisfy.
LEMMA FlowsKeep ==
  ASSUME IInv, StepsInv, NEW r \in Requests, Effect(r),
         \A s \in Steps : ViewFlows(r, s) /\ DbFlows(r, s)
  PROVE  /\ Earned(db)' /\ Earned(view[r])'
         /\ Untried(db)' /\ Untried(view[r])'
<1>1. /\ Earned(db) /\ Earned(view[r]) /\ Earned(Written(r))
      /\ Untried(db) /\ Untried(view[r]) /\ Untried(Written(r))
  BY WrittenEarned, WrittenUntried DEF StepsInv
<1>2. ASSUME NEW s \in Consequential
      PROVE  /\ db'.step_status[s] = "completed" => calls'[s] > 0
             /\ view'[r].step_status[s] = "completed" => calls'[s] > 0
  <2>1. s \in Steps
    OBVIOUS
  <2>2. db'.step_status[s] = "completed" => calls[s] > 0
    BY <1>1, <2>1 DEF DbFlows, Earned
  <2>3. view'[r].step_status[s] = "completed" => calls[s] > 0
    BY <1>1, <2>1 DEF ViewFlows, Earned
  <2>. QED
    BY <2>1, <2>2, <2>3, HistoryGrows
<1>3. ASSUME NEW u \in Unavailable, NEW s \in u..N
      PROVE  /\ db'.step_status[s] \in {"pending", "failed", "cancelled"}
             /\ view'[r].step_status[s] \in {"pending", "failed", "cancelled"}
  <2>1. s \in Steps
    BY LaterSteps
  <2>2. \A d : Untried(d) => d.step_status[s] \in {"pending", "failed", "cancelled"}
    BY DEF Untried
  <2>. QED
    BY <1>1, <2>1, <2>2 DEF ViewFlows, DbFlows
<1>. QED
  BY <1>2, <1>3 DEF Earned, Untried

\* The copies of the other sessions stay as they are.
LEMMA OthersKeep ==
  ASSUME IInv, StepsInv, NEW r \in Requests, Effect(r), Untouched(r),
         NEW q \in Requests, q # r
  PROVE  Earned(view[q])' /\ Untried(view[q])'
<1>1. view'[q] = view[q] /\ Earned(view[q]) /\ Untried(view[q])
  BY DEF Untouched, StepsInv
<1>2. \A s \in Steps : calls[s] > 0 => calls'[s] > 0
  BY HistoryGrows
<1>. QED
  BY <1>1, <1>2 DEF Earned, Untried

\* A step of a request preserves the invariant if its own session does.
LEMMA StepKeeps ==
  ASSUME IInv, StepsInv, NEW r \in Requests, Effect(r), Untouched(r), KnowsItsStep(r)',
         \A s \in Steps : ViewFlows(r, s) /\ DbFlows(r, s),
         \A s \in Steps : Asks(r, s) /\ ap'[s] # ap[s] =>
           pc[r] = "gate" /\ s = Current(r)
  PROVE  StepsInv'
<1>1. /\ Earned(db)' /\ Earned(view[r])'
      /\ Untried(db)' /\ Untried(view[r])'
  BY FlowsKeep
<1>2. \A q \in Requests : q # r =>
        Earned(view[q])' /\ Untried(view[q])' /\ KnowsItsStep(q)'
  BY OthersKeep, OthersKnow
<1>3. Unasked' /\ RedactedNeverCalled'
  BY UnaskedKept, RedactedKept
<1>. QED
  BY <1>1, <1>2, <1>3 DEF StepsInv

\* A request arrives and knows no step, or one that was asked for.
LEMMA PostKeepsSteps ==
  ASSUME IInv, StepsInv, NEW r \in Requests, Post(r)
  PROVE  StepsInv'
<1>1. StepInv
  BY DEF IInv, GateInv, StepInv
<1>2. Untouched(r) /\ UNCHANGED <<ap, calls>>
  BY <1>1, PostType DEF IInv
<1>3. PICK label \in {"run_get", "resume_get", "cancel_lock",
                      "approve_lock", "reject_lock"}, s \in {0} \cup Steps :
        /\ Arrive(r, label, s)
        /\ s # 0 => ap[s] # "none"
        /\ label \in {"run_get", "resume_get"} => s = 0
  BY DEF Post, PostRun, PostResume, PostCancel, PostApprove, PostReject
<1>4. /\ pc'[r] = label /\ tgt'[r] = s
      /\ UNCHANGED <<db, view, ap, calls>>
  BY <1>3 DEF Arrive, Goto, IInv, TypeOK, history
<1>5. Effect(r)
  BY <1>4 DEF Effect, Rests, AtWork, Deciding, Calling, Cancelling
<1>6. KnowsItsStep(r)'
  BY <1>3, <1>4 DEF KnowsItsStep, Passed, Running, AtStep
<1>7. \A t \in Steps : ViewFlows(r, t) /\ DbFlows(r, t)
  BY <1>4, KeepFlows
<1>. QED
  BY <1>2, <1>4, <1>5, <1>6, <1>7, StepKeeps

\* A handler step preserves the invariant.
LEMMA HandleKeepsSteps ==
  ASSUME IInv, StepsInv, NEW r \in Requests, Handle(r)
  PROVE  StepsInv'
<1>1. HasItsStep(r) /\ TypeOK
  BY DEF IInv, GateInv
<1>2. Effect(r) /\ Untouched(r) /\ Comes(r)
  BY <1>1, HandleEffect, HandleKeepsStep, HandleComes
<1>3. KnowsItsStep(r)'
  BY <1>2, KnowsItsStepKept
<1>4. \A s \in Steps : ViewFlows(r, s) /\ DbFlows(r, s)
  BY <1>1, HandleFlow
<1>. QED
  BY <1>2, <1>3, <1>4, AsksForCurrent, StepKeeps

\* A session that is lost leaves nothing behind.
LEMMA LossKeepsSteps ==
  ASSUME IInv, StepsInv, NEW r \in Requests, Leave(r), UNCHANGED <<db, ap, calls>>
  PROVE  StepsInv'
<1>1. TypeOK
  BY DEF IInv
<1>2. Effect(r) /\ Untouched(r) /\ pc'[r] = "idle"
  BY <1>1, LeaveRests, LeaveUntouched DEF Effect
<1>3. tgt'[r] = 0
  BY <1>1 DEF Leave, TypeOK
<1>4. KnowsItsStep(r)'
  BY <1>2, <1>3 DEF KnowsItsStep, Passed, Running, AtStep
<1>5. \A s \in Steps : ViewFlows(r, s) /\ DbFlows(r, s)
  BY <1>1, LeaveFlows, SameDbFlows
<1>. QED
  BY <1>2, <1>4, <1>5, StepKeeps

\* Every step preserves it.
LEMMA StepsInvNext ==
  ASSUME IInv, StepsInv, [Next]_vars
  PROVE  StepsInv'
<1>1. ASSUME NEW r \in Requests,
             Post(r) \/ Handle(r) \/ AbortDeadlocked(r) \/ LoseSession(r)
      PROVE  StepsInv'
  BY <1>1, PostKeepsSteps, HandleKeepsSteps, LossKeepsSteps
     DEF AbortDeadlocked, LoseSession, history
<1>2. CASE UNCHANGED <<db, ap, session, calls>>
  BY <1>2 DEF session, StepsInv, Earned, Untried, KnowsItsStep, Unasked,
              RedactedNeverCalled, Current
<1>3. ASSUME NEW s \in Steps, PassDue(s)
      PROVE  StepsInv'
  BY <1>2, <1>3 DEF PassDue, history
<1>4. CASE UNCHANGED vars
  BY <1>2, <1>4 DEF vars, history
<1>. QED
  BY <1>1, <1>3, <1>4 DEF Next, AllAnswered

\* It holds of a workflow that was just created.
LEMMA StepsInvInit ==
  ASSUME Init
  PROVE  StepsInv
<1>1. Earned(Created) /\ Untried(Created)
  BY LaterSteps DEF Earned, Untried, Created
<1>2. \A r \in Requests : KnowsItsStep(r)
  BY DEF Init, KnowsItsStep, Passed, Running, AtStep
<1>3. Unasked
  BY LaterSteps DEF Unasked, Init
<1>. QED
  BY <1>1, <1>2, <1>3 DEF Init, StepsInv, RedactedNeverCalled

-----------------------------------------------------------------------------
(* Theorems.                                                               *)

\* The invariant about steps, together with the gate's, is inductive.
THEOREM StepsInvariant == Spec => [](IInv /\ StepsInv)
<1>1. Init => IInv /\ StepsInv
  BY GateInvInit, StepsInvInit
<1>2. IInv /\ StepsInv /\ [Next]_vars => (IInv /\ StepsInv)'
  BY GateInvNext, StepsInvNext
<1>. QED
  BY <1>1, <1>2, PTL DEF Spec

\* A step is recorded as completed, by run or by execute_approved, only if its
\* consequential operation was executed, and that exactly once.
THEOREM CompletedIsExecuted == Spec => []CompletedWasCalled
<1>1. IInv /\ StepsInv => CompletedWasCalled
  <2>. SUFFICES ASSUME IInv, StepsInv, NEW s \in Consequential,
                       db.step_status[s] = "completed"
                PROVE  calls[s] = 1
    BY DEF CompletedWasCalled
  <2>1. s \in Steps /\ calls[s] > 0
    BY DEF StepsInv, Earned
  <2>2. calls[s] <= 1 /\ calls[s] \in Nat
    BY <2>1 DEF IInv, GateInv, ConsequentialAtMostOnce, TypeOK
  <2>. QED
    BY <2>1, <2>2
<1>. QED
  BY <1>1, StepsInvariant, PTL

\* A write whose arguments redact() changes is never approved and never
\* executed, whatever requests decide it at the same time.
THEOREM RedactedStaysUncalled == Spec => []RedactedNeverCalled
<1>1. IInv /\ StepsInv => RedactedNeverCalled
  BY DEF StepsInv
<1>. QED
  BY <1>1, StepsInvariant, PTL

\* No run, however many there are, gets past a step whose operation is gone from
\* the registry.
THEOREM UnavailableStops == Spec => []UnavailableStopsTheRun
<1>1. IInv /\ StepsInv => UnavailableStopsTheRun
  BY DEF StepsInv, Unasked, Untried, UnavailableStopsTheRun
<1>. QED
  BY <1>1, StepsInvariant, PTL

-----------------------------------------------------------------------------
(* What sessions may still write, and the order in which approvals are     *)
(* asked for.                                                              *)

\* The statements of a transaction that has written something.
Writing == {"run_steps", "finish"} \cup AtStep \cup Cancelling

\* What a session has written and not committed, and what it has read of the
\* workflow.
Session(r) ==
  /\ dirty[r] # {} => pc[r] \in Writing
  /\ \A s \in Steps : <<"step_status", s>> \in dirty[r] =>
       /\ view[r].step_status[s] \in {"completed", "cancelled"}
       /\ pc[r] \notin {"run_steps", "cancel_steps", "cancel_flush"}
  /\ pc[r] \in Cancelling =>
       <<"status", WorkflowRow>> \in dirty[r] /\ view[r].status = "cancelled"
  /\ pc[r] = "approve_commit" => view[r].status = "waiting_for_approval"
  /\ pc[r] = "call_get" => known[r] = {}
  /\ pc[r] \in {"call_steps", "call"} \cup Called => view[r].status = "running"

\* A step of d waits, was approved or was rejected only if that is on record.
OnRecord(d) ==
  \A s \in Steps :
    /\ d.step_status[s] = "waiting_for_approval" => ap[s] # "none"
    /\ d.step_status[s] \in {"approved", "rejected"} => ap[s] = d.step_status[s]

\* A cancellation has found every approval that is pending.
FoundAll(r) ==
  pc[r] = "cancel_commit" => {s \in Steps : ap[s] = "pending"} \subseteq pend[r]

\* Approvals are asked for in the order of the steps.
AskedInOrder ==
  \A s \in Steps : ap[s] # "none" =>
    /\ s \in Consequential
    /\ \A c \in Consequential : c < s => ap[c] = "approved"

\* The committed workflow waits together with a step, whose approval may still
\* be given or has lapsed.
WaitsTogether ==
  /\ \A s \in Steps : db.step_status[s] = "waiting_for_approval" =>
       ap[s] \in {"pending", "expired", "cancelled"}
  /\ db.status = "waiting_for_approval" =>
       \E s \in Steps : db.step_status[s] = "waiting_for_approval"

OrderInv ==
  /\ \A r \in Requests : Session(r) /\ FoundAll(r) /\ OnRecord(view[r])
  /\ OnRecord(db)
  /\ AskedInOrder
  /\ WaitsTogether
  /\ CancelledLeavesNothingPending

\* The columns a flush changes, statement by statement.
LEMMA StatusChanged ==
  ASSUME NEW u, NEW v
  PROVE  /\ <<"status", WorkflowRow>> \in Changed(u, v) <=> u.status # v.status
         /\ \A s \in Steps : <<"step_status", s>> \in Changed(u, v)
                               <=> u.step_status[s] # v.step_status[s]
<1>1. <<"status", WorkflowRow>> \in Columns
  BY DEF Columns
<1>2. \A s \in Steps : <<"step_status", s>> \in Columns
  BY DEF Columns
<1>. QED
  BY <1>1, <1>2 DEF Changed

-----------------------------------------------------------------------------
(* A session stays as described.                                           *)

\* A request that is over has written and read nothing.
LEMMA LeaveSession ==
  ASSUME TypeOK, NEW r \in Requests, Leave(r)
  PROVE  Session(r)'
BY LeaveUntouched DEF Leave, TypeOK, Session, Cancelling, Called

\* One that goes on after a commit has written nothing.
LEMMA ContinueSession ==
  ASSUME TypeOK, NEW r \in Requests, NEW label, NEW step, NEW rows,
         Continue(r, label, step, rows),
         label \in {"resume_event", "run_get"} \/ (label = "call_get" /\ rows = {})
  PROVE  Session(r)'
<1>1. pc'[r] = label /\ dirty'[r] = {} /\ known'[r] = rows
  BY DEF Continue, Goto, TypeOK
<1>. QED
  BY <1>1 DEF Session, Cancelling, Called

\* What a request has copied of the workflow stays when it reads steps.
LEMMA ReadKeepsStatus ==
  ASSUME NEW r, NEW rows, WorkflowRow \notin rows
  PROVE  Loaded(r, rows).status = view[r].status
BY DEF Loaded, Overwrite

\* The flushes of `run` and `resume_workflow` write the columns they change.
LEMMA FlushSession ==
  ASSUME TypeOK, NEW r \in Requests, HasItsStep(r), Session(r), Flush(r),
         NEW label, Goto(r, label),
         \/ pc[r] = "run_start" /\ label = "run_steps"
         \/ pc[r] = "step_start" /\ label \in {"fail", "gate", "exec"}
         \/ pc[r] = "retry" /\ label = "exec"
         \/ pc[r] = "save" /\ label \in {"finish", "step_start"}
         \/ pc[r] = "resume_event" /\ label = "run_get"
         \/ pc[r] = "cancel_flush" /\ label = "cancel_commit"
  PROVE  Session(r)'
<1>. DEFINE W == Changed(view[r], Written(r))
<1>1. /\ pc'[r] = label /\ view'[r] = Written(r) /\ dirty'[r] = dirty[r] \cup W
  BY DEF Flush, Goto, TypeOK
<1>2. /\ <<"status", WorkflowRow>> \in W <=> view[r].status # Written(r).status
      /\ \A s \in Steps : <<"step_status", s>> \in W
                            <=> view[r].step_status[s] # Written(r).step_status[s]
  BY StatusChanged
<1>3. view[r] \in RowValues
  BY DEF TypeOK
<1>4. CASE pc[r] = "run_start"
  <2>1. Written(r) = [view[r] EXCEPT !.status = "running"]
    BY <1>4 DEF Written
  <2>2. \A s \in Steps : <<"step_status", s>> \notin dirty'[r]
    BY <1>1, <1>2, <1>3, <1>4, <2>1 DEF RowValues, Session, Writing, AtStep, Cancelling
  <2>. QED
    BY <1>1, <1>4, <2>2 DEF Session, Writing, Cancelling, Called
<1>5. CASE pc[r] \in {"step_start", "resume_event"}
  <2>1. Written(r) = view[r]
    BY <1>5 DEF Written
  <2>2. W = {}
    BY <2>1 DEF Changed, Columns
  <2>. QED
    BY <1>1, <1>5, <2>1, <2>2 DEF Session, Writing, AtStep, Cancelling, Called
<1>6. CASE pc[r] = "retry"
  <2>1. \A s \in Steps : Written(r).step_status[s] = view[r].step_status[s]
    BY <1>3, <1>6 DEF Written, RowValues
  <2>. QED
    BY <1>1, <1>2, <1>6, <2>1 DEF Session, Writing, AtStep, Cancelling, Called
<1>7. CASE pc[r] = "save"
  <2>. DEFINE t == IF tgt[r] # 0 THEN tgt[r] ELSE Current(r)
  <2>1. Written(r) = [view[r] EXCEPT !.step_status[t] = "completed", !.current_step = t]
    BY <1>7 DEF Written
  <2>2. \A s \in Steps : Written(r).step_status[s] # view[r].step_status[s] =>
          Written(r).step_status[s] = "completed"
    <3>. HIDE DEF t
    <3>. QED
      BY <1>3, <2>1 DEF RowValues
  <2>. QED
    BY <1>1, <1>2, <1>7, <2>2 DEF Session, Writing, AtStep, Cancelling, Called
<1>8. CASE pc[r] = "cancel_flush"
  <2>1. \A s \in Steps : Written(r).step_status[s] \in {"completed", "cancelled"}
    BY <1>3, <1>8 DEF Written, RowValues
  <2>2. Written(r).status = view[r].status
    BY <1>3, <1>8 DEF Written, RowValues
  <2>. QED
    BY <1>1, <1>8, <2>1, <2>2 DEF Session, Writing, AtStep, Cancelling, Called
<1>. QED
  BY <1>4, <1>5, <1>6, <1>7, <1>8

\* Every handler step leaves its session as described.
LEMMA SessionKept ==
  ASSUME TypeOK, NEW r \in Requests, HasItsStep(r), Session(r), Handle(r)
  PROVE  Session(r)'
<1>. USE DEF Writing, AtStep, Cancelling, Called
<1>0. WorkflowRow \notin Steps
  BY DEF WorkflowRow, Steps
<1>1. CASE Leave(r)
  BY <1>1, LeaveSession
<1>2. ASSUME NEW rows, Read(r, rows), NEW label, Goto(r, label), dirty' = dirty,
             dirty[r] = {}, label \in Labels \ (Cancelling \cup Called),
             label \notin {"approve_commit", "call_get", "call_steps", "call"}
      PROVE  Session(r)'
  <2>1. pc'[r] = label /\ dirty'[r] = {}
    BY <1>2 DEF Goto, TypeOK
  <2>. QED
    BY <1>2, <2>1 DEF Session
<1>3. CASE RunSteps(r)
  <2>1. PICK label \in {"finish", "step_start"} : Goto(r, label)
    BY <1>3 DEF RunSteps, Advance
  <2>2. pc'[r] = label /\ dirty'[r] = dirty[r]
    BY <1>3, <2>1 DEF RunSteps, Goto, TypeOK
  <2>. QED
    BY <1>3, <2>1, <2>2 DEF RunSteps, Session
<1>4. CASE ExecSucceeds(r) \/ ExecFails(r)
  <2>1. PICK label \in {"save", "retry", "fail"} : Goto(r, label)
    BY <1>4 DEF ExecSucceeds, ExecFails
  <2>2. pc'[r] = label /\ dirty' = dirty /\ view' = view
    BY <1>4, <2>1 DEF ExecSucceeds, ExecFails, Goto, TypeOK
  <2>. QED
    BY <1>4, <2>1, <2>2 DEF ExecSucceeds, ExecFails, Session
<1>5. CASE RunStep(r)
  <2>1. CASE RunGet(r) /\ ~ Leave(r)
    <3>1. dirty[r] = {}
      BY <2>1 DEF RunGet, Session
    <3>. QED
      BY <1>2, <2>1, <3>1 DEF RunGet, Labels
  <2>2. CASE StepStart(r)
    <3>1. PICK label \in {"fail", "gate", "exec"} : Goto(r, label)
      BY <2>2 DEF StepStart
    <3>. QED
      BY <2>2, <3>1, FlushSession DEF StepStart
  <2>3. CASE RunStart(r) \/ Retry(r)
    BY <2>3, FlushSession DEF RunStart, Retry
  <2>4. CASE SaveStep(r)
    <3>1. PICK label \in {"finish", "step_start"} : Goto(r, label)
      BY <2>4 DEF SaveStep, Advance
    <3>. QED
      BY <2>4, <3>1, FlushSession DEF SaveStep
  <2>. QED
    BY <1>1, <1>3, <1>4, <1>5, <2>1, <2>2, <2>3, <2>4
       DEF RunStep, ExecRaises, FailStep, Gate, GateTaken, Finish, Refuse
<1>6. CASE ResumeStep(r)
  <2>1. CASE ResumeGet(r) /\ ~ Leave(r)
    <3>1. dirty[r] = {}
      BY <2>1 DEF ResumeGet, Session
    <3>. QED
      BY <1>2, <2>1, <3>1 DEF ResumeGet, Labels
  <2>2. CASE ResumeStart(r)
    BY <2>2, ContinueSession DEF ResumeStart
  <2>3. CASE ResumeEvent(r)
    BY <2>3, FlushSession DEF ResumeEvent
  <2>. QED
    BY <1>1, <1>6, <2>1, <2>2, <2>3 DEF ResumeStep
<1>7. CASE CancelLock(r) /\ ~ Leave(r)
  <2>1. /\ pc'[r] = "cancel_steps"
        /\ dirty'[r] = {<<"status", WorkflowRow>>}
        /\ view'[r] = [Loaded(r, {WorkflowRow}) EXCEPT !.status = "cancelled"]
    BY <1>7 DEF CancelLock, Goto, TypeOK
  <2>2. view'[r].status = "cancelled"
    BY <2>1 DEF Loaded, Overwrite
  <2>3. \A s \in Steps : <<"step_status", s>> \notin dirty'[r]
    BY <2>1
  <2>. QED
    BY <2>1, <2>2, <2>3 DEF Session
<1>8. CASE CancelSteps(r)
  <2>1. pc'[r] = "cancel_flush" /\ dirty'[r] = dirty[r] /\ view'[r] = Loaded(r, Steps)
    BY <1>8 DEF CancelSteps, Read, Goto, TypeOK
  <2>2. view'[r].status = view[r].status
    BY <1>0, <2>1, ReadKeepsStatus
  <2>. QED
    BY <1>8, <2>1, <2>2 DEF CancelSteps, Session
<1>9. CASE CancelApprovals(r)
  BY <1>9, FlushSession DEF CancelApprovals
<1>10. CASE ApproveSteps(r) /\ ~ Leave(r)
  <2>1. /\ pc'[r] = "approve_commit" /\ dirty'[r] = dirty[r]
        /\ view'[r] = Loaded(r, Steps) /\ Actionable(r)
    BY <1>10 DEF ApproveSteps, Read, Goto, TypeOK
  <2>2. view'[r].status = "waiting_for_approval"
    BY <1>0, <2>1, ReadKeepsStatus DEF Actionable
  <2>3. dirty[r] = {}
    BY <1>10 DEF ApproveSteps, Session
  <2>. QED
    BY <2>1, <2>2, <2>3 DEF Session
<1>11. CASE (ApproveLock(r) \/ RejectLock(r)) /\ ~ Leave(r)
  <2>1. pc'[r] \in {"approve_get", "reject_get"} /\ dirty'[r] = dirty[r]
    BY <1>11 DEF ApproveLock, RejectLock, Goto, TypeOK
  <2>2. dirty[r] = {}
    BY <1>11 DEF ApproveLock, RejectLock, Session
  <2>. QED
    BY <2>1, <2>2 DEF Session
<1>12. CASE ApproveGet(r) \/ RejectGet(r) \/ RejectSteps(r)
  <2>1. dirty[r] = {}
    BY <1>12 DEF ApproveGet, RejectGet, RejectSteps, Session
  <2>. QED
    BY <1>2, <1>12, <2>1 DEF ApproveGet, RejectGet, RejectSteps, Labels
<1>13. CASE CallGet(r) /\ ~ Leave(r)
  <2>1. /\ pc'[r] = "call_steps" /\ dirty'[r] = dirty[r]
        /\ view'[r] = Loaded(r, {WorkflowRow}) /\ db.status = "running"
    BY <1>13 DEF CallGet, Read, Goto, TypeOK
  <2>2. known[r] = {} /\ dirty[r] = {}
    BY <1>13 DEF CallGet, Session
  <2>3. <<"status", WorkflowRow>> \in {c \in Columns : c[2] \in {WorkflowRow} \ known[r]}
    BY <2>2 DEF Columns
  <2>4. view'[r].status = "running"
    BY <2>1, <2>3 DEF Loaded, Overwrite
  <2>. QED
    BY <2>1, <2>2, <2>4 DEF Session
<1>14. CASE CallSteps(r) /\ ~ Leave(r)
  <2>1. /\ pc'[r] = "call" /\ dirty'[r] = dirty[r] /\ view'[r] = Loaded(r, {tgt[r]})
    BY <1>14 DEF CallSteps, Read, Goto, TypeOK
  <2>2. tgt[r] \in Steps
    BY <1>14 DEF CallSteps, HasItsStep, Calling
  <2>3. view'[r].status = view[r].status
    BY <2>1, <2>2, ReadKeepsStatus DEF Steps, WorkflowRow
  <2>. QED
    BY <1>14, <2>1, <2>3 DEF CallSteps, Session
<1>15. CASE Call(r) \/ CallDenied(r)
  <2>1. pc'[r] \in Called /\ dirty'[r] = dirty[r] /\ view'[r] = view[r]
    BY <1>15 DEF Call, CallDenied, Goto, TypeOK
  <2>. QED
    BY <1>15, <2>1 DEF Call, CallDenied, Session
<1>16. CASE ApproveCommit(r)
  BY <1>16, ContinueSession DEF ApproveCommit
<1>17. CASE CallSave(r)
  BY <1>17, ContinueSession DEF CallSave
<1>18. CASE CancelStep(r) \/ ApproveStep(r)
  BY <1>1, <1>7, <1>8, <1>9, <1>10, <1>11, <1>12, <1>16, <1>18
     DEF CancelStep, ApproveStep, CancelCommit
<1>19. CASE CallStep(r) \/ RejectStep(r)
  BY <1>1, <1>11, <1>12, <1>13, <1>14, <1>15, <1>17, <1>19
     DEF CallStep, RejectStep, CallFail, RejectCommit
<1>. QED
  BY <1>5, <1>6, <1>18, <1>19 DEF Handle

\* The other sessions have written and read what they had.
LEMMA OthersWritten ==
  ASSUME TypeOK, NEW r \in Requests, Handle(r), NEW q \in Requests, q # r
  PROVE  dirty'[q] = dirty[q] /\ known'[q] = known[q]
<1>. DEFINE Same == dirty'[q] = dirty[q] /\ known'[q] = known[q]
<1>1. CASE Leave(r)
  BY <1>1 DEF Leave, TypeOK
<1>2. CASE \E label, step, rows : Continue(r, label, step, rows)
  BY <1>2 DEF Continue, TypeOK
<1>3. CASE Flush(r) /\ known' = known
  BY <1>3 DEF Flush, TypeOK
<1>4. CASE \E rows : Read(r, rows) /\ dirty' = dirty
  BY <1>4 DEF Read, TypeOK
<1>5. CASE dirty' = dirty /\ known' = known
  BY <1>5
<1>. HIDE DEF Same
<1>6. CASE RunStep(r)
  BY <1>1, <1>3, <1>4, <1>5, <1>6
     DEF RunStep, RunGet, RunStart, RunSteps, StepStart, ExecSucceeds, ExecFails,
         ExecRaises, Retry, SaveStep, FailStep, Gate, GateTaken, Finish, Refuse
<1>7. CASE ResumeStep(r)
  BY <1>1, <1>2, <1>3, <1>4, <1>7 DEF ResumeStep, ResumeGet, ResumeStart, ResumeEvent
<1>8. CASE CancelStep(r)
  <2>1. CASE CancelLock(r) /\ ~ Leave(r)
    BY <2>1 DEF CancelLock, TypeOK
  <2>. QED
    BY <1>1, <1>3, <1>4, <1>8, <2>1
       DEF CancelStep, CancelSteps, CancelApprovals, CancelCommit
<1>9. CASE ApproveStep(r)
  BY <1>1, <1>2, <1>4, <1>5, <1>9
     DEF ApproveStep, ApproveLock, ApproveGet, ApproveSteps, ApproveCommit
<1>10. CASE CallStep(r)
  BY <1>1, <1>2, <1>4, <1>5, <1>10
     DEF CallStep, CallGet, CallSteps, Call, CallDenied, CallSave, CallFail
<1>11. CASE RejectStep(r)
  BY <1>1, <1>4, <1>5, <1>11
     DEF RejectStep, RejectLock, RejectGet, RejectSteps, RejectCommit
<1>. QED
  BY <1>6, <1>7, <1>8, <1>9, <1>10, <1>11 DEF Handle

-----------------------------------------------------------------------------
(* Approvals.                                                              *)

\* An approval is asked for, and becomes pending, at the gate only.
LEMMA AskedAtGate ==
  ASSUME IInv, NEW r \in Requests, Handle(r), NEW s \in Steps,
         ap'[s] # ap[s], ap[s] = "none" \/ ap'[s] = "pending"
  PROVE  Gate(r) /\ s = Current(r) /\ ap[s] = "none" /\ ap'[s] = "pending"
<1>1. /\ HasItsStep(r) /\ HoldsItsApproval(r) /\ HoldsTheWorkflow(r)
      /\ ap \in [Steps -> ApprovalStatus \cup {"none"}]
  BY DEF IInv, GateInv, TypeOK
<1>2. CASE Gate(r)
  <2>1. Current(r) \in Steps
    BY <1>1, <1>2, FirstIncompleteIsStep DEF Gate, HasItsStep, AtStep, Current
  <2>. QED
    BY <1>1, <1>2, <2>1 DEF Gate
<1>3. ~ CancelCommit(r)
  BY <1>1 DEF CancelCommit, HoldsTheWorkflow
<1>4. ~ ApproveLock(r)
  BY <1>1 DEF ApproveLock
<1>5. ~ (ApproveSteps(r) \/ ApproveCommit(r) \/ RejectCommit(r))
  BY <1>1 DEF ApproveSteps, ApproveCommit, RejectCommit, HoldsItsApproval, Deciding
<1>6. Handle(r) => \/ Gate(r) \/ CancelCommit(r) \/ ApproveLock(r)
                   \/ ApproveSteps(r) \/ ApproveCommit(r) \/ RejectCommit(r) \/ ap' = ap
  BY HandleAsks
<1>. QED
  BY <1>2, <1>3, <1>4, <1>5, <1>6

\* What is asked for comes after approved steps: the run that asks has found
\* them completed, and completed means executed.
LEMMA AskedInOrderKept ==
  ASSUME IInv, StepsInv, AskedInOrder, NEW r \in Requests, Handle(r), Effect(r)
  PROVE  AskedInOrder'
<1>. Consequential \subseteq Steps
  OBVIOUS
<1>1. \A c \in Steps : ap[c] = "approved" => ap'[c] = "approved"
  BY DecisionStays DEF IInv
<1>2. ASSUME NEW s \in Steps, ap'[s] # "none", ap[s] # "none"
      PROVE  s \in Consequential /\ \A c \in Consequential : c < s => ap'[c] = "approved"
  BY <1>1, <1>2 DEF AskedInOrder
<1>3. ASSUME NEW s \in Steps, ap'[s] # "none", ap[s] = "none"
      PROVE  s \in Consequential /\ \A c \in Consequential : c < s => ap'[c] = "approved"
  <2>1. Gate(r) /\ s = Current(r)
    BY <1>3, AskedAtGate
  <2>2. s \in Consequential /\ Incomplete(view[r]) # {}
    BY <2>1 DEF Gate, IInv, GateInv, HasItsStep, AtStep
  <2>3. \A c \in Incomplete(view[r]) : s <= c
    <3>1. Incomplete(view[r]) \in SUBSET Steps
      BY DEF Incomplete
    <3>2. \E q \in Incomplete(view[r]) : \A c \in Incomplete(view[r]) : q <= c
      BY <2>2, <3>1, FirstStep
    <3>. QED
      BY <2>1, <3>2 DEF Current, FirstIncomplete
  <2>4. ASSUME NEW c \in Consequential, c < s PROVE ap'[c] = "approved"
    <3>1. c \in Steps /\ c \notin Incomplete(view[r])
      BY <1>3, <2>3, <2>4 DEF Steps
    <3>2. view[r].step_status[c] = "completed"
      BY <3>1 DEF Incomplete
    <3>3. calls[c] > 0
      BY <3>2, <2>4 DEF StepsInv, Earned
    <3>4. ap[c] = "approved"
      BY <3>1, <3>3 DEF IInv, GateInv, ActedOnlyOnApproval
    <3>. QED
      BY <1>1, <3>1, <3>4
  <2>. QED
    BY <2>2, <2>4
<1>. QED
  BY <1>2, <1>3 DEF AskedInOrder

\* So at most one is pending.
LEMMA OnePending ==
  ASSUME AskedInOrder, NEW s \in Steps, NEW t \in Steps,
         ap[s] = "pending", ap[t] = "pending"
  PROVE  s = t
<1>1. ~ (s < t) /\ ~ (t < s)
  BY DEF AskedInOrder
<1>. QED
  BY <1>1 DEF Steps

\* A cancellation goes on to know of every pending approval: to ask for another
\* one, a run inserts an event, whose foreign key needs the workflow's row.
LEMMA FoundAllKept ==
  ASSUME IInv, OrderInv, NEW r \in Requests, Handle(r), Effect(r), Untouched(r),
         NEW q \in Requests
  PROVE  FoundAll(q)'
<1>1. CASE q = r
  <2>. SUFFICES ASSUME pc'[r] = "cancel_commit"
                PROVE  {s \in Steps : ap'[s] = "pending"} \subseteq pend'[r]
    BY <1>1 DEF FoundAll
  <2>1. FindsPending(r)
    BY DEF Effect, Rests, Proceeds, Locks, StartsToCancel, CancelsPending, Asks, Expires, Voids,
           Approves, Rejects, Executes, AtWork, Cancelling, Deciding, Calling, Called
  <2>. QED
    BY <2>1 DEF FindsPending
<1>2. CASE q # r
  <2>. SUFFICES ASSUME pc[q] = "cancel_commit", NEW s \in Steps, ap'[s] = "pending"
                PROVE  s \in pend[q]
    BY <1>2 DEF FoundAll, Untouched
  <2>1. ap[s] = "pending" => s \in pend[q]
    BY DEF OrderInv, FoundAll
  <2>2. <<"update", WorkflowRow>> \in held[q]
    BY DEF IInv, GateInv, HoldsTheWorkflow, Cancelling
  <2>3. ~ Gate(r)
    <3>1. Gate(r) => Granted(r) /\ <<"key_share", WorkflowRow>> \in Wanted(r)
      BY DEF Gate, Persist, Wanted, RecordsEvent
    <3>. QED
      BY <1>2, <2>2, <3>1, UpdateExcludes
  <2>. QED
    BY <2>1, <2>3, AskedAtGate
<1>. QED
  BY <1>1, <1>2

-----------------------------------------------------------------------------
(* Copies and approvals.                                                   *)

\* A record stays: what d tells is on record after the step as well.
LEMMA RecordStays ==
  ASSUME IInv, NEW r \in Requests, Effect(r), NEW d, OnRecord(d), NEW s \in Steps
  PROVE  /\ d.step_status[s] = "waiting_for_approval" => ap'[s] # "none"
         /\ d.step_status[s] \in {"approved", "rejected"} => ap'[s] = d.step_status[s]
BY HistoryGrows, DecisionStays DEF IInv, OnRecord

\* The request that asks, approves or rejects keeps no copy of the step.
LEMMA DecisionsForget ==
  ASSUME TypeOK, NEW r \in Requests, Handle(r),
         pc[r] \in {"gate", "approve_commit", "reject_commit"}, NEW s \in Steps
  PROVE  view'[r].step_status[s] = "pending"
<1>1. CASE Leave(r)
  BY <1>1 DEF Leave, TypeOK, Created
<1>2. CASE \E label, step : Continue(r, label, step, {})
  <2>1. view'[r] = Overwrite(Created, Written(r), {c \in Columns : c[2] \in {}})
    BY <1>2 DEF Continue, TypeOK
  <2>. QED
    BY <2>1 DEF Overwrite, Created
<1>3. Leave(r) \/ \E label, step : Continue(r, label, step, {})
  <2>1. RunStep(r) => Leave(r)
    BY DEF RunStep, RunGet, RunStart, RunSteps, StepStart, ExecSucceeds, ExecFails,
           ExecRaises, Retry, SaveStep, FailStep, Gate, GateTaken, Finish, Refuse
  <2>2. ~ ResumeStep(r) /\ ~ CancelStep(r) /\ ~ CallStep(r)
    BY DEF ResumeStep, ResumeGet, ResumeStart, ResumeEvent,
           CancelStep, CancelLock, CancelSteps, CancelApprovals, CancelCommit,
           CallStep, CallGet, CallSteps, Call, CallDenied, CallSave, CallFail
  <2>3. ApproveStep(r) => \E label, step : Continue(r, label, step, {})
    BY DEF ApproveStep, ApproveLock, ApproveGet, ApproveSteps, ApproveCommit
  <2>4. RejectStep(r) => Leave(r)
    BY DEF RejectStep, RejectLock, RejectGet, RejectSteps, RejectCommit
  <2>. QED
    BY <2>1, <2>2, <2>3, <2>4 DEF Handle
<1>. QED
  BY <1>1, <1>2, <1>3

\* A step that is saved is completed.
LEMMA WrittenSaves ==
  ASSUME TypeOK, NEW r \in Requests, NEW s \in Steps, pc[r] \in {"save", "call_save"}
  PROVE  Written(r).step_status[s] \in {"completed", view[r].step_status[s]}
<1>. DEFINE t == IF tgt[r] # 0 THEN tgt[r] ELSE Current(r)
<1>1. Written(r) = [view[r] EXCEPT !.step_status[t] = "completed", !.current_step = t]
  BY DEF Written
<1>2. view[r] \in RowValues
  BY DEF TypeOK
<1>. HIDE DEF t
<1>. QED
  BY <1>1, <1>2 DEF RowValues

\* The copies of the request that takes a step stay on record,
LEMMA ViewRecordKept ==
  ASSUME IInv, OrderInv, NEW r \in Requests, Handle(r), Effect(r)
  PROVE  OnRecord(view[r])'
<1>. SUFFICES ASSUME NEW s \in Steps
              PROVE  /\ view'[r].step_status[s] = "waiting_for_approval" => ap'[s] # "none"
                     /\ view'[r].step_status[s] \in {"approved", "rejected"}
                          => ap'[s] = view'[r].step_status[s]
  BY DEF OnRecord
<1>1. TypeOK /\ HasItsStep(r) /\ OnRecord(db) /\ OnRecord(view[r])
  BY DEF IInv, GateInv, OrderInv
<1>2. ViewFlows(r, s)
  BY <1>1, HandleFlow
<1>3. pc[r] \in {"gate", "approve_commit", "reject_commit"} =>
        view'[r].step_status[s] = "pending"
  BY <1>1, DecisionsForget
<1>4. \/ Written(r).step_status[s] = view[r].step_status[s]
      \/ Written(r).step_status[s] \in {"failed", "cancelled", "completed"}
      \/ pc[r] \in {"gate", "approve_commit", "reject_commit"}
  BY <1>1, WrittenStatus, WrittenSaves
<1>5. CASE view'[r].step_status[s] = db.step_status[s]
  BY <1>1, <1>5, RecordStays
<1>6. CASE view'[r].step_status[s] = view[r].step_status[s]
  BY <1>1, <1>6, RecordStays
<1>. QED
  BY <1>2, <1>3, <1>4, <1>5, <1>6 DEF ViewFlows

\* and so do those of the others.
LEMMA OtherRecordsKept ==
  ASSUME IInv, OrderInv, NEW r \in Requests, Effect(r), Untouched(r),
         NEW q \in Requests, q # r
  PROVE  OnRecord(view[q])'
<1>1. view'[q] = view[q] /\ OnRecord(view[q])
  BY DEF Untouched, OrderInv
<1>. QED
  BY <1>1, RecordStays DEF OnRecord

-----------------------------------------------------------------------------
(* What a commit makes of the committed rows.                              *)

Committed == OnRecord(db) /\ WaitsTogether /\ CancelledLeavesNothingPending

\* Nothing is committed, and at most an approval lapses.
Lapses ==
  /\ db' = db
  /\ \A s \in Steps : ap'[s] # ap[s] => ap[s] = "pending" /\ ap'[s] \in {"expired", "cancelled"}

\* The handler steps that commit.
LEMMA WhatCommits ==
  ASSUME IInv, NEW r \in Requests, Handle(r)
  PROVE  \/ Lapses
         \/ FailStep(r) \/ Gate(r) \/ Finish(r) \/ ResumeStart(r) \/ CancelCommit(r)
         \/ ApproveCommit(r) \/ CallSave(r) \/ CallFail(r) \/ RejectCommit(r)
<1>1. CASE db' = db /\ ap' = ap
  BY <1>1 DEF Lapses
<1>2. ap \in [Steps -> ApprovalStatus \cup {"none"}] /\ HoldsItsApproval(r)
  BY DEF IInv, TypeOK, GateInv
<1>3. CASE ApproveLock(r)
  BY <1>2, <1>3 DEF ApproveLock, Lapses
<1>4. CASE ApproveSteps(r)
  BY <1>2, <1>4 DEF ApproveSteps, HoldsItsApproval, Deciding, Lapses
<1>5. CASE RunStep(r)
  BY <1>1, <1>5
     DEF RunStep, RunGet, RunStart, RunSteps, StepStart, ExecSucceeds, ExecFails,
         ExecRaises, Retry, SaveStep, GateTaken, Refuse
<1>6. CASE ResumeStep(r)
  BY <1>1, <1>6 DEF ResumeStep, ResumeGet, ResumeEvent
<1>7. CASE CancelStep(r)
  BY <1>1, <1>7 DEF CancelStep, CancelLock, CancelSteps, CancelApprovals
<1>8. CASE ApproveStep(r)
  BY <1>1, <1>3, <1>4, <1>8 DEF ApproveStep, ApproveGet
<1>9. CASE CallStep(r)
  BY <1>1, <1>9 DEF CallStep, CallGet, CallSteps, Call, CallDenied
<1>10. CASE RejectStep(r)
  BY <1>1, <1>10 DEF RejectStep, RejectLock, RejectGet, RejectSteps
<1>. QED
  BY <1>5, <1>6, <1>7, <1>8, <1>9, <1>10 DEF Handle

\* A commit writes what the session has flushed and what it changes now.
LEMMA CommitStatus ==
  ASSUME NEW r \in Requests, Persist(r)
  PROVE  /\ db'.status \in {db.status, Written(r).status}
         /\ \/ <<"status", WorkflowRow>> \in dirty[r]
            \/ Written(r).status # view[r].status
            => db'.status = Written(r).status
         /\ dirty[r] = {} /\ Written(r).status = view[r].status => db'.status = db.status
BY StatusChanged DEF Persist, Overwrite

\* The same for the status of a step: what an earlier flush left to be committed
\* is a completion or a cancellation.
LEMMA CommitStep ==
  ASSUME NEW r \in Requests, Persist(r), Session(r), NEW s \in Steps
  PROVE  /\ Written(r).step_status[s] # view[r].step_status[s]
              => db'.step_status[s] = Written(r).step_status[s]
         /\ Written(r).step_status[s] = view[r].step_status[s]
              => db'.step_status[s] \in {db.step_status[s], "completed", "cancelled"}
         /\ dirty[r] = {} /\ Written(r).step_status[s] = view[r].step_status[s]
              => db'.step_status[s] = db.step_status[s]
<1>. DEFINE W == dirty[r] \cup Changed(view[r], Written(r))
<1>1. db'.step_status[s] = IF <<"step_status", s>> \in W
                             THEN Written(r).step_status[s] ELSE db.step_status[s]
  BY DEF Persist, Overwrite
<1>2. <<"step_status", s>> \in Changed(view[r], Written(r))
        <=> view[r].step_status[s] # Written(r).step_status[s]
  BY StatusChanged
<1>3. <<"step_status", s>> \in dirty[r] => view[r].step_status[s] \in {"completed", "cancelled"}
  BY DEF Session
<1>. QED
  BY <1>1, <1>2, <1>3

\* From running to failed or completed: nothing waits any longer.
LEMMA EndCommitted ==
  ASSUME IInv, OrderInv, NEW r \in Requests, Persist(r), ap' = ap,
         view[r].status = "running", Written(r).status \in {"failed", "completed"},
         pc[r] \in {"fail", "call_fail", "finish"}
  PROVE  Committed'
<1>1. db'.status \in {"failed", "completed"}
  BY CommitStatus
<1>2. ASSUME NEW s \in Steps
      PROVE  db'.step_status[s] \in {db.step_status[s], "completed", "cancelled", "failed"}
  <2>1. Written(r).step_status[s] \in {view[r].step_status[s], "failed", "cancelled"}
    BY WrittenStatus DEF IInv, GateInv
  <2>2. Session(r)
    BY DEF OrderInv
  <2>. QED
    BY <2>1, <2>2, CommitStep
<1>. QED
  BY <1>1, <1>2
     DEF OrderInv, Committed, OnRecord, WaitsTogether, CancelledLeavesNothingPending

\* The statements that move a workflow on find the status they move it from.
LEMMA MovesFrom ==
  /\ \A x : x \in WorkflowStatus =>
       /\ CanMove(x, "failed") => x = "running"
       /\ CanMove(x, "completed") => x = "running"
       /\ CanMove(x, "waiting_for_approval") => x = "running"
       /\ ~ CanMove("cancelled", "cancelled")
BY DEF CanMove, Transitions, WorkflowStatus

\* The gate is committed with its step, and the workflow waits for both.
LEMMA GateCommitted ==
  ASSUME IInv, StepsInv, OrderInv, NEW r \in Requests, Gate(r)
  PROVE  Committed'
<1>. DEFINE t == Current(r)
<1>1. /\ t \in Steps /\ ap[t] = "none"
      /\ view[r] \in RowValues /\ ap \in [Steps -> ApprovalStatus \cup {"none"}]
      /\ Session(r) /\ OnRecord(view[r]) /\ OnRecord(db) /\ WaitsTogether
  BY FirstIncompleteIsStep
     DEF Gate, IInv, GateInv, HasItsStep, AtStep, Current, OrderInv, TypeOK
<1>2. view[r].status = "running"
  BY <1>1, MovesFrom DEF Gate, RowValues
<1>3. tgt[r] = 0
  BY DEF StepsInv, KnowsItsStep, Running, AtStep, Gate
<1>. HIDE DEF t
<1>4. Written(r) = [view[r] EXCEPT !.step_status[t] = "waiting_for_approval",
                                   !.status = "waiting_for_approval"]
  BY <1>3 DEF Gate, Written, t
<1>5. /\ Written(r).status = "waiting_for_approval"
      /\ Written(r).step_status[t] = "waiting_for_approval"
      /\ \A s \in Steps \ {t} : Written(r).step_status[s] = view[r].step_status[s]
  BY <1>1, <1>4 DEF RowValues
<1>6. view[r].step_status[t] # "waiting_for_approval"
  BY <1>1 DEF OnRecord
<1>7. Persist(r) /\ ap' = [ap EXCEPT ![t] = "pending"]
  BY DEF Gate, t
<1>8. /\ db'.status = "waiting_for_approval"
      /\ db'.step_status[t] = "waiting_for_approval"
      /\ \A s \in Steps \ {t} :
           db'.step_status[s] \in {db.step_status[s], "completed", "cancelled"}
  BY <1>1, <1>2, <1>5, <1>6, <1>7, CommitStatus, CommitStep
<1>9. ap'[t] = "pending" /\ \A s \in Steps \ {t} : ap'[s] = ap[s]
  BY <1>1, <1>7
<1>10. OnRecord(db)'
  BY <1>1, <1>8, <1>9 DEF OnRecord
<1>11. WaitsTogether'
  BY <1>1, <1>8, <1>9 DEF WaitsTogether
<1>. QED
  BY <1>8, <1>10, <1>11 DEF Committed, CancelledLeavesNothingPending

\* Cancelling takes every pending approval along.
LEMMA CancelCommitted ==
  ASSUME IInv, OrderInv, NEW r \in Requests, CancelCommit(r)
  PROVE  Committed'
<1>1. /\ Session(r) /\ FoundAll(r) /\ OnRecord(db) /\ WaitsTogether
      /\ \A s \in pend[r] : ap[s] \in {"pending", "expired", "cancelled"}
  BY DEF OrderInv, IInv, GateInv, HoldsTheWorkflow, CancelCommit
<1>2. Written(r) = view[r]
  BY DEF CancelCommit, Written
<1>3. db'.status = "cancelled"
  BY <1>1, <1>2, CommitStatus DEF CancelCommit, Session, Cancelling
<1>4. \A s \in Steps : db'.step_status[s] \in {db.step_status[s], "completed", "cancelled"}
  BY <1>1, <1>2, CommitStep DEF CancelCommit
<1>5. \A s \in Steps : ap'[s] = IF s \in pend[r] THEN "cancelled" ELSE ap[s]
  BY DEF CancelCommit
<1>6. \A s \in Steps : ap'[s] # "pending"
  BY <1>1, <1>5 DEF FoundAll, CancelCommit
<1>7. OnRecord(db)'
  BY <1>1, <1>4, <1>5 DEF OnRecord
<1>8. WaitsTogether'
  BY <1>1, <1>3, <1>4, <1>5 DEF WaitsTogether
<1>. QED
  BY <1>6, <1>7, <1>8 DEF Committed, CancelledLeavesNothingPending

\* A decision is committed with its step, and the workflow goes on or ends.
LEMMA DecisionCommitted ==
  ASSUME IInv, OrderInv, NEW r \in Requests, ApproveCommit(r) \/ RejectCommit(r)
  PROVE  Committed'
<1>. DEFINE t == tgt[r]
            x == IF pc[r] = "approve_commit" THEN "approved" ELSE "rejected"
            y == IF pc[r] = "approve_commit" THEN "running" ELSE "cancelled"
<1>1. /\ t \in Steps /\ ap[t] = "pending"
      /\ view[r] \in RowValues /\ ap \in [Steps -> ApprovalStatus \cup {"none"}]
      /\ Session(r) /\ OnRecord(view[r]) /\ OnRecord(db) /\ WaitsTogether
  BY DEF ApproveCommit, RejectCommit, IInv, GateInv, HasItsStep, HoldsItsApproval,
         Deciding, OrderInv, TypeOK
<1>2. t # 0
  BY <1>1 DEF Steps
<1>3. Written(r) = [view[r] EXCEPT !.step_status[t] = x, !.status = y]
  BY <1>2 DEF Written, ApproveCommit, RejectCommit
<1>4. Persist(r) /\ ap' = [ap EXCEPT ![t] = x]
  BY DEF ApproveCommit, RejectCommit
<1>5. view[r].status # y
  <2>1. CASE ApproveCommit(r)
    BY <1>1, <2>1 DEF ApproveCommit, Session
  <2>2. CASE RejectCommit(r)
    <3>1. pc[r] = "reject_commit" /\ CanMove(view[r].status, "cancelled")
      BY <2>2 DEF RejectCommit
    <3>2. ~ CanMove("cancelled", "cancelled")
      BY DEF CanMove, Transitions
    <3>. QED
      BY <3>1, <3>2
  <2>. QED
    BY <2>1, <2>2
<1>6. x \in {"approved", "rejected"} /\ y \in {"running", "cancelled"}
      /\ (y = "cancelled" => x = "rejected")
  OBVIOUS
<1>. HIDE DEF t, x, y
<1>7. /\ Written(r).status = y /\ Written(r).step_status[t] = x
      /\ \A s \in Steps \ {t} : Written(r).step_status[s] = view[r].step_status[s]
  BY <1>1, <1>3 DEF RowValues
<1>8. view[r].step_status[t] # x
  BY <1>1, <1>6 DEF OnRecord
<1>9. /\ db'.status = y /\ db'.step_status[t] = x
      /\ \A s \in Steps \ {t} :
           db'.step_status[s] \in {db.step_status[s], "completed", "cancelled"}
  BY <1>1, <1>4, <1>5, <1>7, <1>8, CommitStatus, CommitStep
<1>10. ap'[t] = x /\ \A s \in Steps \ {t} : ap'[s] = ap[s]
  BY <1>1, <1>4
<1>11. \A s \in Steps : ap'[s] # "pending"
  BY <1>1, <1>6, <1>10, OnePending DEF OrderInv
<1>12. OnRecord(db)'
  BY <1>1, <1>6, <1>9, <1>10 DEF OnRecord
<1>13. WaitsTogether'
  BY <1>1, <1>6, <1>9, <1>10 DEF WaitsTogether
<1>. QED
  BY <1>11, <1>12, <1>13 DEF Committed, CancelledLeavesNothingPending

\* The first commit of a resumption touches no step.
LEMMA ResumeCommitted ==
  ASSUME IInv, OrderInv, NEW r \in Requests, ResumeStart(r)
  PROVE  Committed'
<1>1. /\ view[r] \in RowValues /\ dirty[r] = {} /\ Session(r)
      /\ OnRecord(db) /\ WaitsTogether /\ CancelledLeavesNothingPending
  <2>1. Session(r) /\ OnRecord(db) /\ WaitsTogether /\ CancelledLeavesNothingPending
    BY DEF OrderInv
  <2>2. view[r] \in RowValues
    BY DEF IInv, TypeOK
  <2>3. dirty[r] = {}
    BY <2>1 DEF ResumeStart, Session, Writing, AtStep, Cancelling
  <2>. QED
    BY <2>1, <2>2, <2>3
<1>2. Written(r) = [view[r] EXCEPT !.status = "running"]
  BY DEF ResumeStart, Written
<1>3. Written(r).status = "running" /\ Written(r).step_status = view[r].step_status
  BY <1>1, <1>2 DEF RowValues
<1>4. db'.status \in {db.status, "running"} /\ ap' = ap
  BY <1>3, CommitStatus DEF ResumeStart
<1>5. \A s \in Steps : db'.step_status[s] = db.step_status[s]
  BY <1>1, <1>3, CommitStep DEF ResumeStart
<1>. QED
  BY <1>1, <1>4, <1>5
     DEF Committed, OnRecord, WaitsTogether, CancelledLeavesNothingPending

\* The commit of an execution completes a step that does not wait.
LEMMA CallCommitted ==
  ASSUME IInv, StepsInv, OrderInv, NEW r \in Requests, CallSave(r)
  PROVE  Committed'
<1>. DEFINE t == tgt[r]
<1>1. /\ t \in Steps /\ t # 0
      /\ view[r] \in RowValues /\ dirty[r] = {} /\ Session(r)
      /\ OnRecord(db) /\ WaitsTogether /\ CancelledLeavesNothingPending
  <2>1. HasItsStep(r) /\ TypeOK
    BY DEF IInv, GateInv
  <2>2. t \in Steps
    BY <2>1 DEF CallSave, HasItsStep, Called
  <2>3. t # 0
    BY <2>2 DEF Steps
  <2>4. view[r] \in RowValues
    BY <2>1 DEF TypeOK
  <2>5. /\ Session(r) /\ OnRecord(db) /\ WaitsTogether
        /\ CancelledLeavesNothingPending
    BY DEF OrderInv
  <2>6. dirty[r] = {}
    BY <2>5 DEF CallSave, Session, Writing, AtStep, Cancelling
  <2>. QED
    BY <2>2, <2>3, <2>4, <2>5, <2>6
<1>2. ap[t] = "approved"
  BY <1>1 DEF CallSave, StepsInv, KnowsItsStep, IInv, GateInv, ActedOnlyOnApproval
<1>3. Written(r) = [view[r] EXCEPT !.step_status[t] = "completed", !.current_step = t]
  BY <1>1 DEF CallSave, Written
<1>4. Persist(r) /\ ap' = ap
  BY DEF CallSave
<1>. HIDE DEF t
<1>5. /\ Written(r).status = view[r].status
      /\ Written(r).step_status[t] = "completed"
      /\ \A s \in Steps \ {t} : Written(r).step_status[s] = view[r].step_status[s]
  BY <1>1, <1>3 DEF RowValues
<1>6. db'.status = db.status
  BY <1>1, <1>4, <1>5, CommitStatus
<1>7. \A s \in Steps \ {t} : db'.step_status[s] = db.step_status[s]
  BY <1>1, <1>4, <1>5, CommitStep
<1>8. db'.step_status[t] \in {db.step_status[t], "completed", "cancelled"}
  BY <1>1, <1>4, <1>5, CommitStep
<1>9. db.step_status[t] # "waiting_for_approval"
  BY <1>1, <1>2 DEF WaitsTogether
<1>10. OnRecord(db)'
  BY <1>1, <1>4, <1>7, <1>8 DEF OnRecord
<1>11. WaitsTogether'
  BY <1>1, <1>4, <1>6, <1>7, <1>8, <1>9 DEF WaitsTogether
<1>. QED
  BY <1>1, <1>4, <1>6, <1>10, <1>11 DEF Committed, CancelledLeavesNothingPending

\* Every handler step keeps the committed rows and the approvals together.
LEMMA CommittedKept ==
  ASSUME IInv, StepsInv, OrderInv, NEW r \in Requests, Handle(r)
  PROVE  Committed'
<1>1. CASE Lapses
  BY <1>1 DEF Lapses, OrderInv, Committed, OnRecord, WaitsTogether,
              CancelledLeavesNothingPending
<1>2. view[r] \in RowValues /\ Session(r)
  BY DEF IInv, TypeOK, OrderInv
<1>3. CASE FailStep(r) \/ CallFail(r) \/ Finish(r)
  <2>1. view[r].status = "running"
    BY <1>2, <1>3, MovesFrom
       DEF FailStep, CallFail, Finish, RowValues, Session, Called
  <2>2. Written(r).status \in {"failed", "completed"}
    BY <1>2, <1>3 DEF FailStep, CallFail, Finish, Written, RowValues
  <2>. QED
    BY <1>3, <2>1, <2>2, EndCommitted DEF FailStep, CallFail, Finish
<1>. QED
  BY <1>1, <1>3, WhatCommits, GateCommitted, CancelCommitted, DecisionCommitted,
     ResumeCommitted, CallCommitted

-----------------------------------------------------------------------------
(* The invariant is inductive.                                             *)

\* A handler step preserves it,
LEMMA HandleKeepsOrder ==
  ASSUME IInv, StepsInv, OrderInv, NEW r \in Requests, Handle(r)
  PROVE  OrderInv'
<1>1. HasItsStep(r) /\ TypeOK /\ Session(r)
  BY DEF IInv, GateInv, OrderInv
<1>2. Effect(r) /\ Untouched(r)
  BY <1>1, HandleEffect, HandleKeepsStep
<1>3. ASSUME NEW q \in Requests
      PROVE  Session(q)' /\ FoundAll(q)' /\ OnRecord(view[q])'
  <2>1. FoundAll(q)'
    BY <1>2, FoundAllKept
  <2>2. CASE q = r
    BY <1>1, <1>2, <2>1, <2>2, SessionKept, ViewRecordKept
  <2>3. CASE q # r
    <3>1. Session(q)
      BY DEF OrderInv
    <3>2. pc'[q] = pc[q] /\ view'[q] = view[q] /\ dirty'[q] = dirty[q] /\ known'[q] = known[q]
      BY <1>1, <1>2, <2>3, OthersWritten DEF Untouched
    <3>3. Session(q)'
      BY <3>1, <3>2 DEF Session
    <3>. QED
      BY <1>2, <2>1, <2>3, <3>3, OtherRecordsKept
  <2>. QED
    BY <2>2, <2>3
<1>4. AskedInOrder'
  BY <1>2, AskedInOrderKept DEF OrderInv
<1>. QED
  BY <1>3, <1>4, CommittedKept DEF OrderInv, Committed

\* and so does a request that arrives, or a session that is lost.
LEMMA IdleKeepsOrder ==
  ASSUME IInv, OrderInv, NEW r \in Requests, UNCHANGED <<db, ap>>,
         Leave(r) \/ Post(r)
  PROVE  OrderInv'
<1>1. TypeOK /\ Session(r) /\ OnRecord(view[r])
  BY DEF IInv, OrderInv
<1>2. CASE Leave(r)
  <2>1. Session(r)' /\ pc'[r] = "idle" /\ view'[r] = Created
    BY <1>1, <1>2, LeaveSession, LeaveUntouched DEF Leave, TypeOK
  <2>2. FoundAll(r)' /\ OnRecord(view[r])'
    BY <2>1 DEF FoundAll, OnRecord, Created
  <2>3. ASSUME NEW q \in Requests, q # r
        PROVE  /\ pc'[q] = pc[q] /\ view'[q] = view[q] /\ dirty'[q] = dirty[q]
               /\ known'[q] = known[q] /\ pend'[q] = pend[q]
    BY <1>1, <1>2, <2>3 DEF Leave, Goto, TypeOK
  <2>4. \A q \in Requests : q # r => Session(q)' /\ FoundAll(q)' /\ OnRecord(view[q])'
    BY <2>3 DEF OrderInv, Session, FoundAll, OnRecord
  <2>. QED
    BY <2>1, <2>2, <2>4
       DEF OrderInv, OnRecord, AskedInOrder, WaitsTogether, CancelledLeavesNothingPending
<1>3. CASE Post(r)
  <2>1. PICK label \in {"run_get", "resume_get", "cancel_lock",
                        "approve_lock", "reject_lock"}, s \in {0} \cup Steps :
          Arrive(r, label, s)
    BY <1>3 DEF Post, PostRun, PostResume, PostCancel, PostApprove, PostReject
  <2>2. /\ pc[r] = "idle" /\ pc'[r] = label
        /\ \A q \in Requests : q # r => pc'[q] = pc[q]
        /\ UNCHANGED <<known, view, dirty, pend>>
    BY <1>1, <2>1 DEF Arrive, Goto, TypeOK
  <2>3. Session(r)' /\ FoundAll(r)'
    BY <1>1, <2>2 DEF Session, FoundAll, Writing, AtStep, Cancelling, Called
  <2>4. \A q \in Requests : q # r => Session(q)' /\ FoundAll(q)'
    BY <2>2 DEF OrderInv, Session, FoundAll
  <2>. QED
    BY <2>2, <2>3, <2>4
       DEF OrderInv, OnRecord, AskedInOrder, WaitsTogether, CancelledLeavesNothingPending
<1>. QED
  BY <1>2, <1>3

\* Every step preserves it.
LEMMA OrderInvNext ==
  ASSUME IInv, StepsInv, OrderInv, [Next]_vars
  PROVE  OrderInv'
<1>1. ASSUME NEW r \in Requests, Post(r)
      PROVE  OrderInv'
  <2>1. UNCHANGED <<db, ap>>
    BY <1>1 DEF Post, PostRun, PostResume, PostCancel, PostApprove, PostReject, Arrive
  <2>. QED
    BY <1>1, <2>1, IdleKeepsOrder
<1>2. ASSUME NEW r \in Requests, AbortDeadlocked(r) \/ LoseSession(r)
      PROVE  OrderInv'
  BY <1>2, IdleKeepsOrder DEF AbortDeadlocked, LoseSession
<1>3. CASE UNCHANGED <<db, ap, session>>
  BY <1>3 DEF session, OrderInv, Session, FoundAll, OnRecord, AskedInOrder, WaitsTogether,
              CancelledLeavesNothingPending
<1>4. ASSUME NEW s \in Steps, PassDue(s)
      PROVE  OrderInv'
  BY <1>3, <1>4 DEF PassDue
<1>5. CASE UNCHANGED vars
  BY <1>3, <1>5 DEF vars
<1>. QED
  BY <1>1, <1>2, <1>4, <1>5, HandleKeepsOrder DEF Next, AllAnswered

\* It holds of a workflow that was just created.
LEMMA OrderInvInit ==
  ASSUME Init
  PROVE  OrderInv
<1>1. \A r \in Requests : Session(r) /\ FoundAll(r) /\ OnRecord(view[r])
  BY DEF Init, Session, FoundAll, OnRecord, Created, Cancelling, Called
<1>2. OnRecord(db) /\ AskedInOrder /\ WaitsTogether /\ CancelledLeavesNothingPending
  BY DEF Init, OnRecord, AskedInOrder, WaitsTogether, CancelledLeavesNothingPending, Created
<1>. QED
  BY <1>1, <1>2 DEF OrderInv

\* What sessions may still write and what approvals were asked for, whatever
\* requests interleave: the inductive invariant behind the two theorems below.
THEOREM OrderInvariant == Spec => []OrderInv
<1>1. Init => IInv /\ StepsInv /\ OrderInv
  BY GateInvInit, StepsInvInit, OrderInvInit
<1>2. IInv /\ StepsInv /\ OrderInv /\ [Next]_vars => (IInv /\ StepsInv /\ OrderInv)'
  BY GateInvNext, StepsInvNext, OrderInvNext
<1>. QED
  BY <1>1, <1>2, PTL DEF Spec

\* A workflow that waits waits at one step, whose approval may still be given,
\* or has expired, or was taken back: no stale session completes, moves or adds
\* a gate.
THEOREM WaitsAtOneGate == Spec => []WaitingAtOneGate
<1>1. OrderInv => WaitingAtOneGate
  <2>. SUFFICES ASSUME OrderInv, db.status = "waiting_for_approval"
                PROVE  \E s \in Steps :
                         /\ db.step_status[s] = "waiting_for_approval"
                         /\ ap[s] \in {"pending", "expired", "cancelled"}
                         /\ \A q \in Steps \ {s} : db.step_status[q] # "waiting_for_approval"
    BY DEF WaitingAtOneGate
  <2>1. PICK s \in Steps : db.step_status[s] = "waiting_for_approval"
    BY DEF OrderInv, WaitsTogether
  <2>2. \A q \in Steps : db.step_status[q] = "waiting_for_approval" =>
          ap[q] \in {"pending", "expired", "cancelled"}
    BY DEF OrderInv, WaitsTogether
  <2>3. ASSUME NEW q \in Steps \ {s}, db.step_status[q] = "waiting_for_approval"
        PROVE  FALSE
    <3>1. /\ ap[q] \in {"pending", "expired", "cancelled"}
          /\ ap[s] \in {"pending", "expired", "cancelled"}
      BY <2>1, <2>2, <2>3
    <3>2. ~ (s < q) /\ ~ (q < s)
      BY <3>1 DEF OrderInv, AskedInOrder
    <3>. QED
      BY <3>2 DEF Steps
  <2>. QED
    BY <2>1, <2>2, <2>3
<1>. QED
  BY <1>1, OrderInvariant, PTL

\* A workflow that was cancelled or rejected leaves no approval to be given,
\* though a run that has not noticed may be on its way to ask for one.
THEOREM NothingLeftPending == Spec => []CancelledLeavesNothingPending
<1>1. OrderInv => CancelledLeavesNothingPending
  BY DEF OrderInv
<1>. QED
  BY <1>1, OrderInvariant, PTL

=============================================================================
