------------------------- MODULE WorkflowRecordProofs -------------------------
(***************************************************************************)
(* What is on record of a workflow, for every number of steps: the audit   *)
(* trail agrees with the rows, whatever requests interleave, whichever     *)
(* sessions are lost; when requests come one at a time, the rows tell how  *)
(* far the workflow has come; and no request tries a step too often.       *)
(***************************************************************************)
EXTENDS WorkflowTrail, WorkflowStepsProofs

USE EngineAssumption, TrailAssumption

-----------------------------------------------------------------------------
(* Who may complete a consequential step, and who may undo that.           *)

\* A request that acts for an approval has one, its step is not completed, and
\* its copy of the step says so.
Acts(r) ==
  /\ pc[r] \in Calling \cup Called =>
       ap[tgt[r]] = "approved" /\ db.step_status[tgt[r]] # "completed"
  /\ pc[r] = "call_steps" => tgt[r] \notin known[r]
  /\ pc[r] \in {"call"} \cup Called => view[r].step_status[tgt[r]] # "completed"

\* It is the only one.
ActApart(q, r) ==
  pc[q] \in Calling \cup Called /\ pc[r] \in Calling \cup Called => tgt[q] # tgt[r]

\* What a session has written of the workflow and of the consequential steps; a
\* cancellation knows of every consequential step that is completed.
Wrote(r) ==
  /\ <<"status", WorkflowRow>> \in dirty[r] /\ pc[r] \notin Cancelling =>
       view[r].status = "running"
  /\ \A s \in Consequential : <<"step_status", s>> \in dirty[r] =>
       pc[r] = "cancel_commit" /\ view[r].step_status[s] = "cancelled"
  /\ pc[r] = "cancel_steps" => known[r] = {WorkflowRow}
  /\ pc[r] \in {"cancel_flush", "cancel_commit"} =>
       \A s \in Consequential :
         db.step_status[s] = "completed" => view[r].step_status[s] = "completed"
  /\ pc[r] = "fail" => Current(r) \notin Consequential \ Unavailable

RecordInv ==
  /\ \A r \in Requests : Acts(r) /\ Wrote(r)
  /\ \A q, r \in Requests : q # r => ActApart(q, r)

\* The invariants before it.
Before == IInv /\ StepsInv /\ OrderInv

\* What a commit makes of the status of a step, and of the workflow.
LEMMA CommitValues ==
  ASSUME NEW r \in Requests, Persist(r)
  PROVE  /\ db'.status =
              IF <<"status", WorkflowRow>> \in dirty[r] \/ Written(r).status # view[r].status
                THEN Written(r).status ELSE db.status
         /\ \A s \in Steps : db'.step_status[s] =
              IF \/ <<"step_status", s>> \in dirty[r]
                 \/ Written(r).step_status[s] # view[r].step_status[s]
                THEN Written(r).step_status[s] ELSE db.step_status[s]
BY StatusChanged DEF Persist, Overwrite

\* The step whose status a request is about to set, at the statements that
\* commit one.
LEMMA WrittenAt ==
  ASSUME Before, NEW r \in Requests, NEW s \in Steps,
         Written(r).step_status[s] # view[r].step_status[s]
  PROVE  \/ /\ pc[r] \in {"save", "fail", "gate"} /\ s = Current(r)
            /\ Written(r).step_status[s] = "completed" => pc[r] = "save"
            /\ Written(r).step_status[s] = "failed" => pc[r] = "fail"
         \/ /\ pc[r] \in {"call_save", "call_fail", "approve_commit", "reject_commit"}
            /\ s = tgt[r]
            /\ Written(r).step_status[s] = "completed" => pc[r] = "call_save"
            /\ Written(r).step_status[s] = "failed" => pc[r] = "call_fail"
         \/ pc[r] = "cancel_flush" /\ Written(r).step_status[s] = "cancelled"
<1>. DEFINE v == view[r]
            t == IF tgt[r] # 0 THEN tgt[r] ELSE Current(r)
<1>1. v \in RowValues /\ HasItsStep(r) /\ KnowsItsStep(r)
  BY DEF Before, IInv, TypeOK, GateInv, StepsInv
<1>2. pc[r] \in {"save", "fail", "gate"} => t = Current(r)
  BY <1>1 DEF KnowsItsStep, Running, AtStep
<1>3. pc[r] \in {"call_save", "call_fail", "approve_commit", "reject_commit"} => t = tgt[r]
  BY <1>1 DEF HasItsStep, Deciding, Called, Steps
<1>. HIDE DEF v, t
<1>4. CASE pc[r] \in {"save", "call_save"}
  <2>1. Written(r) = [v EXCEPT !.step_status[t] = "completed", !.current_step = t]
    BY <1>4 DEF Written, t, v
  <2>2. s = t
    BY <1>1, <2>1 DEF RowValues, v
  <2>3. Written(r).step_status[s] = "completed"
    BY <1>1, <2>1, <2>2 DEF RowValues
  <2>. QED
    BY <1>2, <1>3, <1>4, <2>2, <2>3
<1>5. CASE pc[r] \in {"fail", "call_fail"}
  <2>1. Written(r) = [v EXCEPT !.step_status[t] = "failed", !.status = "failed"]
    BY <1>5 DEF Written, t, v
  <2>2. s = t
    BY <1>1, <2>1 DEF RowValues, v
  <2>3. Written(r).step_status[s] = "failed"
    BY <1>1, <2>1, <2>2 DEF RowValues
  <2>. QED
    BY <1>2, <1>3, <1>5, <2>2, <2>3
<1>6. CASE pc[r] \in {"gate", "approve_commit", "reject_commit"}
  <2>1. \E x \in {"waiting_for_approval", "approved", "rejected"}, y \in WorkflowStatus :
          Written(r) = [v EXCEPT !.step_status[t] = x, !.status = y]
    BY <1>6 DEF Written, t, v, WorkflowStatus
  <2>2. s = t
    BY <1>1, <2>1 DEF RowValues, v
  <2>3. Written(r).step_status[s] \in {"waiting_for_approval", "approved", "rejected"}
    BY <1>1, <2>1, <2>2 DEF RowValues
  <2>. QED
    BY <1>2, <1>3, <1>6, <2>2, <2>3
<1>7. CASE pc[r] = "cancel_flush"
  <2>1. Written(r).step_status =
          [q \in Steps |-> IF v.step_status[q] = "completed"
                             THEN "completed" ELSE "cancelled"]
    BY <1>1, <1>7 DEF Written, v, RowValues
  <2>. QED
    BY <1>7, <2>1 DEF v
<1>8. CASE pc[r] \notin {"save", "call_save", "fail", "call_fail", "gate",
                         "approve_commit", "reject_commit", "cancel_flush"}
  <2>1. Written(r).step_status = view[r].step_status
    BY <1>1, <1>8 DEF Written, v, RowValues
  <2>. QED
    BY <2>1
<1>. QED
  BY <1>4, <1>5, <1>6, <1>7, <1>8

\* What is not decided was not executed.
LEMMA UndecidedIsIncomplete ==
  ASSUME Before, NEW s \in Consequential, ap[s] # "approved"
  PROVE  db.step_status[s] # "completed"
<1>1. s \in Steps
  OBVIOUS
<1>. QED
  BY <1>1 DEF Before, StepsInv, Earned, IInv, GateInv, ActedOnlyOnApproval

\* The statements that commit, one by one.
Commits ==
  {"fail", "gate", "finish", "resume_start", "cancel_commit", "approve_commit",
   "call_save", "call_fail", "reject_commit"}

LEMMA CommitsPersist ==
  ASSUME Before, NEW r \in Requests, Handle(r)
  PROVE  \/ Lapses
         \/ /\ pc[r] \in Commits
            /\ Persist(r)
            /\ pc[r] = "gate" => ap[Current(r)] = "none"
            /\ pc[r] \in {"approve_commit", "reject_commit"} => ap[tgt[r]] = "pending"
<1>1. HoldsItsApproval(r)
  BY DEF Before, IInv, GateInv
<1>2. CASE \/ FailStep(r) \/ Gate(r) \/ Finish(r) \/ ResumeStart(r) \/ CancelCommit(r)
           \/ ApproveCommit(r) \/ CallSave(r) \/ CallFail(r) \/ RejectCommit(r)
  BY <1>1, <1>2
     DEF Commits, FailStep, Gate, Finish, ResumeStart, CancelCommit, ApproveCommit,
         CallSave, CallFail, RejectCommit, HoldsItsApproval, Deciding
<1>. QED
  BY <1>2, WhatCommits DEF Before

LEMMA CallSaveAt ==
  ASSUME NEW r \in Requests, Handle(r), pc[r] = "call_save"
  PROVE  CallSave(r)
<1>1. ~ RunStep(r)
  BY DEF RunStep, RunGet, RunStart, RunSteps, StepStart, ExecSucceeds, ExecFails,
         ExecRaises, Retry, SaveStep, FailStep, Gate, GateTaken, Finish, Refuse
<1>2. ~ ResumeStep(r) /\ ~ CancelStep(r)
  BY DEF ResumeStep, ResumeGet, ResumeStart, ResumeEvent,
         CancelStep, CancelLock, CancelSteps, CancelApprovals, CancelCommit
<1>3. ~ ApproveStep(r) /\ ~ RejectStep(r)
  BY DEF ApproveStep, ApproveLock, ApproveGet, ApproveSteps, ApproveCommit,
         RejectStep, RejectLock, RejectGet, RejectSteps, RejectCommit
<1>. QED
  BY <1>1, <1>2, <1>3 DEF Handle, CallStep, CallGet, CallSteps, Call, CallDenied, CallFail

\* A consequential step that is completed stays completed, and only the commit
\* of its execution completes it.
LEMMA ConsequentialStays ==
  ASSUME Before, RecordInv, NEW r \in Requests, Handle(r), NEW s \in Consequential
  PROVE  /\ db.step_status[s] = "completed" => db'.step_status[s] = "completed"
         /\ db.step_status[s] # "completed" /\ db'.step_status[s] = "completed" =>
              CallSave(r) /\ s = tgt[r]
<1>1. s \in Steps /\ s \in s..N
  BY DEF Steps
<1>2. CASE Lapses
  BY <1>2 DEF Lapses
<1>3. CASE ~ Lapses
  <2>1. /\ pc[r] \in Commits
        /\ Persist(r)
        /\ pc[r] = "gate" => ap[Current(r)] = "none"
        /\ pc[r] \in {"approve_commit", "reject_commit"} => ap[tgt[r]] = "pending"
    BY <1>3, CommitsPersist
  <2>2. db'.step_status[s] =
          IF \/ <<"step_status", s>> \in dirty[r]
             \/ Written(r).step_status[s] # view[r].step_status[s]
            THEN Written(r).step_status[s] ELSE db.step_status[s]
    BY <1>1, <2>1, CommitValues
  <2>3. Acts(r) /\ Wrote(r)
    BY DEF RecordInv
  <2>4. CASE Written(r).step_status[s] # view[r].step_status[s]
    <3>1. \/ pc[r] \in {"fail", "gate"} /\ s = Current(r)
          \/ pc[r] \in {"call_save", "call_fail", "approve_commit", "reject_commit"}
               /\ s = tgt[r]
      BY <1>1, <2>1, <2>4, WrittenAt DEF Commits
    <3>2. db.step_status[s] # "completed"
      <4>1. CASE pc[r] = "fail" /\ s = Current(r)
        <5>1. s \in Unavailable
          BY <2>3, <4>1 DEF Wrote
        <5>. QED
          BY <1>1, <5>1 DEF Before, StepsInv, Untried
      <4>2. CASE pc[r] \in {"gate", "approve_commit", "reject_commit"}
        <5>1. ap[s] # "approved"
          BY <2>1, <3>1, <4>2
        <5>. QED
          BY <5>1, UndecidedIsIncomplete
      <4>3. CASE pc[r] \in {"call_save", "call_fail"}
        BY <2>3, <3>1, <4>3 DEF Acts, Called
      <4>. QED
        BY <3>1, <4>1, <4>2, <4>3
    <3>3. db'.step_status[s] = "completed" => pc[r] = "call_save" /\ s = tgt[r]
      BY <1>1, <2>1, <2>2, <2>4, WrittenAt DEF Commits
    <3>. QED
      BY <3>2, <3>3, CallSaveAt
  <2>5. CASE Written(r).step_status[s] = view[r].step_status[s]
             /\ <<"step_status", s>> \in dirty[r]
    <3>1. pc[r] = "cancel_commit" /\ view[r].step_status[s] = "cancelled"
      BY <2>3, <2>5 DEF Wrote
    <3>2. db.step_status[s] # "completed"
      BY <2>3, <3>1 DEF Wrote
    <3>. QED
      BY <2>2, <2>5, <3>1, <3>2
  <2>. QED
    BY <2>2, <2>4, <2>5
<1>. QED
  BY <1>2, <1>3

-----------------------------------------------------------------------------
(* The invariant is preserved: requests that act.                          *)

\* A request comes to act by an approval, and stays with its step.
LEMMA ComesToAct ==
  ASSUME TypeOK, NEW r \in Requests, Handle(r), pc'[r] \in Calling \cup Called
  PROVE  \/ /\ pc[r] \in Calling /\ tgt'[r] = tgt[r] /\ UNCHANGED <<db, ap>>
            /\ pc'[r] = "call_steps" => CallGet(r)
            /\ pc'[r] = "call" => CallSteps(r)
            /\ pc'[r] \in Called => pc[r] = "call" /\ view'[r] = view[r]
         \/ ApproveCommit(r) /\ pc'[r] = "call_get" /\ tgt'[r] = tgt[r]
<1>. USE DEF Calling, Called
<1>1. CASE Leave(r)
  BY <1>1 DEF Leave, Goto, TypeOK
<1>2. ASSUME NEW label \in Labels \ (Calling \cup Called), Goto(r, label)
      PROVE  FALSE
  BY <1>2 DEF Goto, TypeOK
<1>3. CASE CallGet(r) \/ CallSteps(r) \/ Call(r) \/ CallDenied(r)
  BY <1>1, <1>3 DEF CallGet, CallSteps, Call, CallDenied, Goto, TypeOK
<1>4. CASE ApproveCommit(r)
  BY <1>4, ContinueUntouched DEF ApproveCommit
<1>5. CASE CallSave(r) \/ CallFail(r)
  <2>1. pc'[r] \in {"run_get", "idle"}
    BY <1>5, ContinueUntouched, LeaveUntouched DEF CallSave, CallFail
  <2>. QED
    BY <2>1
<1>6. CASE RunStep(r)
  BY <1>1, <1>2, <1>6
     DEF RunStep, RunGet, RunStart, RunSteps, StepStart, ExecSucceeds, ExecFails,
         ExecRaises, Retry, SaveStep, FailStep, Gate, GateTaken, Finish, Refuse,
         Advance, Labels
<1>7. CASE ResumeStep(r)
  <2>1. CASE ResumeStart(r)
    BY <2>1, ContinueUntouched DEF ResumeStart
  <2>. QED
    BY <1>1, <1>2, <1>7, <2>1 DEF ResumeStep, ResumeGet, ResumeEvent, Labels
<1>8. CASE CancelStep(r)
  BY <1>1, <1>2, <1>8
     DEF CancelStep, CancelLock, CancelSteps, CancelApprovals, CancelCommit, Labels
<1>9. CASE ApproveStep(r)
  BY <1>1, <1>2, <1>4, <1>9 DEF ApproveStep, ApproveLock, ApproveGet, ApproveSteps, Labels
<1>10. CASE RejectStep(r)
  BY <1>1, <1>2, <1>10
     DEF RejectStep, RejectLock, RejectGet, RejectSteps, RejectCommit, Labels
<1>. QED
  BY <1>3, <1>4, <1>5, <1>6, <1>7, <1>8, <1>9, <1>10 DEF Handle, CallStep

\* A decided step is completed by no other step than the commit of its execution.
LEMMA StaysIncomplete ==
  ASSUME Before, RecordInv, NEW r \in Requests, Handle(r), NEW s \in Steps,
         ap[s] # "none", db.step_status[s] # "completed",
         ~ (CallSave(r) /\ s = tgt[r])
  PROVE  db'.step_status[s] # "completed"
<1>1. s \in Consequential
  BY DEF Before, OrderInv, AskedInOrder
<1>. QED
  BY <1>1, ConsequentialStays

\* A request that acts goes on to have an approval that nobody else uses,
LEMMA ActsKept ==
  ASSUME Before, RecordInv, NEW r \in Requests, Handle(r)
  PROVE  Acts(r)'
<1>. SUFFICES ASSUME pc'[r] \in Calling \cup Called
              PROVE  Acts(r)'
  BY DEF Acts, Calling
<1>1. TypeOK /\ HasItsStep(r) /\ HasItsStep(r)' /\ Acts(r) /\ Session(r)
  <2>1. TypeOK /\ HasItsStep(r)
    BY DEF Before, IInv, GateInv
  <2>. QED
    BY <2>1, HandleKeepsStep DEF Before, RecordInv, OrderInv
<1>2. tgt'[r] \in Steps
  BY <1>1 DEF HasItsStep
<1>3. CASE ApproveCommit(r) /\ pc'[r] = "call_get" /\ tgt'[r] = tgt[r]
  <2>1. ap[tgt[r]] = "pending" /\ ap'[tgt[r]] = "approved"
    BY <1>1, <1>2, <1>3
       DEF ApproveCommit, Before, IInv, GateInv, HoldsItsApproval, Deciding, TypeOK
  <2>2. tgt[r] \in Consequential
    BY <1>2, <1>3, <2>1 DEF Before, OrderInv, AskedInOrder
  <2>3. db.step_status[tgt[r]] # "completed"
    BY <2>1, <2>2, UndecidedIsIncomplete
  <2>4. ~ CallSave(r)
    BY <1>3 DEF ApproveCommit, CallSave
  <2>5. db'.step_status[tgt[r]] # "completed"
    BY <2>2, <2>3, <2>4, ConsequentialStays
  <2>. QED
    BY <1>3, <2>1, <2>5 DEF Acts, Called
<1>4. CASE /\ pc[r] \in Calling /\ tgt'[r] = tgt[r] /\ UNCHANGED <<db, ap>>
           /\ pc'[r] = "call_steps" => CallGet(r)
           /\ pc'[r] = "call" => CallSteps(r)
           /\ pc'[r] \in Called => pc[r] = "call" /\ view'[r] = view[r]
  <2>1. ap'[tgt'[r]] = "approved" /\ db'.step_status[tgt'[r]] # "completed"
    BY <1>1, <1>4 DEF Acts
  <2>2. CASE pc'[r] = "call_get"
    BY <2>1, <2>2 DEF Acts, Called
  <2>3. CASE pc'[r] = "call_steps"
    <3>1. known[r] = {} /\ known'[r] = known[r] \cup {WorkflowRow}
      BY <1>1, <1>4, <2>3 DEF CallGet, Leave, Goto, Read, Session, TypeOK
    <3>2. tgt'[r] \notin known'[r]
      BY <1>2, <3>1 DEF WorkflowRow, Steps
    <3>. QED
      BY <2>1, <2>3, <3>2 DEF Acts, Called
  <2>4. CASE pc'[r] = "call"
    <3>1. /\ view'[r] = Loaded(r, {tgt[r]}) /\ pc[r] = "call_steps"
      BY <1>1, <1>4, <2>4 DEF CallSteps, Leave, Goto, Read, TypeOK
    <3>2. tgt[r] \notin known[r]
      BY <1>1, <3>1 DEF Acts
    <3>3. <<"step_status", tgt[r]>> \in {c \in Columns : c[2] \in {tgt[r]} \ known[r]}
      BY <1>2, <1>4, <3>2 DEF Columns
    <3>4. view'[r].step_status[tgt[r]] = db.step_status[tgt[r]]
      BY <1>2, <1>4, <3>1, <3>3 DEF Loaded, Overwrite
    <3>. QED
      BY <1>1, <1>4, <2>1, <2>4, <3>1, <3>4 DEF Acts, Called, Calling
  <2>5. CASE pc'[r] \in Called
    <3>1. view'[r].step_status[tgt[r]] # "completed"
      BY <1>1, <1>4, <2>5 DEF Acts
    <3>. QED
      BY <1>4, <2>1, <2>5, <3>1 DEF Acts, Called
  <2>. QED
    BY <2>2, <2>3, <2>4, <2>5 DEF Calling
<1>. QED
  BY <1>1, <1>3, <1>4, ComesToAct

\* and so do the others.
LEMMA OthersAct ==
  ASSUME Before, RecordInv, NEW r \in Requests, Handle(r), Effect(r), Untouched(r),
         NEW q \in Requests, q # r
  PROVE  Acts(q)'
<1>1. /\ pc'[q] = pc[q] /\ tgt'[q] = tgt[q] /\ view'[q] = view[q] /\ known'[q] = known[q]
      /\ Acts(q) /\ ActApart(q, r) /\ HasItsStep(q) /\ TypeOK /\ GateInv
  BY OthersWritten DEF Untouched, RecordInv, Before, IInv, GateInv
<1>2. ASSUME pc[q] \in Calling \cup Called
      PROVE  ap'[tgt[q]] = "approved" /\ db'.step_status[tgt[q]] # "completed"
  <2>1. /\ tgt[q] \in Steps /\ ap[tgt[q]] = "approved"
        /\ db.step_status[tgt[q]] # "completed"
    BY <1>1, <1>2 DEF HasItsStep, Acts
  <2>2. ap'[tgt[q]] = "approved"
    BY <1>1, <2>1, DecisionStays
  <2>3. ~ (CallSave(r) /\ tgt[q] = tgt[r])
    BY <1>1, <1>2 DEF CallSave, ActApart, Called
  <2>. QED
    BY <2>1, <2>2, <2>3, StaysIncomplete
<1>. QED
  BY <1>1, <1>2 DEF Acts

\* No second request comes to act for a step.
LEMMA ActApartKept ==
  ASSUME Before, RecordInv, NEW r \in Requests, Handle(r), Untouched(r),
         NEW q \in Requests, q # r
  PROVE  ActApart(q, r)' /\ ActApart(r, q)'
<1>1. /\ pc'[q] = pc[q] /\ tgt'[q] = tgt[q]
      /\ Acts(q) /\ ActApart(q, r) /\ TypeOK /\ HoldsItsApproval(r)
  BY DEF Untouched, RecordInv, Before, IInv, GateInv
<1>. SUFFICES ASSUME pc[q] \in Calling \cup Called, pc'[r] \in Calling \cup Called
              PROVE  tgt[q] # tgt'[r]
  BY <1>1 DEF ActApart
<1>2. CASE pc[r] \in Calling /\ tgt'[r] = tgt[r]
  BY <1>1, <1>2 DEF ActApart
<1>3. CASE ApproveCommit(r) /\ tgt'[r] = tgt[r]
  BY <1>1, <1>3 DEF ApproveCommit, HoldsItsApproval, Deciding, Acts
<1>. QED
  BY <1>1, <1>2, <1>3, ComesToAct

-----------------------------------------------------------------------------
(* The invariant is preserved: what sessions have written.                 *)

\* A request that is over, or goes on after a commit, has written nothing.
LEMMA CleanWrote ==
  ASSUME NEW r \in Requests, dirty'[r] = {}, pc'[r] \notin Cancelling \cup {"fail"}
  PROVE  Wrote(r)'
BY DEF Wrote, Cancelling

\* The columns a flush writes, at the statements that flush.
LEMMA FlushWrote ==
  ASSUME Before, NEW r \in Requests, Wrote(r), Flush(r), db' = db,
         NEW label, Goto(r, label),
         \/ pc[r] = "run_start" /\ label = "run_steps"
         \/ pc[r] = "step_start" /\ label \in {"fail", "gate", "exec"}
              /\ (label = "fail" => Current(r) \in Unavailable)
         \/ pc[r] = "retry" /\ label = "exec"
         \/ pc[r] = "save" /\ label \in {"finish", "step_start"}
         \/ pc[r] = "resume_event" /\ label = "run_get"
         \/ pc[r] = "cancel_flush" /\ label = "cancel_commit"
  PROVE  Wrote(r)'
<1>1. /\ TypeOK /\ Session(r) /\ KnowsItsStep(r) /\ view[r] \in RowValues
  BY DEF Before, IInv, TypeOK, OrderInv, StepsInv
<1>2. /\ pc'[r] = label /\ view'[r] = Written(r)
      /\ dirty'[r] = dirty[r] \cup Changed(view[r], Written(r))
  BY <1>1 DEF Flush, Goto, TypeOK
<1>3. /\ <<"status", WorkflowRow>> \in Changed(view[r], Written(r))
           <=> view[r].status # Written(r).status
      /\ \A s \in Steps : <<"step_status", s>> \in Changed(view[r], Written(r))
                            <=> view[r].step_status[s] # Written(r).step_status[s]
  BY StatusChanged
<1>4. pc'[r] # "cancel_steps"
  BY <1>2
<1>5. ASSUME <<"status", WorkflowRow>> \in dirty'[r], label \notin Cancelling
      PROVE  view'[r].status = "running"
  <2>1. CASE pc[r] = "run_start"
    BY <1>1, <1>2, <2>1 DEF Written, RowValues
  <2>2. CASE pc[r] # "run_start"
    <3>1. Written(r).status = view[r].status
      BY <1>1, <1>5, <2>2 DEF Written, RowValues, Cancelling
    <3>2. <<"status", WorkflowRow>> \in dirty[r] /\ pc[r] \notin Cancelling
      BY <1>2, <1>3, <1>5, <3>1 DEF Cancelling
    <3>. QED
      BY <1>2, <3>1, <3>2 DEF Wrote
  <2>. QED
    BY <2>1, <2>2
<1>6. ASSUME NEW s \in Consequential, <<"step_status", s>> \in dirty'[r]
      PROVE  label = "cancel_commit" /\ view'[r].step_status[s] = "cancelled"
  <2>1. <<"step_status", s>> \notin dirty[r]
    BY DEF Wrote
  <2>2. s \in Steps /\ Written(r).step_status[s] # view[r].step_status[s]
    BY <1>2, <1>3, <1>6, <2>1
  <2>3. ~ (pc[r] = "save" /\ s = Current(r))
    BY <1>1 DEF KnowsItsStep, Passed
  <2>4. pc[r] = "cancel_flush" /\ Written(r).step_status[s] = "cancelled"
    BY <2>2, <2>3, WrittenAt
  <2>. QED
    BY <1>2, <2>4
<1>7. ASSUME label \in {"cancel_flush", "cancel_commit"}, NEW s \in Consequential,
             db'.step_status[s] = "completed"
      PROVE  view'[r].step_status[s] = "completed"
  <2>1. pc[r] = "cancel_flush" /\ view[r].step_status[s] = "completed"
    BY <1>7 DEF Wrote
  <2>2. s \in Steps /\ Written(r).step_status[s] = "completed"
    BY <1>1, <2>1 DEF Written, RowValues
  <2>. QED
    BY <1>2, <2>2
<1>8. ASSUME label = "fail"
      PROVE  Current(r)' \notin Consequential \ Unavailable
  <2>1. pc[r] = "step_start" /\ Current(r) \in Unavailable
    BY <1>8
  <2>2. Written(r) = view[r]
    BY <2>1 DEF Written
  <2>. QED
    BY <1>2, <2>1, <2>2 DEF Current
<1>. QED
  BY <1>2, <1>4, <1>5, <1>6, <1>7, <1>8 DEF Wrote
\* Every handler step leaves a session that has written what is described.
LEMMA WroteKept ==
  ASSUME Before, NEW r \in Requests, Wrote(r), Handle(r)
  PROVE  Wrote(r)'
<1>. USE DEF Cancelling
<1>1. /\ TypeOK /\ Session(r) /\ KnowsItsStep(r)
      /\ pc[r] \notin Writing => dirty[r] = {}
  BY DEF Before, IInv, OrderInv, StepsInv, Session
<1>2. CASE Leave(r)
  <2>1. dirty'[r] = {} /\ pc'[r] = "idle"
    BY <1>1, <1>2 DEF Leave, Goto, TypeOK
  <2>. QED
    BY <2>1, CleanWrote
<1>3. CASE ResumeStart(r) \/ ApproveCommit(r) \/ CallSave(r)
  <2>1. dirty'[r] = {} /\ pc'[r] \in {"resume_event", "call_get", "run_get"}
    BY <1>1, <1>3 DEF ResumeStart, ApproveCommit, CallSave, Continue, Goto, TypeOK
  <2>. QED
    BY <2>1, CleanWrote
<1>4. ASSUME NEW label, Goto(r, label), label \notin Cancelling \cup {"fail"},
             dirty' = dirty, pc[r] \notin Writing
      PROVE  Wrote(r)'
  <2>1. dirty'[r] = {} /\ pc'[r] = label
    BY <1>1, <1>4 DEF Goto, TypeOK
  <2>. QED
    BY <1>4, <2>1, CleanWrote
<1>5. CASE RunSteps(r)
  <2>1. PICK label \in {"finish", "step_start"} : Goto(r, label)
    BY <1>5 DEF RunSteps, Advance
  <2>2. /\ pc'[r] = label /\ dirty'[r] = dirty[r] /\ view'[r] = Loaded(r, Steps)
    BY <1>1, <1>5, <2>1 DEF RunSteps, Goto, Read, TypeOK
  <2>3. view'[r].status = view[r].status
    BY <2>2, ReadKeepsStatus DEF WorkflowRow, Steps
  <2>. QED
    BY <1>5, <2>2, <2>3 DEF RunSteps, Wrote
<1>6. CASE ExecSucceeds(r) \/ ExecFails(r)
  <2>1. PICK label \in {"save", "retry", "fail"} : Goto(r, label)
    BY <1>6 DEF ExecSucceeds, ExecFails
  <2>2. pc[r] = "exec" /\ pc'[r] = label /\ dirty' = dirty /\ view' = view
    BY <1>1, <1>6, <2>1 DEF ExecSucceeds, ExecFails, Goto, TypeOK
  <2>3. Current(r)' \notin Consequential
    BY <1>1, <2>2 DEF KnowsItsStep, Passed, Current
  <2>. QED
    BY <2>1, <2>2, <2>3 DEF Wrote
<1>7. CASE StepStart(r)
  <2>1. PICK label \in {"fail", "gate", "exec"} :
          Goto(r, label) /\ (label = "fail" => Current(r) \in Unavailable)
    BY <1>7 DEF StepStart
  <2>. QED
    BY <1>7, <2>1, FlushWrote DEF StepStart
<1>8. CASE SaveStep(r)
  <2>1. PICK label \in {"finish", "step_start"} : Goto(r, label)
    BY <1>8 DEF SaveStep, Advance
  <2>. QED
    BY <1>8, <2>1, FlushWrote DEF SaveStep
<1>9. CASE RunStart(r) \/ Retry(r) \/ ResumeEvent(r) \/ CancelApprovals(r)
  BY <1>9, FlushWrote DEF RunStart, Retry, ResumeEvent, CancelApprovals
<1>10. CASE CancelLock(r) /\ ~ Leave(r)
  <2>1. /\ pc'[r] = "cancel_steps" /\ known'[r] = {WorkflowRow}
        /\ dirty'[r] = {<<"status", WorkflowRow>>}
    BY <1>1, <1>10 DEF CancelLock, Goto, TypeOK
  <2>. QED
    BY <2>1 DEF Wrote
<1>11. CASE CancelSteps(r)
  <2>1. /\ pc'[r] = "cancel_flush" /\ dirty'[r] = dirty[r] /\ view'[r] = Loaded(r, Steps)
        /\ known[r] = {WorkflowRow} /\ db' = db /\ pc[r] = "cancel_steps"
    BY <1>1, <1>11 DEF CancelSteps, Goto, Read, TypeOK, Wrote
  <2>2. ASSUME NEW s \in Steps PROVE view'[r].step_status[s] = db.step_status[s]
    <3>1. <<"step_status", s>> \in {c \in Columns : c[2] \in Steps \ known[r]}
      BY <2>1 DEF Columns, WorkflowRow, Steps
    <3>. QED
      BY <2>1, <3>1 DEF Loaded, Overwrite
  <2>. QED
    BY <2>1, <2>2 DEF Wrote
<1>12. CASE RunStep(r)
  BY <1>2, <1>4, <1>5, <1>6, <1>7, <1>8, <1>9, <1>12
     DEF RunStep, RunGet, ExecRaises, FailStep, Gate, GateTaken, Finish, Refuse,
         Writing, AtStep
<1>13. CASE ResumeStep(r) \/ CancelStep(r)
  BY <1>2, <1>3, <1>4, <1>9, <1>10, <1>11, <1>13
     DEF ResumeStep, ResumeGet, CancelStep, CancelCommit, Writing, AtStep
<1>14. CASE ApproveStep(r)
  BY <1>2, <1>3, <1>4, <1>14
     DEF ApproveStep, ApproveLock, ApproveGet, ApproveSteps, Writing, AtStep
<1>15. CASE CallStep(r)
  BY <1>2, <1>3, <1>4, <1>15
     DEF CallStep, CallGet, CallSteps, Call, CallDenied, CallFail, Writing, AtStep
<1>16. CASE RejectStep(r)
  BY <1>2, <1>4, <1>16
     DEF RejectStep, RejectLock, RejectGet, RejectSteps, RejectCommit, Writing, AtStep
<1>. QED
  BY <1>12, <1>13, <1>14, <1>15, <1>16 DEF Handle

\* The others have written what they had; and while a cancellation holds the
\* workflow's row, the event of an execution cannot be inserted.
LEMMA OthersWrote ==
  ASSUME Before, RecordInv, NEW r \in Requests, Handle(r), Untouched(r),
         NEW q \in Requests, q # r
  PROVE  Wrote(q)'
<1>1. /\ pc'[q] = pc[q] /\ view'[q] = view[q] /\ dirty'[q] = dirty[q]
      /\ known'[q] = known[q] /\ Current(q)' = Current(q)
      /\ Wrote(q) /\ HoldsTheWorkflow(q)
  BY OthersWritten DEF Untouched, RecordInv, Before, IInv, GateInv, Current
<1>2. ASSUME pc[q] \in {"cancel_flush", "cancel_commit"}, NEW s \in Consequential,
             db'.step_status[s] = "completed"
      PROVE  view[q].step_status[s] = "completed"
  <2>1. <<"update", WorkflowRow>> \in held[q]
    BY <1>1, <1>2 DEF HoldsTheWorkflow, Cancelling
  <2>2. ~ CallSave(r)
    <3>1. CallSave(r) => Granted(r) /\ <<"key_share", WorkflowRow>> \in Wanted(r)
      BY DEF CallSave, Persist, Wanted, RecordsEvent
    <3>. QED
      BY <2>1, <3>1, UpdateExcludes
  <2>3. db.step_status[s] = "completed"
    BY <1>2, <2>2, ConsequentialStays
  <2>. QED
    BY <1>1, <1>2, <2>3 DEF Wrote
<1>. QED
  BY <1>1, <1>2 DEF Wrote

-----------------------------------------------------------------------------
(* The invariant is inductive.                                             *)

LEMMA HandleKeepsRecord ==
  ASSUME Before, RecordInv, NEW r \in Requests, Handle(r)
  PROVE  RecordInv'
<1>1. Effect(r) /\ Untouched(r)
  BY HandleEffect, HandleKeepsStep DEF Before, IInv, GateInv
<1>2. Acts(r)' /\ Wrote(r)'
  BY ActsKept, WroteKept DEF RecordInv
<1>3. \A q \in Requests : q # r => /\ Acts(q)' /\ Wrote(q)'
                                   /\ ActApart(q, r)' /\ ActApart(r, q)'
  BY <1>1, OthersAct, OthersWrote, ActApartKept
<1>4. ASSUME NEW p \in Requests, NEW q \in Requests, p # q
      PROVE  ActApart(p, q)'
  <2>1. CASE p = r \/ q = r
    BY <1>3, <1>4, <2>1
  <2>2. CASE p # r /\ q # r
    BY <1>1, <1>4, <2>2 DEF RecordInv, ActApart, Untouched
  <2>. QED
    BY <2>1, <2>2
<1>. QED
  BY <1>2, <1>3, <1>4 DEF RecordInv

\* A request that arrives, or a session that is lost, has written nothing.
LEMMA IdleKeepsRecord ==
  ASSUME Before, RecordInv, NEW r \in Requests, UNCHANGED <<db, ap>>,
         Leave(r) \/ Post(r)
  PROVE  RecordInv'
<1>1. TypeOK /\ Session(r)
  BY DEF Before, IInv, OrderInv
<1>2. CASE Leave(r)
  <2>1. dirty'[r] = {} /\ pc'[r] = "idle"
    BY <1>1, <1>2 DEF Leave, Goto, TypeOK
  <2>2. Wrote(r)' /\ Acts(r)'
    BY <2>1, CleanWrote DEF Acts, Cancelling, Calling, Called
  <2>3. \A q \in Requests : q # r =>
          /\ pc'[q] = pc[q] /\ tgt'[q] = tgt[q] /\ view'[q] = view[q]
          /\ dirty'[q] = dirty[q] /\ known'[q] = known[q]
    BY <1>1, <1>2 DEF Leave, Goto, TypeOK
  <2>4. \A q \in Requests : q # r => Wrote(q)' /\ Acts(q)'
    BY <2>3 DEF RecordInv, Wrote, Acts, Current
  <2>. QED
    BY <2>1, <2>2, <2>3, <2>4 DEF RecordInv, ActApart, Calling, Called
<1>3. CASE Post(r)
  <2>1. PICK label \in {"run_get", "resume_get", "cancel_lock",
                        "approve_lock", "reject_lock"}, s \in {0} \cup Steps :
          Arrive(r, label, s)
    BY <1>3 DEF Post, PostRun, PostResume, PostCancel, PostApprove, PostReject
  <2>2. /\ pc[r] = "idle" /\ pc'[r] = label
        /\ \A q \in Requests : q # r => pc'[q] = pc[q] /\ tgt'[q] = tgt[q]
        /\ UNCHANGED <<known, view, dirty>>
    BY <1>1, <2>1 DEF Arrive, Goto, TypeOK
  <2>3. dirty'[r] = {}
    BY <1>1, <2>2 DEF Session, Writing, AtStep, Cancelling
  <2>4. Wrote(r)' /\ Acts(r)'
    BY <2>2, <2>3, CleanWrote DEF Acts, Cancelling, Calling, Called
  <2>5. \A q \in Requests : q # r => Wrote(q)' /\ Acts(q)'
    BY <2>2 DEF RecordInv, Wrote, Acts, Current
  <2>. QED
    BY <2>2, <2>4, <2>5 DEF RecordInv, ActApart, Calling, Called
<1>. QED
  BY <1>2, <1>3

LEMMA RecordInvNext ==
  ASSUME Before, RecordInv, [Next]_vars
  PROVE  RecordInv'
<1>1. ASSUME NEW r \in Requests, Post(r)
      PROVE  RecordInv'
  <2>1. UNCHANGED <<db, ap>>
    BY <1>1 DEF Post, PostRun, PostResume, PostCancel, PostApprove, PostReject, Arrive
  <2>. QED
    BY <1>1, <2>1, IdleKeepsRecord
<1>2. ASSUME NEW r \in Requests, AbortDeadlocked(r) \/ LoseSession(r)
      PROVE  RecordInv'
  BY <1>2, IdleKeepsRecord DEF AbortDeadlocked, LoseSession
<1>3. CASE UNCHANGED <<db, ap, session>>
  BY <1>3 DEF session, RecordInv, Acts, Wrote, ActApart, Current
<1>4. ASSUME NEW s \in Steps, PassDue(s)
      PROVE  RecordInv'
  BY <1>3, <1>4 DEF PassDue
<1>5. CASE UNCHANGED vars
  BY <1>3, <1>5 DEF vars
<1>. QED
  BY <1>1, <1>2, <1>4, <1>5, HandleKeepsRecord DEF Next, AllAnswered

LEMMA RecordInvInit ==
  ASSUME Init
  PROVE  RecordInv
BY DEF Init, RecordInv, Acts, Wrote, ActApart, Calling, Called, Cancelling

LEMMA BeforeInit ==
  ASSUME Init
  PROVE  Before
BY GateInvInit, StepsInvInit, OrderInvInit DEF Before

LEMMA BeforeNext ==
  ASSUME Before, [Next]_vars
  PROVE  Before'
BY GateInvNext, StepsInvNext, OrderInvNext DEF Before
-----------------------------------------------------------------------------
(* The trail.                                                              *)

\* The events that are inserted by the statement that commits them.
AtCommit ==
  {"approval_requested", "approval_approved", "approval_rejected",
   "approved_action_executed"} \X Steps

\* Events are counted up to the bound.
TrailOK ==
  /\ trail \in [Evidence -> 0..TrailCap]
  /\ noted \in [Requests -> SUBSET Evidence]

\* What a request has inserted before its commit tells of the steps it has
\* completed, and of the cancellation.
Noted(r) ==
  /\ noted[r] \cap AtCommit = {}
  /\ \A s \in Steps :
       <<"step_status", s>> \in dirty[r] /\ view[r].step_status[s] = "completed"
         => <<"step_completed", s>> \in noted[r]
  /\ pc[r] \in Cancelling => <<"workflow_cancelled", 0>> \in noted[r]

TrailInv == TrailOK /\ EvidenceMatchesState /\ \A r \in Requests : Noted(r)

\* What a statement inserts is an event.
LEMMA RecordedType ==
  ASSUME Before, NEW r \in Requests
  PROVE  Recorded(r) \subseteq Evidence
<1>1. HasItsStep(r) /\ pc[r] \in Labels
  BY DEF Before, IInv, GateInv, TypeOK
<1>2. pc[r] \in AtStep => Current(r) \in Steps
  BY <1>1, FirstIncompleteIsStep DEF HasItsStep, Current
<1>3. CASE pc[r] \in {"step_start", "save", "fail", "gate"}
  BY <1>2, <1>3 DEF Recorded, Evidence, AtStep
<1>4. CASE pc[r] \in {"approve_commit", "reject_commit", "call_save"}
  BY <1>1, <1>4 DEF Recorded, Evidence, HasItsStep, Deciding, Called
<1>5. CASE pc[r] \in {"run_start", "finish", "resume_event", "cancel_lock"}
  BY <1>5 DEF Recorded, Evidence
<1>6. CASE pc[r] \notin {"step_start", "save", "fail", "gate", "approve_commit",
                         "reject_commit", "call_save", "run_start", "finish",
                         "resume_event", "cancel_lock"}
  BY <1>6 DEF Recorded
<1>. QED
  BY <1>3, <1>4, <1>5, <1>6

\* The events of decisions and executions are inserted at their commits.
LEMMA RecordedAtCommit ==
  ASSUME NEW r \in Requests, pc[r] \in Commits, NEW s
  PROVE  /\ <<"approval_requested", s>> \in Recorded(r)
              <=> pc[r] = "gate" /\ s = Current(r)
         /\ <<"approval_approved", s>> \in Recorded(r)
              <=> pc[r] = "approve_commit" /\ s = tgt[r]
         /\ <<"approval_rejected", s>> \in Recorded(r)
              <=> pc[r] = "reject_commit" /\ s = tgt[r]
         /\ <<"approved_action_executed", s>> \in Recorded(r)
              <=> pc[r] = "call_save" /\ s = tgt[r]
<1>1. CASE pc[r] \in {"gate", "approve_commit", "reject_commit", "call_save"}
  BY <1>1 DEF Recorded
<1>2. CASE pc[r] \in {"fail", "finish"}
  BY <1>2 DEF Recorded
<1>3. CASE pc[r] \in {"resume_start", "cancel_commit", "call_fail"}
  BY <1>3 DEF Recorded
<1>. QED
  BY <1>1, <1>2, <1>3 DEF Commits

\* What a commit adds to the trail.
LEMMA RecordsCounts ==
  ASSUME TrailOK, NEW r \in Requests, Records(r), NEW e \in Evidence
  PROVE  /\ e \notin noted[r] \cup Recorded(r) => trail'[e] = trail[e]
         /\ e \in noted[r] \cup Recorded(r) =>
              trail'[e] > 0 /\ (trail[e] = 0 => trail'[e] = 1)
         /\ trail[e] > 0 => trail'[e] > 0
<1>1. trail[e] \in 0..TrailCap /\ TrailCap \in Nat \ {0}
  BY DEF TrailOK
<1>2. trail'[e] = IF e \in noted[r] \cup Recorded(r) /\ trail[e] < TrailCap
                    THEN trail[e] + 1 ELSE trail[e]
  BY DEF Records
<1>. QED
  BY <1>1, <1>2

\* The trail stays well typed.
LEMMA TrailType ==
  ASSUME Before, TrailOK, NEW r \in Requests, Notes(r) \/ Records(r) \/ Forgets(r)
  PROVE  TrailOK'
<1>1. noted' \in [Requests -> SUBSET Evidence]
  BY RecordedType DEF TrailOK, Notes, Records, Forgets
<1>2. CASE Records(r)
  <2>1. \A e \in Evidence : trail[e] \in 0..TrailCap
    BY DEF TrailOK
  <2>2. \A e \in Evidence : trail[e] < TrailCap => trail[e] + 1 \in 0..TrailCap
    BY <2>1
  <2>3. trail' \in [Evidence -> 0..TrailCap]
    BY <1>2, <2>1, <2>2 DEF Records
  <2>. QED
    BY <1>1, <2>3 DEF TrailOK
<1>3. CASE Notes(r) \/ Forgets(r)
  BY <1>1, <1>3 DEF TrailOK, Notes, Forgets
<1>. QED
  BY <1>2, <1>3

-----------------------------------------------------------------------------
(* What a commit tells of approvals and steps.                             *)

\* The approvals a commit changes.
LEMMA CommitDecides ==
  ASSUME Before, NEW r \in Requests, Handle(r), Effect(r), pc[r] \in Commits,
         Committing(r), NEW s \in Steps
  PROVE  /\ ap'[s] # "none" <=> ap[s] # "none" \/ (pc[r] = "gate" /\ s = Current(r))
         /\ pc[r] = "gate" /\ s = Current(r) => ap[s] = "none"
         /\ ap'[s] = "approved" <=>
              ap[s] = "approved" \/ (pc[r] = "approve_commit" /\ s = tgt[r])
         /\ ap'[s] = "rejected" <=>
              ap[s] = "rejected" \/ (pc[r] = "reject_commit" /\ s = tgt[r])
         /\ pc[r] \in {"approve_commit", "reject_commit"} /\ s = tgt[r] =>
              ap[s] = "pending"
<1>1. /\ ap \in [Steps -> ApprovalStatus \cup {"none"}]
      /\ HoldsItsApproval(r) /\ HoldsTheWorkflow(r) /\ HasItsStep(r)
  BY DEF Before, IInv, GateInv, TypeOK
<1>2. CASE Gate(r)
  BY <1>1, <1>2 DEF Gate
<1>3. CASE CancelCommit(r)
  BY <1>1, <1>3 DEF CancelCommit, HoldsTheWorkflow
<1>4. CASE ApproveCommit(r) \/ RejectCommit(r)
  BY <1>1, <1>4 DEF ApproveCommit, RejectCommit, HoldsItsApproval, Deciding
<1>5. CASE FailStep(r) \/ Finish(r) \/ ResumeStart(r) \/ CallSave(r) \/ CallFail(r)
  BY <1>5 DEF FailStep, Finish, ResumeStart, CallSave, CallFail
<1>. QED
  BY <1>2, <1>3, <1>4, <1>5 DEF Committing

\* An execution is committed with its step.
LEMMA ExecutionCommits ==
  ASSUME Before, RecordInv, NEW r \in Requests, CallSave(r)
  PROVE  tgt[r] \in Consequential /\ db'.step_status[tgt[r]] = "completed"
<1>. DEFINE s == tgt[r]
<1>1. /\ s \in Steps /\ s # 0 /\ Acts(r) /\ pc[r] = "call_save" /\ view[r] \in RowValues
  <2>1. HasItsStep(r) /\ view[r] \in RowValues
    BY DEF Before, IInv, GateInv, TypeOK
  <2>2. s \in Steps
    BY <2>1 DEF HasItsStep, CallSave, Called
  <2>. QED
    BY <2>1, <2>2 DEF RecordInv, CallSave, Steps
<1>2. s \in Consequential
  BY <1>1 DEF Acts, Called, Before, OrderInv, AskedInOrder
<1>3. Written(r) = [view[r] EXCEPT !.step_status[s] = "completed", !.current_step = s]
  BY <1>1 DEF Written
<1>4. Written(r).step_status[s] = "completed" /\ view[r].step_status[s] # "completed"
  BY <1>1, <1>3 DEF RowValues, Acts, Called
<1>5. db'.step_status[s] = "completed"
  BY <1>1, <1>4, CommitValues DEF CallSave
<1>. QED
  BY <1>2, <1>5

\* The commits of a workflow's status.
LEMMA WrittenEnds ==
  ASSUME TypeOK, NEW r \in Requests, Written(r).status # view[r].status
  PROVE  /\ Written(r).status = "completed" => pc[r] = "finish"
         /\ Written(r).status = "cancelled" => pc[r] = "reject_commit"
<1>. DEFINE s == IF tgt[r] # 0 THEN tgt[r] ELSE Current(r)
<1>1. view[r] \in RowValues
  BY DEF TypeOK
<1>. HIDE DEF s
<1>2. CASE pc[r] \in {"run_start", "resume_start", "finish", "reject_commit"}
  BY <1>1, <1>2 DEF Written, RowValues
<1>3. CASE pc[r] \in {"retry", "save", "call_save", "cancel_flush"}
  BY <1>1, <1>3 DEF Written, RowValues
<1>4. CASE pc[r] \in {"fail", "call_fail"}
  BY <1>1, <1>4 DEF Written, RowValues
<1>5. CASE pc[r] \in {"gate", "approve_commit"}
  BY <1>1, <1>5 DEF Written, RowValues
<1>6. CASE pc[r] \notin {"run_start", "resume_start", "finish", "reject_commit",
                         "retry", "save", "call_save", "cancel_flush",
                         "fail", "call_fail", "gate", "approve_commit"}
  BY <1>6 DEF Written
<1>. QED
  BY <1>2, <1>3, <1>4, <1>5, <1>6

\* The records of the approvals and the executions stay exact.
LEMMA DecisionsTold ==
  ASSUME Before, RecordInv, TrailInv, NEW r \in Requests,
         Handle(r), Effect(r), Committing(r), pc[r] \in Commits, Records(r), NEW s \in Steps
  PROVE  /\ trail'[<<"approval_requested", s>>] = Once(ap'[s] # "none")
         /\ trail'[<<"approval_approved", s>>] = Once(ap'[s] = "approved")
         /\ trail'[<<"approval_rejected", s>>] = Once(ap'[s] = "rejected")
         /\ trail'[<<"approved_action_executed", s>>]
              = Once(s \in Consequential /\ db'.step_status[s] = "completed")
<1>. DEFINE Told(x) == <<x, s>>
            Kinds == {"approval_requested", "approval_approved", "approval_rejected",
                      "approved_action_executed"}
<1>1. \A x \in Kinds : Told(x) \in Evidence /\ Told(x) \notin noted[r]
  BY DEF Evidence, TrailInv, Noted, AtCommit
<1>2. \A x \in Kinds :
        /\ Told(x) \notin Recorded(r) => trail'[Told(x)] = trail[Told(x)]
        /\ Told(x) \in Recorded(r) /\ trail[Told(x)] = 0 => trail'[Told(x)] = 1
  BY <1>1, RecordsCounts DEF TrailInv
<1>3. trail'[Told("approval_requested")] = Once(ap'[s] # "none")
  <2>1. trail[Told("approval_requested")] = Once(ap[s] # "none")
    BY DEF TrailInv, EvidenceMatchesState
  <2>2. Told("approval_requested") \in Recorded(r) <=> pc[r] = "gate" /\ s = Current(r)
    BY RecordedAtCommit
  <2>. QED
    BY <1>2, <2>1, <2>2, CommitDecides DEF Once
<1>4. trail'[Told("approval_approved")] = Once(ap'[s] = "approved")
  <2>1. trail[Told("approval_approved")] = Once(ap[s] = "approved")
    BY DEF TrailInv, EvidenceMatchesState
  <2>2. Told("approval_approved") \in Recorded(r) <=> pc[r] = "approve_commit" /\ s = tgt[r]
    BY RecordedAtCommit
  <2>. QED
    BY <1>2, <2>1, <2>2, CommitDecides DEF Once
<1>5. trail'[Told("approval_rejected")] = Once(ap'[s] = "rejected")
  <2>1. trail[Told("approval_rejected")] = Once(ap[s] = "rejected")
    BY DEF TrailInv, EvidenceMatchesState
  <2>2. Told("approval_rejected") \in Recorded(r) <=> pc[r] = "reject_commit" /\ s = tgt[r]
    BY RecordedAtCommit
  <2>. QED
    BY <1>2, <2>1, <2>2, CommitDecides DEF Once
<1>6. trail'[Told("approved_action_executed")]
        = Once(s \in Consequential /\ db'.step_status[s] = "completed")
  <2>1. trail[Told("approved_action_executed")]
          = Once(s \in Consequential /\ db.step_status[s] = "completed")
    BY DEF TrailInv, EvidenceMatchesState
  <2>2. Told("approved_action_executed") \in Recorded(r) <=> pc[r] = "call_save" /\ s = tgt[r]
    BY RecordedAtCommit
  <2>3. CASE pc[r] = "call_save" /\ s = tgt[r]
    <3>1. CallSave(r)
      BY <2>3, CallSaveAt
    <3>2. s \in Consequential /\ db'.step_status[s] = "completed"
      BY <2>3, <3>1, ExecutionCommits
    <3>3. db.step_status[s] # "completed"
      BY <2>3 DEF RecordInv, Acts, Called
    <3>. QED
      BY <1>2, <2>1, <2>2, <2>3, <3>2, <3>3 DEF Once
  <2>4. CASE ~ (pc[r] = "call_save" /\ s = tgt[r])
    <3>1. s \in Consequential =>
            (db.step_status[s] = "completed" <=> db'.step_status[s] = "completed")
      BY <2>4, ConsequentialStays DEF CallSave
    <3>. QED
      BY <1>2, <2>1, <2>2, <2>4, <3>1 DEF Once
  <2>. QED
    BY <2>3, <2>4
<1>. QED
  BY <1>3, <1>4, <1>5, <1>6

\* A step that a commit completes or fails is told of.
LEMMA StepsTold ==
  ASSUME Before, RecordInv, TrailInv, NEW r \in Requests,
         Handle(r), Effect(r), Persist(r), pc[r] \in Commits, Records(r), NEW s \in Steps
  PROVE  /\ s \notin Consequential /\ db'.step_status[s] = "completed"
              => trail'[<<"step_completed", s>>] > 0
         /\ db'.step_status[s] = "failed" /\ ap'[s] # "approved"
              => trail'[<<"step_failed", s>>] > 0
<1>1. /\ <<"step_completed", s>> \in Evidence /\ <<"step_failed", s>> \in Evidence
  BY DEF Evidence
<1>2. db'.step_status[s] =
        IF \/ <<"step_status", s>> \in dirty[r]
           \/ Written(r).step_status[s] # view[r].step_status[s]
          THEN Written(r).step_status[s] ELSE db.step_status[s]
  BY CommitValues
<1>3. Session(r) /\ Noted(r) /\ HasItsStep(r) /\ TrailOK /\ Acts(r)
  BY DEF Before, OrderInv, TrailInv, IInv, GateInv, RecordInv
<1>4. ASSUME s \notin Consequential, db'.step_status[s] = "completed"
      PROVE  trail'[<<"step_completed", s>>] > 0
  <2>1. CASE db.step_status[s] = "completed"
    <3>1. trail[<<"step_completed", s>>] > 0
      BY <1>4, <2>1 DEF TrailInv, EvidenceMatchesState
    <3>. QED
      BY <1>1, <1>3, <3>1, RecordsCounts
  <2>2. CASE Written(r).step_status[s] # view[r].step_status[s]
    <3>1. pc[r] = "call_save" /\ s = tgt[r]
      BY <1>2, <1>4, <2>2, WrittenAt DEF Commits
    <3>2. CallSave(r)
      BY <3>1, CallSaveAt
    <3>. QED
      BY <1>4, <3>1, <3>2, ExecutionCommits
  <2>3. CASE /\ <<"step_status", s>> \in dirty[r]
             /\ Written(r).step_status[s] = view[r].step_status[s]
    <3>1. <<"step_completed", s>> \in noted[r]
      BY <1>2, <1>3, <1>4, <2>3 DEF Noted
    <3>. QED
      BY <1>1, <1>3, <3>1, RecordsCounts
  <2>. QED
    BY <1>2, <1>4, <2>1, <2>2, <2>3
<1>5. ASSUME db'.step_status[s] = "failed", ap'[s] # "approved"
      PROVE  trail'[<<"step_failed", s>>] > 0
  <2>1. ap[s] # "approved"
    BY <1>5, DecisionStays DEF Before, IInv
  <2>2. CASE db.step_status[s] = "failed"
    <3>1. trail[<<"step_failed", s>>] > 0
      BY <2>1, <2>2 DEF TrailInv, EvidenceMatchesState
    <3>. QED
      BY <1>1, <1>3, <3>1, RecordsCounts
  <2>3. CASE Written(r).step_status[s] # view[r].step_status[s]
    <3>1. \/ pc[r] = "fail" /\ s = Current(r)
          \/ pc[r] = "call_fail" /\ s = tgt[r]
      BY <1>2, <1>5, <2>3, WrittenAt DEF Commits
    <3>2. pc[r] = "fail" /\ s = Current(r)
      BY <1>3, <2>1, <3>1 DEF Acts, Called
    <3>3. <<"step_failed", s>> \in Recorded(r)
      BY <3>2 DEF Recorded
    <3>. QED
      BY <1>1, <1>3, <3>3, RecordsCounts
  <2>4. CASE /\ <<"step_status", s>> \in dirty[r]
             /\ Written(r).step_status[s] = view[r].step_status[s]
    BY <1>2, <1>3, <1>5, <2>4 DEF Session
  <2>. QED
    BY <1>2, <1>5, <2>2, <2>3, <2>4
<1>. QED
  BY <1>4, <1>5

\* So is a workflow that a commit completes or cancels.
LEMMA EndsTold ==
  ASSUME Before, RecordInv, TrailInv, NEW r \in Requests,
         Persist(r), pc[r] \in Commits, Records(r)
  PROVE  /\ db'.status = "completed" => trail'[<<"workflow_completed", 0>>] > 0
         /\ db'.status = "cancelled" =>
              \E e \in {<<"workflow_cancelled", 0>>} \cup ({"approval_rejected"} \X Steps) :
                trail'[e] > 0
<1>. DEFINE Ends == {<<"workflow_cancelled", 0>>} \cup ({"approval_rejected"} \X Steps)
<1>1. <<"workflow_completed", 0>> \in Evidence /\ Ends \subseteq Evidence
  BY DEF Evidence
<1>2. db'.status = IF <<"status", WorkflowRow>> \in dirty[r]
                      \/ Written(r).status # view[r].status
                     THEN Written(r).status ELSE db.status
  BY CommitValues
<1>3. /\ Session(r) /\ Noted(r) /\ Wrote(r) /\ TrailOK /\ TypeOK /\ HasItsStep(r)
  BY DEF Before, OrderInv, TrailInv, RecordInv, IInv, GateInv
<1>4. ASSUME db'.status = "completed"
      PROVE  trail'[<<"workflow_completed", 0>>] > 0
  <2>1. CASE db.status = "completed"
    <3>1. trail[<<"workflow_completed", 0>>] > 0
      BY <2>1 DEF TrailInv, EvidenceMatchesState
    <3>. QED
      BY <1>1, <1>3, <3>1, RecordsCounts
  <2>2. CASE Written(r).status # view[r].status
    <3>1. pc[r] = "finish"
      BY <1>2, <1>3, <1>4, <2>2, WrittenEnds
    <3>2. <<"workflow_completed", 0>> \in Recorded(r)
      BY <3>1 DEF Recorded
    <3>. QED
      BY <1>1, <1>3, <3>2, RecordsCounts
  <2>3. CASE Written(r).status = view[r].status /\ <<"status", WorkflowRow>> \in dirty[r]
    BY <1>2, <1>3, <1>4, <2>3 DEF Wrote, Session
  <2>. QED
    BY <1>2, <1>4, <2>1, <2>2, <2>3
<1>5. ASSUME db'.status = "cancelled"
      PROVE  \E e \in Ends : trail'[e] > 0
  <2>1. CASE db.status = "cancelled"
    <3>1. PICK e \in Ends : trail[e] > 0
      BY <2>1 DEF TrailInv, EvidenceMatchesState
    <3>. QED
      BY <1>1, <1>3, <3>1, RecordsCounts
  <2>2. CASE Written(r).status # view[r].status
    <3>1. pc[r] = "reject_commit"
      BY <1>2, <1>3, <1>5, <2>2, WrittenEnds
    <3>2. <<"approval_rejected", tgt[r]>> \in Recorded(r) /\ tgt[r] \in Steps
      BY <1>3, <3>1 DEF Recorded, HasItsStep, Deciding
    <3>. QED
      BY <1>1, <1>3, <3>2, RecordsCounts
  <2>3. CASE Written(r).status = view[r].status /\ <<"status", WorkflowRow>> \in dirty[r]
    <3>1. <<"workflow_cancelled", 0>> \in noted[r]
      BY <1>2, <1>3, <1>5, <2>3 DEF Wrote, Noted
    <3>. QED
      BY <1>1, <1>3, <3>1, RecordsCounts
  <2>. QED
    BY <1>2, <1>5, <2>1, <2>2, <2>3
<1>. QED
  BY <1>4, <1>5

\* A commit leaves the trail in agreement with the rows,
LEMMA CommitMatches ==
  ASSUME Before, RecordInv, TrailInv, NEW r \in Requests,
         Handle(r), Committing(r), Records(r)
  PROVE  EvidenceMatchesState'
<1>1. Effect(r)
  BY HandleEffect DEF Before, IInv, GateInv
<1>2. pc[r] \in Commits /\ Persist(r)
  BY DEF Committing, Commits, FailStep, Gate, Finish, ResumeStart, CancelCommit,
         ApproveCommit, RejectCommit, CallSave, CallFail
<1>3. \A s \in Steps :
        /\ trail'[<<"approval_requested", s>>] = Once(ap'[s] # "none")
        /\ trail'[<<"approval_approved", s>>] = Once(ap'[s] = "approved")
        /\ trail'[<<"approval_rejected", s>>] = Once(ap'[s] = "rejected")
        /\ trail'[<<"approved_action_executed", s>>]
             = Once(s \in Consequential /\ db'.step_status[s] = "completed")
  BY <1>1, <1>2, DecisionsTold
<1>4. \A s \in Steps :
        /\ s \notin Consequential /\ db'.step_status[s] = "completed"
             => trail'[<<"step_completed", s>>] > 0
        /\ db'.step_status[s] = "failed" /\ ap'[s] # "approved"
             => trail'[<<"step_failed", s>>] > 0
  BY <1>1, <1>2, StepsTold
<1>5. /\ db'.status = "completed" => trail'[<<"workflow_completed", 0>>] > 0
      /\ db'.status = "cancelled" =>
           \E e \in {<<"workflow_cancelled", 0>>} \cup ({"approval_rejected"} \X Steps) :
             trail'[e] > 0
  BY <1>2, EndsTold
<1>. QED
  BY <1>3, <1>4, <1>5 DEF EvidenceMatchesState

\* and so does what commits nothing.
LEMMA LapseMatches ==
  ASSUME Before, TrailInv, Lapses, trail' = trail
  PROVE  EvidenceMatchesState'
<1>1. \A s \in Steps :
        /\ ap'[s] # "none" <=> ap[s] # "none"
        /\ ap'[s] = "approved" <=> ap[s] = "approved"
        /\ ap'[s] = "rejected" <=> ap[s] = "rejected"
  BY DEF Lapses
<1>. QED
  BY <1>1 DEF TrailInv, EvidenceMatchesState, Lapses, Once
-----------------------------------------------------------------------------
(* What a request has inserted before its commit.                          *)

\* A flush inserts the event of what it writes.
LEMMA FlushNoted ==
  ASSUME Before, TrailInv, NEW r \in Requests, Flushing(r), Notes(r)
  PROVE  Noted(r)'
<1>1. /\ TypeOK /\ TrailOK /\ Noted(r) /\ Recorded(r) \cap AtCommit = {}
      /\ pc[r] \in {"run_start", "step_start", "save", "resume_event"}
      /\ Flush(r) /\ pc'[r] \notin Cancelling
  <2>1. TypeOK /\ TrailOK /\ Noted(r)
    BY DEF Before, IInv, TrailInv
  <2>2. CASE RunStart(r)
    BY <2>1, <2>2 DEF RunStart, Recorded, AtCommit, Goto, TypeOK, Cancelling
  <2>3. CASE StepStart(r)
    <3>1. PICK label \in {"fail", "gate", "exec"} : Goto(r, label)
      BY <2>3 DEF StepStart
    <3>. QED
      BY <2>1, <2>3, <3>1 DEF StepStart, Recorded, AtCommit, Goto, TypeOK, Cancelling
  <2>4. CASE SaveStep(r)
    <3>1. PICK label \in {"finish", "step_start"} : Goto(r, label)
      BY <2>4 DEF SaveStep, Advance
    <3>. QED
      BY <2>1, <2>4, <3>1 DEF SaveStep, Recorded, AtCommit, Goto, TypeOK, Cancelling
  <2>5. CASE ResumeEvent(r)
    BY <2>1, <2>5 DEF ResumeEvent, Recorded, AtCommit, Goto, TypeOK, Cancelling
  <2>. QED
    BY <2>1, <2>2, <2>3, <2>4, <2>5 DEF Flushing
<1>2. noted'[r] = noted[r] \cup Recorded(r)
  BY <1>1 DEF Notes, TrailOK
<1>3. /\ view'[r] = Written(r)
      /\ dirty'[r] = dirty[r] \cup Changed(view[r], Written(r))
  BY <1>1 DEF Flush, TypeOK
<1>4. ASSUME NEW s \in Steps, <<"step_status", s>> \in dirty'[r],
             view'[r].step_status[s] = "completed"
      PROVE  <<"step_completed", s>> \in noted'[r]
  <2>1. CASE Written(r).step_status[s] # view[r].step_status[s]
    <3>1. pc[r] = "save" /\ s = Current(r)
      BY <1>1, <1>3, <1>4, <2>1, WrittenAt
    <3>. QED
      BY <1>2, <3>1 DEF Recorded
  <2>2. CASE Written(r).step_status[s] = view[r].step_status[s]
    <3>1. <<"step_status", s>> \in dirty[r]
      BY <1>3, <1>4, <2>2, StatusChanged
    <3>. QED
      BY <1>1, <1>2, <1>3, <1>4, <2>2, <3>1 DEF Noted
  <2>. QED
    BY <2>1, <2>2
<1>. QED
  BY <1>1, <1>2, <1>4 DEF Noted

\* A cancellation inserts its event before it looks at the steps.
LEMMA CancelNoted ==
  ASSUME Before, TrailInv, NEW r \in Requests, CancelLock(r), pc'[r] # "idle", Notes(r)
  PROVE  Noted(r)'
<1>1. TypeOK /\ TrailOK /\ Noted(r) /\ pc[r] = "cancel_lock"
  BY DEF Before, IInv, TrailInv, CancelLock
<1>2. ~ Leave(r)
  BY <1>1 DEF Leave, Goto, TypeOK
<1>3. dirty'[r] = {<<"status", WorkflowRow>>}
  BY <1>1, <1>2 DEF CancelLock, TypeOK
<1>4. noted'[r] = noted[r] \cup {<<"workflow_cancelled", 0>>}
  BY <1>1 DEF Notes, TrailOK, Recorded
<1>. QED
  BY <1>1, <1>3, <1>4 DEF Noted, AtCommit

\* After a commit nothing is inserted and nothing written.
LEMMA CommitNoted ==
  ASSUME Before, TrailInv, NEW r \in Requests, Committing(r), Records(r)
  PROVE  Noted(r)'
<1>1. TypeOK /\ TrailOK
  BY DEF Before, IInv, TrailInv
<1>2. noted'[r] = {}
  BY <1>1 DEF Records, TrailOK
<1>3. CASE Leave(r)
  BY <1>1, <1>2, <1>3 DEF Leave, Goto, TypeOK, Noted, Cancelling
<1>4. CASE ResumeStart(r) \/ ApproveCommit(r) \/ CallSave(r)
  <2>1. dirty'[r] = {} /\ pc'[r] \notin Cancelling
    BY <1>1, <1>4
       DEF ResumeStart, ApproveCommit, CallSave, Continue, Goto, TypeOK, Cancelling
  <2>. QED
    BY <1>2, <2>1 DEF Noted
<1>. QED
  BY <1>3, <1>4 DEF Committing, FailStep, Gate, Finish, CancelCommit, RejectCommit, CallFail

\* The other statements write nothing that a step is completed by, and do not
\* start to cancel.
WritesNoStep(r) ==
  /\ \A s \in Steps :
       <<"step_status", s>> \in dirty'[r] /\ view'[r].step_status[s] = "completed"
         => <<"step_status", s>> \in dirty[r] /\ view[r].step_status[s] = "completed"
  /\ pc'[r] \in Cancelling => pc[r] \in Cancelling

LEMMA OtherWrites ==
  ASSUME Before, NEW r \in Requests, Other(r), pc'[r] # "idle"
  PROVE  WritesNoStep(r)
<1>. USE DEF Cancelling
<1>1. TypeOK /\ Session(r) /\ ~ Leave(r)
  <2>1. TypeOK /\ Session(r)
    BY DEF Before, IInv, OrderInv
  <2>. QED
    BY <2>1 DEF Leave, Goto, TypeOK
<1>2. ASSUME NEW label, Goto(r, label), label \notin Cancelling, dirty' = dirty,
             pc[r] \notin Writing \/ pc[r] = "run_steps"
      PROVE  WritesNoStep(r)
  <2>1. pc'[r] = label
    BY <1>1, <1>2 DEF Goto, TypeOK
  <2>2. \A s \in Steps : <<"step_status", s>> \notin dirty[r]
    BY <1>1, <1>2 DEF Session
  <2>. QED
    BY <1>2, <2>1, <2>2 DEF WritesNoStep
<1>3. CASE ExecSucceeds(r) \/ ExecFails(r)
  <2>1. PICK label \in {"save", "retry", "fail"} : Goto(r, label)
    BY <1>3 DEF ExecSucceeds, ExecFails
  <2>2. pc'[r] = label /\ dirty' = dirty /\ view' = view
    BY <1>1, <1>3, <2>1 DEF ExecSucceeds, ExecFails, Goto, TypeOK
  <2>. QED
    BY <2>1, <2>2 DEF WritesNoStep
<1>4. CASE Retry(r) \/ CancelApprovals(r)
  <2>1. /\ Flush(r) /\ pc[r] \in {"retry", "cancel_flush"}
        /\ pc[r] = "retry" => pc'[r] = "exec"
    BY <1>1, <1>4 DEF Retry, CancelApprovals, Goto, TypeOK
  <2>2. /\ view'[r] = Written(r)
        /\ dirty'[r] = dirty[r] \cup Changed(view[r], Written(r))
    BY <1>1, <2>1 DEF Flush, TypeOK
  <2>3. ASSUME NEW s \in Steps, <<"step_status", s>> \in dirty'[r],
               view'[r].step_status[s] = "completed"
        PROVE  <<"step_status", s>> \in dirty[r] /\ view[r].step_status[s] = "completed"
    <3>1. Written(r).step_status[s] = view[r].step_status[s]
      BY <2>1, <2>2, <2>3, WrittenAt
    <3>. QED
      BY <2>2, <2>3, <3>1, StatusChanged
  <2>. QED
    BY <2>1, <2>3 DEF WritesNoStep
<1>5. CASE CancelSteps(r)
  <2>1. pc[r] = "cancel_steps" /\ dirty' = dirty
    BY <1>5 DEF CancelSteps
  <2>2. \A s \in Steps : <<"step_status", s>> \notin dirty[r]
    BY <1>1, <2>1 DEF Session
  <2>. QED
    BY <2>1, <2>2 DEF WritesNoStep
<1>6. CASE Post(r)
  <2>1. PICK label \in {"run_get", "resume_get", "cancel_lock",
                        "approve_lock", "reject_lock"}, s \in {0} \cup Steps :
          Arrive(r, label, s)
    BY <1>6 DEF Post, PostRun, PostResume, PostCancel, PostApprove, PostReject
  <2>. QED
    BY <1>2, <2>1 DEF Arrive, Writing, AtStep
<1>7. CASE RunGet(r) \/ RunSteps(r) \/ ResumeGet(r)
  BY <1>1, <1>2, <1>7 DEF RunGet, RunSteps, ResumeGet, Advance, Writing, AtStep
<1>8. CASE ApproveLock(r) \/ ApproveGet(r) \/ ApproveSteps(r)
  BY <1>1, <1>2, <1>8 DEF ApproveLock, ApproveGet, ApproveSteps, Writing, AtStep
<1>9. CASE CallGet(r) \/ CallSteps(r) \/ Call(r) \/ CallDenied(r)
  BY <1>1, <1>2, <1>9 DEF CallGet, CallSteps, Call, CallDenied, Writing, AtStep
<1>10. CASE RejectLock(r) \/ RejectGet(r) \/ RejectSteps(r)
  BY <1>1, <1>2, <1>10 DEF RejectLock, RejectGet, RejectSteps, Writing, AtStep
<1>11. CASE ExecRaises(r) \/ GateTaken(r) \/ Refuse(r) \/ AbortDeadlocked(r) \/ LoseSession(r)
  BY <1>1, <1>11 DEF ExecRaises, GateTaken, Refuse, AbortDeadlocked, LoseSession
<1>. QED
  BY <1>3, <1>4, <1>5, <1>6, <1>7, <1>8, <1>9, <1>10, <1>11 DEF Other

LEMMA OtherNoted ==
  ASSUME Before, Before', TrailInv, NEW r \in Requests, Other(r), Forgets(r)
  PROVE  Noted(r)'
<1>1. TrailOK /\ Noted(r) /\ Session(r)'
  BY DEF TrailInv, Before, OrderInv
<1>2. CASE pc'[r] = "idle"
  <2>1. noted'[r] = {}
    BY <1>1, <1>2 DEF Forgets, TrailOK
  <2>2. dirty'[r] = {}
    BY <1>1, <1>2 DEF Session, Writing, AtStep, Cancelling
  <2>. QED
    BY <1>2, <2>1, <2>2 DEF Noted, Cancelling
<1>3. CASE pc'[r] # "idle"
  <2>1. noted'[r] = noted[r]
    BY <1>1, <1>3 DEF Forgets, TrailOK
  <2>. QED
    BY <1>1, <1>3, <2>1, OtherWrites DEF Noted, WritesNoStep
<1>. QED
  BY <1>2, <1>3

-----------------------------------------------------------------------------
(* Theorem.                                                                *)

\* The steps of WorkflowTrail are steps of WorkflowEngine.
LEMMA TrailSteps ==
  ASSUME NEW r \in Requests
  PROVE  /\ Flushing(r) => Handle(r)
         /\ CancelLock(r) => Handle(r)
         /\ Committing(r) => Handle(r)
         /\ Other(r) => Post(r) \/ Handle(r) \/ AbortDeadlocked(r) \/ LoseSession(r)
<1>1. Flushing(r) => Handle(r)
  BY DEF Flushing, Handle, RunStep, ResumeStep
<1>2. CancelLock(r) => Handle(r)
  BY DEF Handle, CancelStep
<1>3. Committing(r) => Handle(r)
  BY DEF Committing, Handle, RunStep, ResumeStep, CancelStep, ApproveStep, CallStep, RejectStep
<1>4. Other(r) => Post(r) \/ Handle(r) \/ AbortDeadlocked(r) \/ LoseSession(r)
  BY DEF Other, Handle, RunStep, ResumeStep, CancelStep, ApproveStep, CallStep, RejectStep
<1>. QED
  BY <1>1, <1>2, <1>3, <1>4

LEMMA TrailNextIsNext ==
  ASSUME [TrailNext]_trailVars
  PROVE  [Next]_vars
BY TrailSteps DEF TrailNext, trailVars, Next, Cancels

\* What the other requests have inserted stays.
LEMMA OthersNoted ==
  ASSUME Before, TrailInv, NEW r \in Requests,
         Post(r) \/ Handle(r) \/ AbortDeadlocked(r) \/ LoseSession(r),
         Notes(r) \/ Records(r) \/ Forgets(r), NEW q \in Requests, q # r
  PROVE  Noted(q)'
<1>1. TypeOK /\ TrailOK /\ Noted(q) /\ HasItsStep(r)
  BY DEF Before, IInv, GateInv, TrailInv
<1>2. noted'[q] = noted[q]
  BY <1>1 DEF Notes, Records, Forgets, TrailOK
<1>3. pc'[q] = pc[q] /\ view'[q] = view[q] /\ dirty'[q] = dirty[q]
  <2>1. CASE Handle(r)
    BY <1>1, <2>1, HandleKeepsStep, OthersWritten DEF Untouched
  <2>2. CASE Leave(r)
    BY <1>1, <2>2 DEF Leave, Goto, TypeOK
  <2>3. CASE Post(r)
    BY <1>1, <2>3
       DEF Post, PostRun, PostResume, PostCancel, PostApprove, PostReject, Arrive, Goto, TypeOK
  <2>. QED
    BY <2>1, <2>2, <2>3 DEF AbortDeadlocked, LoseSession
<1>. QED
  BY <1>1, <1>2, <1>3 DEF Noted

\* Every step of a request leaves the trail in agreement with the rows,
LEMMA RequestKeepsTrail ==
  ASSUME Before, Before', RecordInv, TrailInv, NEW r \in Requests,
         \/ Flushing(r) /\ Notes(r)
         \/ Cancels(r)
         \/ Committing(r) /\ Records(r)
         \/ Other(r) /\ Forgets(r)
  PROVE  TrailInv'
<1>1. /\ Post(r) \/ Handle(r) \/ AbortDeadlocked(r) \/ LoseSession(r)
      /\ Notes(r) \/ Records(r) \/ Forgets(r)
  BY TrailSteps DEF Cancels
<1>2. TrailOK'
  BY <1>1, TrailType DEF TrailInv
<1>3. \A q \in Requests : q # r => Noted(q)'
  BY <1>1, OthersNoted
<1>4. CASE Flushing(r) /\ Notes(r)
  <2>1. Lapses /\ trail' = trail
    BY <1>4
       DEF Flushing, RunStart, StepStart, SaveStep, ResumeEvent, Lapses, Notes
  <2>. QED
    BY <1>2, <1>3, <1>4, <2>1, FlushNoted, LapseMatches DEF TrailInv
<1>5. CASE Cancels(r)
  <2>1. Lapses /\ trail' = trail
    BY <1>5 DEF Cancels, CancelLock, Lapses, Notes, Forgets
  <2>2. CASE pc'[r] = "idle"
    <3>1. TrailOK /\ noted'[r] = {}
      BY <1>5, <2>2 DEF Cancels, Forgets, TrailInv, TrailOK
    <3>2. dirty'[r] = {}
      BY <2>2 DEF Before, OrderInv, Session, Writing, AtStep, Cancelling
    <3>3. Noted(r)'
      BY <2>2, <3>1, <3>2 DEF Noted, Cancelling
    <3>. QED
      BY <1>2, <1>3, <2>1, <3>3, LapseMatches DEF TrailInv
  <2>3. CASE pc'[r] # "idle"
    BY <1>2, <1>3, <1>5, <2>1, <2>3, CancelNoted, LapseMatches DEF TrailInv, Cancels
  <2>. QED
    BY <2>2, <2>3
<1>6. CASE Committing(r) /\ Records(r)
  BY <1>2, <1>3, <1>6, TrailSteps, CommitNoted, CommitMatches DEF TrailInv
<1>7. CASE Other(r) /\ Forgets(r)
  <2>1. CASE Handle(r)
    <3>1. ~ Committing(r) => Lapses
      BY <2>1, WhatCommits DEF Before, Committing
    <3>2. Lapses /\ trail' = trail
      <4>1. HoldsItsApproval(r) /\ ap \in [Steps -> ApprovalStatus \cup {"none"}]
        BY DEF Before, IInv, GateInv, TypeOK
      <4>2. db' = db
        BY <1>7
           DEF Other, Post, PostRun, PostResume, PostCancel, PostApprove, PostReject, Arrive,
               RunGet, RunSteps, ExecSucceeds, ExecFails, ExecRaises, Retry, GateTaken,
               Refuse, ResumeGet, CancelSteps, CancelApprovals, ApproveLock, ApproveGet,
               ApproveSteps, CallGet, CallSteps, Call, CallDenied, RejectLock, RejectGet,
               RejectSteps, AbortDeadlocked, LoseSession
      <4>3. CASE ApproveLock(r) \/ ApproveSteps(r)
        BY <1>7, <4>1, <4>2, <4>3
           DEF Lapses, ApproveLock, ApproveSteps, HoldsItsApproval, Deciding, Forgets
      <4>4. CASE ~ (ApproveLock(r) \/ ApproveSteps(r))
        <5>1. ap' = ap
          BY <1>7, <4>4
             DEF Other, Post, PostRun, PostResume, PostCancel, PostApprove, PostReject,
                 Arrive, RunGet, RunSteps, ExecSucceeds, ExecFails, ExecRaises, Retry,
                 GateTaken, Refuse, ResumeGet, CancelSteps, CancelApprovals, ApproveGet,
                 CallGet, CallSteps, Call, CallDenied, RejectLock, RejectGet,
                 RejectSteps, AbortDeadlocked, LoseSession
        <5>. QED
          BY <1>7, <4>2, <5>1 DEF Lapses, Forgets
      <4>. QED
        BY <4>3, <4>4
    <3>. QED
      BY <1>2, <1>3, <1>7, <3>2, OtherNoted, LapseMatches DEF TrailInv
  <2>2. CASE ~ Handle(r)
    <3>1. Lapses /\ trail' = trail
      BY <1>1, <1>7, <2>2
         DEF Post, PostRun, PostResume, PostCancel, PostApprove, PostReject, Arrive,
             AbortDeadlocked, LoseSession, Lapses, Forgets
    <3>. QED
      BY <1>2, <1>3, <1>7, <3>1, OtherNoted, LapseMatches DEF TrailInv
  <2>. QED
    BY <2>1, <2>2
<1>. QED
  BY <1>4, <1>5, <1>6, <1>7

\* and so does every other step.
LEMMA TrailInvNext ==
  ASSUME Before, Before', RecordInv, TrailInv, [TrailNext]_trailVars
  PROVE  TrailInv'
<1>1. CASE UNCHANGED <<db, ap, session, trail, noted>>
  BY <1>1 DEF session, TrailInv, TrailOK, EvidenceMatchesState, Noted
<1>2. ASSUME NEW s \in Steps, PassDue(s), UNCHANGED <<trail, noted>>
      PROVE  TrailInv'
  BY <1>1, <1>2 DEF PassDue
<1>3. CASE UNCHANGED trailVars
  BY <1>1, <1>3 DEF trailVars, vars
<1>4. CASE AllAnswered /\ UNCHANGED <<trail, noted>>
  BY <1>1, <1>4 DEF AllAnswered, vars
<1>. QED
  BY <1>2, <1>3, <1>4, RequestKeepsTrail DEF TrailNext

LEMMA TrailInvInit ==
  ASSUME TrailInit
  PROVE  TrailInv
<1>1. TrailOK
  BY DEF TrailInit, TrailOK
<1>2. \A r \in Requests : Noted(r)
  BY DEF TrailInit, Init, Noted, Cancelling
<1>3. \A e \in Evidence : trail[e] = 0
  BY DEF TrailInit
<1>4. EvidenceMatchesState
  <2>1. \A s \in Steps : \A x \in {"approval_requested", "approval_approved",
            "approval_rejected", "approved_action_executed"} : trail[<<x, s>>] = 0
    BY <1>3 DEF Evidence
  <2>. QED
    BY <2>1 DEF TrailInit, Init, Created, EvidenceMatchesState, Once
<1>. QED
  BY <1>1, <1>2, <1>4 DEF TrailInv

\* The audit trail and the rows never disagree: approvals asked for, given and
\* rejected and executions are on record exactly once, and nothing has ended
\* without a record, for every number of steps and of requests that interleave,
\* are rolled back or lost.
THEOREM TrailMatchesRows == TrailSpec => []EvidenceMatchesState
<1>1. TrailInit => Before /\ RecordInv /\ TrailInv
  BY BeforeInit, RecordInvInit, TrailInvInit DEF TrailInit
<1>2. Before /\ RecordInv /\ TrailInv /\ [TrailNext]_trailVars
        => (Before /\ RecordInv /\ TrailInv)'
  BY BeforeNext, RecordInvNext, TrailInvNext, TrailNextIsNext
<1>3. TrailInv => EvidenceMatchesState
  BY DEF TrailInv
<1>. QED
  BY <1>1, <1>2, <1>3, PTL DEF TrailSpec

-----------------------------------------------------------------------------
(* Requests that come one at a time.                                       *)

OneAtATime == \A q, r \in Requests : q = r

StatusColumn   == <<"status", WorkflowRow>>
PositionColumn == <<"current_step", WorkflowRow>>

\* The statements of the loop of `run`, and all that have loaded every row.
Loop == AtStep \cup {"finish"}

AllLoaded ==
  Loop \cup {"cancel_flush", "cancel_commit", "approve_commit", "reject_commit"}

\* The first current_step steps are the completed ones.
Climbed(d) ==
  \A s \in Steps : d.step_status[s] = "completed" <=> s <= d.current_step

\* Of the rows it knows, a session has an old copy only where it has written.
Sync(r) ==
  /\ WorkflowRow \in known[r] =>
       /\ StatusColumn \notin dirty[r] => view[r].status = db.status
       /\ PositionColumn \notin dirty[r] => view[r].current_step = db.current_step
  /\ \A s \in Steps : s \in known[r] /\ <<"step_status", s>> \notin dirty[r] =>
       view[r].step_status[s] = db.step_status[s]

\* The rows a request has loaded when it comes to a statement.
KnownAt(r) ==
  /\ pc[r] \in {"run_start", "run_steps", "resume_start", "resume_event",
                "cancel_steps", "approve_steps", "reject_steps", "call_steps",
                "call"} \cup Called => WorkflowRow \in known[r]
  /\ pc[r] \in {"call"} \cup Called => tgt[r] \in known[r]
  /\ pc[r] \in AllLoaded => 0..N \subseteq known[r]

\* What it knows of the workflow there.
StatusAt(r) ==
  /\ StatusColumn \in dirty[r] =>
       IF pc[r] \in Cancelling THEN CanMove(db.status, "cancelled")
                               ELSE db.status = "pending"
  /\ PositionColumn \in dirty[r] => pc[r] \in Loop
  /\ pc[r] \in {"run_start", "resume_start"} => view[r].status = "pending"
  /\ pc[r] = "resume_event" => view[r].status = "running"
  /\ pc[r] \in Loop \cup {"run_steps"} =>
       view[r].status \in {"running", "waiting_for_approval"}

\* And of the steps.  A run that finds the workflow waiting comes to the gate
\* of the step it waits at, and no further.
ClimbedAt(r) ==
  /\ pc[r] \in AllLoaded => Climbed(view[r])
  /\ pc[r] = "finish" => Incomplete(view[r]) = {}
  /\ pc[r] \in Loop =>
       /\ db.current_step <= view[r].current_step
       /\ \A s \in Steps :
            db.current_step < s /\ s <= view[r].current_step => s \notin Consequential
       /\ view[r].status = "waiting_for_approval" =>
            /\ pc[r] \in {"step_start", "gate"}
            /\ view[r].current_step = db.current_step

\* Approvals are asked for up to the step that is next.
AskedUpTo == \A s \in Steps : ap[s] # "none" => s <= db.current_step + 1

\* Nothing is done for a pending workflow.
PendingIsNew ==
  db.status = "pending" => db.current_step = 0 /\ \A s \in Steps : ap[s] = "none"

CommittedInTurn ==
  /\ Climbed(db)
  /\ db.status = "completed" => db.current_step = N
  /\ AskedUpTo /\ PendingIsNew /\ PendingWhileWaiting

SessionInTurn(r) == Sync(r) /\ KnownAt(r) /\ StatusAt(r) /\ ClimbedAt(r)

TurnInv == CommittedInTurn /\ \A r \in Requests : SessionInTurn(r)

\* What holds before a request takes a step.
InTurn == Before /\ RecordInv /\ TurnInv

\* In a climbed copy the next step is the one after current_step.
LEMMA CurrentIsNext ==
  ASSUME NEW v \in RowValues, Climbed(v), Incomplete(v) # {}
  PROVE  /\ FirstIncomplete(v) = v.current_step + 1
         /\ v.current_step + 1 \in Steps
         /\ v.current_step < N
<1>. DEFINE c == v.current_step
            t == FirstIncomplete(v)
<1>1. c \in 0..N
  BY DEF RowValues
<1>2. t \in Incomplete(v) /\ t \in Steps
  BY FirstIncompleteIsStep
<1>3. t > c
  BY <1>1, <1>2 DEF Incomplete, Climbed, Steps
<1>4. c + 1 \in Steps /\ c < N
  BY <1>1, <1>2, <1>3 DEF Steps
<1>5. c + 1 \in Incomplete(v)
  BY <1>1, <1>4 DEF Incomplete, Climbed
<1>6. \A q \in Incomplete(v) : t <= q
  <2>1. Incomplete(v) \in SUBSET Steps
    BY DEF Incomplete
  <2>2. \E s \in Incomplete(v) : \A q \in Incomplete(v) : s <= q
    BY <2>1, FirstStep
  <2>. QED
    BY <2>2 DEF FirstIncomplete
<1>. QED
  BY <1>1, <1>2, <1>3, <1>4, <1>5, <1>6 DEF Steps

\* When every step is completed, the position is the last.
LEMMA ClimbedToTheTop ==
  ASSUME NEW v \in RowValues, Climbed(v), Incomplete(v) = {}
  PROVE  v.current_step = N
<1>1. v.current_step \in 0..N /\ N \in Steps
  BY DEF RowValues, Steps
<1>2. v.step_status[N] = "completed"
  BY <1>1 DEF Incomplete
<1>. QED
  BY <1>1, <1>2 DEF Climbed

\* The position column, as StatusChanged says it of the others.
LEMMA PositionChanged ==
  ASSUME NEW u, NEW v
  PROVE  PositionColumn \in Changed(u, v) <=> u.current_step # v.current_step
<1>1. PositionColumn \in Columns
  BY DEF Columns, PositionColumn
<1>. QED
  BY <1>1 DEF Changed, PositionColumn

\* A commit of rows that are known writes them as the session has them.
LEMMA CommitRows ==
  ASSUME NEW r \in Requests, Persist(r), Sync(r)
  PROVE  /\ WorkflowRow \in known[r] =>
              /\ db'.status = Written(r).status
              /\ db'.current_step = Written(r).current_step
         /\ \A s \in Steps : s \in known[r] => db'.step_status[s] = Written(r).step_status[s]
         /\ \A s \in Steps :
              dirty[r] = {} /\ Written(r).step_status[s] = view[r].step_status[s]
                => db'.step_status[s] = db.step_status[s]
         /\ \A s \in Steps : db'.retry_count[s] \in {db.retry_count[s], Written(r).retry_count[s]}
<1>1. db'.current_step = IF PositionColumn \in dirty[r] \cup Changed(view[r], Written(r))
                           THEN Written(r).current_step ELSE db.current_step
  BY DEF Persist, Overwrite, PositionColumn
<1>2. WorkflowRow \in known[r] => /\ db'.status = Written(r).status
                                  /\ db'.current_step = Written(r).current_step
  BY <1>1, CommitValues, PositionChanged DEF Sync, StatusColumn
<1>3. \A s \in Steps : s \in known[r] => db'.step_status[s] = Written(r).step_status[s]
  BY CommitValues DEF Sync
<1>4. \A s \in Steps :
        dirty[r] = {} /\ Written(r).step_status[s] = view[r].step_status[s]
          => db'.step_status[s] = db.step_status[s]
  BY CommitValues
<1>5. \A s \in Steps : db'.retry_count[s] \in {db.retry_count[s], Written(r).retry_count[s]}
  BY DEF Persist, Overwrite
<1>. QED
  BY <1>2, <1>3, <1>4, <1>5

-----------------------------------------------------------------------------
(* A session stays in turn.                                                *)

\* A SELECT,
LEMMA ReadSync ==
  ASSUME TypeOK, NEW r \in Requests, Sync(r), NEW rows, Read(r, rows), dirty' = dirty, db' = db
  PROVE  Sync(r)'
<1>1. /\ view'[r] = Loaded(r, rows) /\ known'[r] = known[r] \cup rows /\ dirty'[r] = dirty[r]
  BY DEF Read, TypeOK
<1>2. StatusColumn \in Columns /\ PositionColumn \in Columns
      /\ \A s \in Steps : <<"step_status", s>> \in Columns
  BY DEF Columns, StatusColumn, PositionColumn
<1>3. /\ view'[r].status = IF WorkflowRow \in rows \ known[r] THEN db.status ELSE view[r].status
      /\ view'[r].current_step =
           IF WorkflowRow \in rows \ known[r] THEN db.current_step ELSE view[r].current_step
      /\ \A s \in Steps : view'[r].step_status[s] =
           IF s \in rows \ known[r] THEN db.step_status[s] ELSE view[r].step_status[s]
  BY <1>1, <1>2 DEF Loaded, Overwrite, StatusColumn, PositionColumn
<1>. QED
  BY <1>1, <1>3 DEF Sync

\* a flush,
LEMMA FlushSync ==
  ASSUME TypeOK, NEW r \in Requests, Sync(r), Flush(r), known' = known, db' = db
  PROVE  Sync(r)'
<1>1. /\ view'[r] = Written(r) /\ dirty'[r] = dirty[r] \cup Changed(view[r], Written(r))
  BY DEF Flush, TypeOK
<1>. QED
  BY <1>1, StatusChanged, PositionChanged DEF Sync, StatusColumn

\* and a commit leave no old copies.
LEMMA ContinueSync ==
  ASSUME TypeOK, NEW r \in Requests, Sync(r), Persist(r), NEW label, NEW step,
         NEW rows, Continue(r, label, step, rows), rows \subseteq known[r]
  PROVE  Sync(r)'
<1>1. /\ view'[r] = Overwrite(Created, Written(r), {c \in Columns : c[2] \in rows})
      /\ known'[r] = rows
  BY DEF Continue, TypeOK
<1>2. StatusColumn \in Columns /\ PositionColumn \in Columns
      /\ \A s \in Steps : <<"step_status", s>> \in Columns
  BY DEF Columns, StatusColumn, PositionColumn
<1>3. WorkflowRow \in rows => /\ view'[r].status = Written(r).status
                              /\ view'[r].current_step = Written(r).current_step
  BY <1>1, <1>2 DEF Overwrite, StatusColumn, PositionColumn
<1>4. \A s \in Steps : s \in rows => view'[r].step_status[s] = Written(r).step_status[s]
  BY <1>1, <1>2 DEF Overwrite
<1>. QED
  BY <1>1, <1>3, <1>4, CommitRows DEF Sync

LEMMA LeaveSync ==
  ASSUME TypeOK, NEW r \in Requests, Leave(r)
  PROVE  Sync(r)'
BY DEF Leave, TypeOK, Sync

\* Every handler step does.
LEMMA SyncKept ==
  ASSUME InTurn, NEW r \in Requests, Handle(r)
  PROVE  Sync(r)'
<1>1. TypeOK /\ Sync(r) /\ KnownAt(r) /\ Session(r)
  BY DEF InTurn, Before, IInv, OrderInv, TurnInv, SessionInTurn
<1>2. CASE Leave(r)
  BY <1>1, <1>2, LeaveSync
<1>3. CASE Flush(r) /\ known' = known /\ db' = db
  BY <1>1, <1>3, FlushSync
<1>4. CASE \E rows : Read(r, rows) /\ dirty' = dirty /\ db' = db
  BY <1>1, <1>4, ReadSync
<1>5. CASE UNCHANGED <<view, known, dirty, db>>
  BY <1>1, <1>5 DEF Sync
<1>6. CASE ResumeStart(r)
  BY <1>1, <1>6, ContinueSync DEF ResumeStart, KnownAt
<1>7. CASE ApproveCommit(r)
  BY <1>1, <1>7, ContinueSync DEF ApproveCommit
<1>8. CASE CallSave(r)
  BY <1>1, <1>8, ContinueSync DEF CallSave, KnownAt, Called
<1>9. CASE CancelLock(r) /\ ~ Leave(r)
  <2>1. /\ dirty[r] = {} /\ db' = db
        /\ known'[r] = {WorkflowRow} /\ dirty'[r] = {StatusColumn}
        /\ view'[r] = [Loaded(r, {WorkflowRow}) EXCEPT !.status = "cancelled"]
    BY <1>1, <1>9 DEF CancelLock, TypeOK, Session, Writing, AtStep, Cancelling, StatusColumn
  <2>2. view'[r].current_step = Loaded(r, {WorkflowRow}).current_step
    BY <2>1 DEF Loaded, Overwrite
  <2>3. Loaded(r, {WorkflowRow}).current_step = db.current_step
    <3>1. PositionColumn \in Columns
      BY DEF Columns, PositionColumn
    <3>. QED
      BY <1>1, <2>1, <3>1 DEF Loaded, Overwrite, Sync, PositionColumn
  <2>. QED
    BY <2>1, <2>2, <2>3 DEF Sync, WorkflowRow, Steps
<1>10. CASE RunStep(r)
  BY <1>2, <1>3, <1>4, <1>5, <1>10
     DEF RunStep, RunGet, RunStart, RunSteps, StepStart, ExecSucceeds, ExecFails,
         ExecRaises, Retry, SaveStep, FailStep, Gate, GateTaken, Finish, Refuse
<1>11. CASE ResumeStep(r)
  BY <1>2, <1>3, <1>4, <1>6, <1>11 DEF ResumeStep, ResumeGet, ResumeEvent
<1>12. CASE CancelStep(r)
  BY <1>2, <1>3, <1>4, <1>9, <1>12
     DEF CancelStep, CancelSteps, CancelApprovals, CancelCommit
<1>13. CASE ApproveStep(r)
  BY <1>2, <1>4, <1>5, <1>7, <1>13 DEF ApproveStep, ApproveLock, ApproveGet, ApproveSteps
<1>14. CASE CallStep(r)
  BY <1>2, <1>4, <1>5, <1>8, <1>14
     DEF CallStep, CallGet, CallSteps, Call, CallDenied, CallFail
<1>15. CASE RejectStep(r)
  BY <1>2, <1>4, <1>5, <1>15
     DEF RejectStep, RejectLock, RejectGet, RejectSteps, RejectCommit
<1>. QED
  BY <1>10, <1>11, <1>12, <1>13, <1>14, <1>15 DEF Handle

\* It comes to its next statement with the rows it needs there.
LEMMA KnownKept ==
  ASSUME InTurn, NEW r \in Requests, Handle(r)
  PROVE  KnownAt(r)'
<1>. USE DEF Called, AllLoaded, Loop, AtStep
<1>1. TypeOK /\ KnownAt(r)
  BY DEF InTurn, Before, IInv, TurnInv, SessionInTurn
<1>2. CASE pc'[r] \in {"idle", "run_get", "approve_get", "reject_get", "call_get"}
  BY <1>2 DEF KnownAt
<1>3. ASSUME NEW label, Goto(r, label), NEW rows, Read(r, rows), WorkflowRow \in rows,
             label \in {"run_start", "run_steps", "resume_start", "resume_event",
                        "approve_steps", "reject_steps", "call_steps"}
      PROVE  KnownAt(r)'
  BY <1>1, <1>3 DEF Read, Goto, TypeOK, KnownAt
<1>4. ASSUME NEW label, Goto(r, label), Read(r, Steps), label \in AllLoaded,
             pc[r] \in {"run_steps", "cancel_steps", "approve_steps", "reject_steps"}
      PROVE  KnownAt(r)'
  <2>1. pc'[r] = label /\ known'[r] = known[r] \cup Steps /\ WorkflowRow \in known[r]
    BY <1>1, <1>4 DEF Read, Goto, TypeOK, KnownAt
  <2>2. 0..N \subseteq known'[r]
    BY <2>1 DEF Steps, WorkflowRow
  <2>. QED
    BY <1>4, <2>1, <2>2 DEF KnownAt
<1>5. ASSUME NEW label, Goto(r, label), known' = known, pc[r] \in AllLoaded,
             label \in AllLoaded
      PROVE  KnownAt(r)'
  BY <1>1, <1>5 DEF Goto, TypeOK, KnownAt
<1>6. CASE CancelLock(r) /\ ~ Leave(r)
  BY <1>1, <1>6 DEF CancelLock, Goto, TypeOK, KnownAt
<1>7. CASE Leave(r)
  BY <1>1, <1>2, <1>7 DEF Leave, Goto, TypeOK
<1>8. CASE RunStep(r)
  <2>1. CASE RunStart(r)
    BY <1>1, <2>1 DEF RunStart, Goto, TypeOK, KnownAt
  <2>2. CASE StepStart(r) \/ ExecSucceeds(r) \/ ExecFails(r) \/ Retry(r) \/ SaveStep(r)
    BY <1>5, <2>2 DEF StepStart, ExecSucceeds, ExecFails, Retry, SaveStep, Advance
  <2>3. CASE RunGet(r) /\ ~ Leave(r)
    BY <1>3, <2>3 DEF RunGet
  <2>4. CASE RunSteps(r)
    BY <1>4, <2>4 DEF RunSteps, Advance
  <2>. QED
    BY <1>7, <1>8, <2>1, <2>2, <2>3, <2>4
       DEF RunStep, ExecRaises, FailStep, Gate, GateTaken, Finish, Refuse
<1>9. CASE ResumeStep(r)
  <2>1. CASE ResumeGet(r) /\ ~ Leave(r)
    BY <1>3, <2>1 DEF ResumeGet
  <2>2. CASE ResumeStart(r)
    BY <1>1, <2>2 DEF ResumeStart, Continue, Goto, TypeOK, KnownAt
  <2>3. CASE ResumeEvent(r)
    BY <1>1, <1>2, <2>3 DEF ResumeEvent, Goto, TypeOK
  <2>. QED
    BY <1>7, <1>9, <2>1, <2>2, <2>3 DEF ResumeStep
<1>10. CASE CancelStep(r)
  BY <1>4, <1>5, <1>6, <1>7, <1>10
     DEF CancelStep, CancelSteps, CancelApprovals, CancelCommit
<1>11. ASSUME NEW label, Goto(r, label),
              label \in {"idle", "run_get", "approve_get", "reject_get", "call_get"}
       PROVE  KnownAt(r)'
  BY <1>1, <1>2, <1>11 DEF Goto, TypeOK
<1>12. CASE ApproveStep(r)
  BY <1>3, <1>4, <1>7, <1>11, <1>12
     DEF ApproveStep, ApproveLock, ApproveGet, ApproveSteps, ApproveCommit, Continue
<1>13. CASE CallStep(r)
  <2>1. CASE CallSteps(r) /\ ~ Leave(r)
    BY <1>1, <2>1 DEF CallSteps, Read, Goto, TypeOK, KnownAt
  <2>2. CASE Call(r) \/ CallDenied(r)
    BY <1>1, <2>2 DEF Call, CallDenied, Goto, TypeOK, KnownAt
  <2>3. CASE CallGet(r) /\ ~ Leave(r)
    BY <1>3, <2>3 DEF CallGet
  <2>. QED
    BY <1>7, <1>11, <1>13, <2>1, <2>2, <2>3 DEF CallStep, CallSave, CallFail, Continue
<1>14. CASE RejectStep(r)
  BY <1>3, <1>4, <1>7, <1>11, <1>14
     DEF RejectStep, RejectLock, RejectGet, RejectSteps, RejectCommit
<1>. QED
  BY <1>8, <1>9, <1>10, <1>12, <1>13, <1>14 DEF Handle

\* The flushes of the loop leave the status of the workflow alone.
LEMMA LoopFlushStatus ==
  ASSUME TypeOK, NEW r \in Requests, Flush(r),
         pc[r] \in {"step_start", "retry", "save", "cancel_flush", "resume_event"}
  PROVE  /\ view'[r].status = view[r].status
         /\ StatusColumn \in dirty'[r] <=> StatusColumn \in dirty[r]
         /\ pc[r] # "save" => /\ view'[r].current_step = view[r].current_step
                              /\ PositionColumn \in dirty'[r] <=> PositionColumn \in dirty[r]
<1>1. view[r] \in RowValues
  BY DEF TypeOK
<1>2. /\ view'[r] = Written(r) /\ dirty'[r] = dirty[r] \cup Changed(view[r], Written(r))
  BY DEF Flush, TypeOK
<1>3. /\ Written(r).status = view[r].status
      /\ pc[r] # "save" => Written(r).current_step = view[r].current_step
  BY <1>1 DEF Written, RowValues
<1>. QED
  BY <1>2, <1>3, StatusChanged, PositionChanged DEF StatusColumn

\* It knows the status of the workflow there,
LEMMA StatusKept ==
  ASSUME InTurn, NEW r \in Requests, Handle(r)
  PROVE  StatusAt(r)'
<1>. USE DEF Loop, AtStep, Cancelling
<1>1. /\ TypeOK /\ Sync(r) /\ KnownAt(r) /\ StatusAt(r) /\ Session(r)
      /\ view[r] \in RowValues /\ db.status \in WorkflowStatus
  BY DEF InTurn, Before, IInv, OrderInv, TurnInv, SessionInTurn, TypeOK, RowValues
<1>2. CASE dirty'[r] = {} /\ pc'[r] \notin Loop \cup {"run_start", "run_steps",
                                                      "resume_start", "resume_event"}
  BY <1>2 DEF StatusAt
<1>3. CASE Leave(r)
  <2>1. dirty'[r] = {} /\ pc'[r] = "idle"
    BY <1>1, <1>3 DEF Leave, Goto, TypeOK
  <2>. QED
    BY <1>2, <2>1
<1>4. ASSUME NEW label, Goto(r, label), dirty' = dirty, pc[r] \notin Writing,
             label \in Labels \ (Loop \cup {"run_start", "run_steps",
                                            "resume_start", "resume_event"})
      PROVE  StatusAt(r)'
  BY <1>1, <1>2, <1>4 DEF Goto, TypeOK, Session
<1>5. ASSUME Flush(r), pc[r] \in {"step_start", "retry", "save"},
             NEW label, Goto(r, label), label \in Loop, db' = db
      PROVE  StatusAt(r)'
  BY <1>1, <1>5, LoopFlushStatus DEF StatusAt, Goto, TypeOK
<1>6. StatusColumn \in Columns
  BY DEF Columns, StatusColumn
<1>7. CASE RunStep(r)
  <2>1. CASE RunGet(r) /\ ~ Leave(r)
    <3>1. /\ view'[r] = Loaded(r, {WorkflowRow}) /\ dirty'[r] = {}
          /\ view'[r].status \notin Terminal
          /\ pc'[r] = IF view'[r].status = "pending" THEN "run_start" ELSE "run_steps"
      BY <1>1, <2>1 DEF RunGet, Read, Goto, TypeOK, Session, Writing
    <3>2. view'[r].status \in WorkflowStatus
      BY <1>1, <3>1 DEF Loaded, Overwrite, RowValues
    <3>. QED
      BY <3>1, <3>2 DEF StatusAt, WorkflowStatus, Terminal
  <2>2. CASE RunStart(r)
    <3>1. /\ pc[r] = "run_start" /\ pc'[r] = "run_steps" /\ db' = db
          /\ view'[r] = Written(r) /\ dirty[r] = {}
          /\ dirty'[r] = Changed(view[r], Written(r))
      BY <1>1, <2>2 DEF RunStart, Flush, Goto, TypeOK, Session, Writing
    <3>2. Written(r).status = "running" /\ Written(r).current_step = view[r].current_step
      BY <1>1, <3>1 DEF Written, RowValues
    <3>3. PositionColumn \notin dirty'[r]
      BY <3>1, <3>2, PositionChanged
    <3>4. db.status = "pending"
      BY <1>1, <3>1 DEF Sync, KnownAt, StatusAt
    <3>. QED
      BY <3>1, <3>2, <3>3, <3>4 DEF StatusAt
  <2>3. CASE RunSteps(r)
    <3>1. /\ pc[r] = "run_steps" /\ pc'[r] \in {"finish", "step_start"} /\ db' = db
          /\ view'[r] = Loaded(r, Steps) /\ dirty'[r] = dirty[r]
      BY <1>1, <2>3 DEF RunSteps, Read, Goto, TypeOK, Advance
    <3>2. view'[r].status = view[r].status
      BY <3>1, ReadKeepsStatus DEF WorkflowRow, Steps
    <3>. QED
      BY <1>1, <3>1, <3>2 DEF StatusAt
  <2>4. CASE StepStart(r) \/ Retry(r) \/ SaveStep(r)
    BY <1>5, <2>4 DEF StepStart, Retry, SaveStep, Advance
  <2>5. CASE ExecSucceeds(r) \/ ExecFails(r)
    <3>1. /\ pc[r] = "exec" /\ pc'[r] \in Loop
          /\ UNCHANGED <<db, view, dirty>>
      BY <1>1, <2>5 DEF ExecSucceeds, ExecFails, Goto, TypeOK
    <3>. QED
      BY <1>1, <3>1 DEF StatusAt
  <2>. QED
    BY <1>3, <1>7, <2>1, <2>2, <2>3, <2>4, <2>5
       DEF RunStep, ExecRaises, FailStep, Gate, GateTaken, Finish, Refuse
<1>8. CASE ResumeStep(r)
  <2>1. CASE ResumeGet(r) /\ ~ Leave(r)
    <3>1. /\ view'[r] = Loaded(r, {WorkflowRow}) /\ dirty[r] = {} /\ dirty'[r] = {}
          /\ db.status \notin Terminal \cup {"waiting_for_approval"}
          /\ pc'[r] = IF db.status = "pending" THEN "resume_start" ELSE "resume_event"
      BY <1>1, <2>1 DEF ResumeGet, Read, Goto, TypeOK, Session, Writing
    <3>2. view'[r].status = db.status
      BY <1>1, <1>6, <3>1 DEF Loaded, Overwrite, Sync, StatusColumn
    <3>. QED
      BY <1>1, <3>1, <3>2 DEF StatusAt, WorkflowStatus, Terminal
  <2>2. CASE ResumeStart(r)
    <3>1. /\ pc[r] = "resume_start" /\ pc'[r] = "resume_event" /\ dirty'[r] = {}
          /\ view'[r] = Overwrite(Created, Written(r), {c \in Columns : c[2] \in {WorkflowRow}})
      BY <1>1, <2>2 DEF ResumeStart, Continue, Goto, TypeOK
    <3>2. Written(r).status = "running"
      BY <1>1, <3>1 DEF Written, RowValues
    <3>3. view'[r].status = "running"
      BY <1>6, <3>1, <3>2 DEF Overwrite, StatusColumn
    <3>. QED
      BY <3>1, <3>3 DEF StatusAt
  <2>3. CASE ResumeEvent(r)
    <3>1. pc[r] = "resume_event" /\ pc'[r] = "run_get" /\ dirty[r] = {}
      BY <1>1, <2>3 DEF ResumeEvent, Goto, TypeOK, Session, Writing
    <3>2. StatusColumn \notin dirty'[r] /\ PositionColumn \notin dirty'[r]
      BY <1>1, <2>3, <3>1, LoopFlushStatus DEF ResumeEvent
    <3>. QED
      BY <3>1, <3>2 DEF StatusAt
  <2>. QED
    BY <1>3, <1>8, <2>1, <2>2, <2>3 DEF ResumeStep
<1>9. CASE CancelStep(r)
  <2>1. CASE CancelLock(r) /\ ~ Leave(r)
    <3>1. /\ pc'[r] = "cancel_steps" /\ dirty'[r] = {StatusColumn} /\ db' = db
          /\ CanMove(db.status, "cancelled")
      BY <1>1, <2>1 DEF CancelLock, Goto, TypeOK, StatusColumn
    <3>. QED
      BY <3>1 DEF StatusAt, StatusColumn, PositionColumn
  <2>2. CASE CancelSteps(r)
    <3>1. pc[r] = "cancel_steps" /\ pc'[r] = "cancel_flush" /\ UNCHANGED <<db, dirty>>
      BY <1>1, <2>2 DEF CancelSteps, Goto, TypeOK
    <3>. QED
      BY <1>1, <3>1 DEF StatusAt
  <2>3. CASE CancelApprovals(r)
    <3>1. pc[r] = "cancel_flush" /\ pc'[r] = "cancel_commit" /\ db' = db
      BY <1>1, <2>3 DEF CancelApprovals, Goto, TypeOK
    <3>2. /\ StatusColumn \in dirty'[r] <=> StatusColumn \in dirty[r]
          /\ PositionColumn \in dirty'[r] <=> PositionColumn \in dirty[r]
      BY <1>1, <2>3, <3>1, LoopFlushStatus DEF CancelApprovals
    <3>. QED
      BY <1>1, <3>1, <3>2 DEF StatusAt
  <2>. QED
    BY <1>3, <1>9, <2>1, <2>2, <2>3 DEF CancelStep, CancelCommit
<1>10. ASSUME NEW label \in {"call_get", "run_get"}, NEW step, NEW rows,
              Continue(r, label, step, rows)
       PROVE  StatusAt(r)'
  BY <1>1, <1>2, <1>10 DEF Continue, Goto, TypeOK
<1>11. CASE ApproveStep(r)
  BY <1>3, <1>4, <1>10, <1>11
     DEF ApproveStep, ApproveLock, ApproveGet, ApproveSteps, ApproveCommit, Writing, Labels
<1>12. CASE CallStep(r)
  BY <1>3, <1>4, <1>10, <1>12
     DEF CallStep, CallGet, CallSteps, Call, CallDenied, CallSave, CallFail, Writing, Labels
<1>13. CASE RejectStep(r)
  BY <1>3, <1>4, <1>13
     DEF RejectStep, RejectLock, RejectGet, RejectSteps, RejectCommit, Writing, Labels
<1>. QED
  BY <1>7, <1>8, <1>9, <1>11, <1>12, <1>13 DEF Handle

\* what of the steps is completed,
LEMMA LoadedIsClimbed ==
  ASSUME InTurn, NEW r \in Requests, Read(r, Steps),
         pc[r] \in {"run_steps", "cancel_steps", "approve_steps", "reject_steps"}
  PROVE  /\ view'[r].step_status = db.step_status
         /\ view'[r].current_step = db.current_step
         /\ Climbed(view'[r])
<1>1. /\ TypeOK /\ Sync(r) /\ KnownAt(r) /\ StatusAt(r) /\ Session(r) /\ Climbed(db)
      /\ view[r] \in RowValues /\ db \in RowValues
  BY DEF InTurn, Before, IInv, OrderInv, TurnInv, CommittedInTurn, SessionInTurn, TypeOK
<1>2. /\ WorkflowRow \in known[r] /\ PositionColumn \notin dirty[r]
      /\ \A s \in Steps : <<"step_status", s>> \notin dirty[r]
  BY <1>1 DEF KnownAt, StatusAt, Loop, AtStep, Session, Writing, Cancelling
<1>3. /\ view'[r] = Loaded(r, Steps) /\ WorkflowRow \notin Steps
      /\ \A s \in Steps : <<"step_status", s>> \in Columns
  BY <1>1 DEF Read, TypeOK, WorkflowRow, Steps, Columns
<1>4. view'[r].current_step = view[r].current_step
  BY <1>3 DEF Loaded, Overwrite, WorkflowRow
<1>5. view'[r].current_step = db.current_step
  BY <1>1, <1>2, <1>4 DEF Sync
<1>6. view'[r].step_status =
        [s \in Steps |-> IF <<"step_status", s>> \in {c \in Columns : c[2] \in Steps \ known[r]}
                           THEN db.step_status[s] ELSE view[r].step_status[s]]
  BY <1>3 DEF Loaded, Overwrite
<1>7. \A s \in Steps : view'[r].step_status[s] = db.step_status[s]
  BY <1>1, <1>2, <1>3, <1>6 DEF Sync
<1>8. view'[r].step_status = db.step_status
  BY <1>1, <1>6, <1>7 DEF RowValues
<1>. QED
  BY <1>1, <1>5, <1>8 DEF Climbed

\* and, where the workflow waits, the gate it waits at.
LEMMA WaitsAtNext ==
  ASSUME InTurn, db.status = "waiting_for_approval"
  PROVE  /\ db.current_step + 1 \in Consequential \ Unavailable
         /\ db.step_status[db.current_step + 1] = "waiting_for_approval"
<1>1. PICK s \in Steps : /\ db.step_status[s] = "waiting_for_approval"
                         /\ ap[s] \in {"pending", "expired", "cancelled"}
  BY DEF InTurn, Before, OrderInv, WaitsTogether
<1>2. s \in Consequential /\ s <= db.current_step + 1
  BY <1>1 DEF InTurn, Before, OrderInv, AskedInOrder, TurnInv, CommittedInTurn, AskedUpTo
<1>3. ~ (s <= db.current_step)
  BY <1>1 DEF InTurn, TurnInv, CommittedInTurn, Climbed
<1>4. s \notin Unavailable
  <2>1. s \in s..N
    BY DEF Steps
  <2>. QED
    BY <1>1, <2>1 DEF InTurn, Before, StepsInv, Unasked
<1>5. db.current_step \in 0..N
  BY DEF InTurn, Before, IInv, TypeOK, RowValues
<1>6. s = db.current_step + 1
  BY <1>2, <1>3, <1>5 DEF Steps
<1>. QED
  BY <1>1, <1>2, <1>4, <1>6

\* A run that finds the workflow waiting has read that it does.
LEMMA WaitingIsCommitted ==
  ASSUME InTurn, NEW r \in Requests, pc[r] \in Loop \cup {"run_steps"},
         view[r].status = "waiting_for_approval"
  PROVE  db.status = "waiting_for_approval"
<1>1. Sync(r) /\ KnownAt(r) /\ Wrote(r)
  BY DEF InTurn, RecordInv, TurnInv, SessionInTurn
<1>2. WorkflowRow \in known[r]
  BY <1>1 DEF KnownAt, AllLoaded, WorkflowRow
<1>3. StatusColumn \notin dirty[r]
  BY <1>1 DEF Wrote, Loop, AtStep, Cancelling, StatusColumn
<1>. QED
  BY <1>1, <1>2, <1>3 DEF Sync

\* The loop goes on with the copies it has.
LEMMA LoopKeepsClimbed ==
  ASSUME InTurn, NEW r \in Requests, pc[r] \in AtStep, pc'[r] \in AtStep, db' = db,
         view'[r].status = view[r].status,
         view'[r].current_step = view[r].current_step,
         \A s \in Steps : view'[r].step_status[s] = view[r].step_status[s],
         view[r].status = "waiting_for_approval" => pc'[r] \in {"step_start", "gate"}
  PROVE  ClimbedAt(r)'
<1>1. ClimbedAt(r)
  BY DEF InTurn, TurnInv, SessionInTurn
<1>2. Climbed(view[r]) /\ pc'[r] # "finish"
  BY <1>1 DEF ClimbedAt, AllLoaded, Loop, AtStep
<1>3. Climbed(view'[r])
  BY <1>2 DEF Climbed
<1>. QED
  BY <1>1, <1>2, <1>3 DEF ClimbedAt, Loop

\* Saving the step it has come to takes the run one step up.
LEMMA SaveClimbs ==
  ASSUME InTurn, NEW r \in Requests, SaveStep(r)
  PROVE  ClimbedAt(r)'
<1>. DEFINE v == view[r]
            t == Current(r)
<1>1. /\ TypeOK /\ HasItsStep(r) /\ KnowsItsStep(r) /\ ClimbedAt(r) /\ StatusAt(r)
      /\ v \in RowValues /\ db \in RowValues
  BY DEF InTurn, Before, IInv, GateInv, StepsInv, TurnInv, SessionInTurn, TypeOK
<1>2. pc[r] = "save" /\ tgt[r] = 0 /\ db' = db
  BY <1>1 DEF SaveStep, KnowsItsStep, Running, AtStep
<1>3. Climbed(v) /\ Incomplete(v) # {}
  BY <1>1, <1>2 DEF ClimbedAt, AllLoaded, Loop, AtStep, HasItsStep
<1>4. t = v.current_step + 1 /\ t \in Steps /\ t \notin Consequential
  BY <1>1, <1>2, <1>3, CurrentIsNext DEF Current, KnowsItsStep, Passed
<1>5. Written(r) = [v EXCEPT !.step_status[t] = "completed", !.current_step = t]
  BY <1>2 DEF Written
<1>6. /\ view'[r] = Written(r) /\ pc'[r] = Advance(Written(r))
  BY <1>1 DEF SaveStep, Flush, Goto, TypeOK
<1>7. /\ db.current_step <= v.current_step /\ v.status # "waiting_for_approval"
      /\ \A s \in Steps : db.current_step < s /\ s <= v.current_step => s \notin Consequential
  BY <1>1, <1>2 DEF ClimbedAt, Loop, AtStep
<1>. HIDE DEF t, v
<1>8. /\ Written(r).current_step = t /\ Written(r).status = v.status
      /\ \A s \in Steps : Written(r).step_status[s] =
           IF s = t THEN "completed" ELSE v.step_status[s]
  BY <1>1, <1>4, <1>5 DEF RowValues
<1>9. v.current_step \in Nat /\ db.current_step \in Nat
  BY <1>1 DEF RowValues
<1>10. Climbed(Written(r))
  BY <1>3, <1>4, <1>8, <1>9 DEF Climbed, Steps
<1>11. /\ db.current_step <= t
       /\ \A s \in Steps : db.current_step < s /\ s <= t => s \notin Consequential
  BY <1>4, <1>7, <1>9 DEF Steps
<1>. QED
  BY <1>2, <1>6, <1>7, <1>8, <1>10, <1>11 DEF ClimbedAt, Advance

\* It knows what is completed.
LEMMA ClimbedKept ==
  ASSUME InTurn, NEW r \in Requests, Handle(r)
  PROVE  ClimbedAt(r)'
<1>. USE DEF Loop, AtStep, AllLoaded
<1>1. /\ TypeOK /\ ClimbedAt(r) /\ Wrote(r) /\ view[r] \in RowValues /\ db \in RowValues
  BY DEF InTurn, Before, IInv, RecordInv, TurnInv, SessionInTurn, TypeOK
<1>2. CASE pc'[r] \notin AllLoaded
  BY <1>2 DEF ClimbedAt
<1>3. CASE Leave(r)
  BY <1>1, <1>2, <1>3 DEF Leave, Goto, TypeOK
<1>4. ASSUME NEW label, Goto(r, label), label \notin AllLoaded
      PROVE  ClimbedAt(r)'
  BY <1>1, <1>2, <1>4 DEF Goto, TypeOK
<1>5. CASE RunSteps(r)
  <2>1. /\ pc[r] = "run_steps" /\ db' = db /\ Read(r, Steps)
        /\ view'[r] = Loaded(r, Steps) /\ pc'[r] = Advance(view'[r])
    BY <1>1, <1>5 DEF RunSteps, Read, Goto, TypeOK
  <2>2. /\ view'[r].step_status = db.step_status
        /\ view'[r].current_step = db.current_step
        /\ Climbed(view'[r])
    BY <2>1, LoadedIsClimbed
  <2>3. ASSUME view'[r].status = "waiting_for_approval"
        PROVE  pc'[r] = "step_start"
    <3>1. view[r].status = "waiting_for_approval"
      BY <2>1, <2>3, ReadKeepsStatus DEF WorkflowRow, Steps
    <3>2. /\ db.current_step + 1 \in Steps
          /\ db.step_status[db.current_step + 1] = "waiting_for_approval"
      BY <2>1, <3>1, WaitingIsCommitted, WaitsAtNext
    <3>3. db.current_step + 1 \in Incomplete(view'[r])
      BY <2>2, <3>2 DEF Incomplete
    <3>. QED
      BY <2>1, <3>3 DEF Advance
  <2>4. pc'[r] = "finish" => Incomplete(view'[r]) = {}
    BY <2>1 DEF Advance
  <2>5. /\ db.current_step <= view'[r].current_step
        /\ \A s \in Steps : ~ (db.current_step < s /\ s <= view'[r].current_step)
    BY <1>1, <2>2 DEF RowValues, Steps
  <2>. QED
    BY <2>1, <2>2, <2>3, <2>4, <2>5 DEF ClimbedAt
<1>6. CASE StepStart(r)
  <2>1. /\ pc[r] = "step_start" /\ db' = db /\ view'[r] = view[r]
        /\ pc'[r] = CASE Current(r) \in Unavailable -> "fail"
                      [] Current(r) \in Consequential \ Unavailable -> "gate"
                      [] OTHER -> "exec"
    BY <1>1, <1>6 DEF StepStart, Flush, Written, Goto, TypeOK
  <2>2. ASSUME view[r].status = "waiting_for_approval"
        PROVE  pc'[r] = "gate"
    <3>1. db.current_step + 1 \in Consequential \ Unavailable
      BY <2>1, <2>2, WaitingIsCommitted, WaitsAtNext
    <3>2. Current(r) = view[r].current_step + 1
      BY <1>1, <2>1, CurrentIsNext
         DEF Current, ClimbedAt, InTurn, Before, IInv, GateInv, HasItsStep
    <3>3. view[r].current_step = db.current_step
      BY <1>1, <2>1, <2>2 DEF ClimbedAt
    <3>. QED
      BY <2>1, <3>1, <3>2, <3>3
  <2>3. pc'[r] \in AtStep
    BY <2>1
  <2>. QED
    BY <2>1, <2>2, <2>3, LoopKeepsClimbed
<1>7. CASE ExecSucceeds(r) \/ ExecFails(r)
  <2>1. pc[r] = "exec" /\ pc'[r] \in AtStep /\ UNCHANGED <<db, view>>
    BY <1>1, <1>7 DEF ExecSucceeds, ExecFails, Goto, TypeOK
  <2>2. view[r].status # "waiting_for_approval"
    BY <1>1, <2>1 DEF ClimbedAt
  <2>. QED
    BY <2>1, <2>2, LoopKeepsClimbed
<1>8. CASE Retry(r)
  <2>1. pc[r] = "retry" /\ pc'[r] = "exec" /\ db' = db /\ view'[r] = Written(r)
    BY <1>1, <1>8 DEF Retry, Flush, Goto, TypeOK
  <2>2. view[r].status # "waiting_for_approval"
    BY <1>1, <2>1 DEF ClimbedAt
  <2>3. /\ Written(r).status = view[r].status
        /\ Written(r).current_step = view[r].current_step
        /\ \A s \in Steps : Written(r).step_status[s] = view[r].step_status[s]
    BY <1>1, <2>1 DEF Written, RowValues
  <2>. QED
    BY <2>1, <2>2, <2>3, LoopKeepsClimbed
<1>9. ASSUME NEW label, Goto(r, label), Read(r, Steps),
             label \in {"cancel_flush", "approve_commit", "reject_commit"},
             pc[r] \in {"cancel_steps", "approve_steps", "reject_steps"}
      PROVE  ClimbedAt(r)'
  <2>1. pc'[r] = label
    BY <1>1, <1>9 DEF Goto, TypeOK
  <2>. QED
    BY <1>9, <2>1, LoadedIsClimbed DEF ClimbedAt
<1>10. CASE CancelApprovals(r)
  <2>1. /\ pc[r] = "cancel_flush" /\ pc'[r] = "cancel_commit" /\ view'[r] = Written(r)
    BY <1>1, <1>10 DEF CancelApprovals, Flush, Goto, TypeOK
  <2>2. /\ Written(r).current_step = view[r].current_step
        /\ \A s \in Steps : Written(r).step_status[s] = "completed"
                              <=> view[r].step_status[s] = "completed"
    BY <1>1, <2>1 DEF Written, RowValues
  <2>3. Climbed(view[r])
    BY <1>1, <2>1 DEF ClimbedAt
  <2>4. Climbed(view'[r])
    BY <2>1, <2>2, <2>3 DEF Climbed
  <2>. QED
    BY <2>1, <2>4 DEF ClimbedAt
<1>11. CASE RunStep(r)
  BY <1>3, <1>4, <1>5, <1>6, <1>7, <1>8, <1>11, SaveClimbs
     DEF RunStep, RunGet, RunStart, ExecRaises, FailStep, Gate, GateTaken, Finish, Refuse
<1>12. CASE ResumeStep(r)
  BY <1>3, <1>4, <1>12 DEF ResumeStep, ResumeGet, ResumeStart, ResumeEvent, Continue
<1>13. CASE CancelStep(r)
  BY <1>3, <1>4, <1>9, <1>10, <1>13
     DEF CancelStep, CancelLock, CancelSteps, CancelCommit
<1>14. CASE ApproveStep(r)
  BY <1>3, <1>4, <1>9, <1>14
     DEF ApproveStep, ApproveLock, ApproveGet, ApproveSteps, ApproveCommit, Continue
<1>15. CASE CallStep(r)
  BY <1>3, <1>4, <1>15
     DEF CallStep, CallGet, CallSteps, Call, CallDenied, CallSave, CallFail, Continue
<1>16. CASE RejectStep(r)
  BY <1>3, <1>4, <1>9, <1>16
     DEF RejectStep, RejectLock, RejectGet, RejectSteps, RejectCommit
<1>. QED
  BY <1>11, <1>12, <1>13, <1>14, <1>15, <1>16 DEF Handle

-----------------------------------------------------------------------------
(* What is committed in turn.                                              *)

\* The commits of a request that has loaded every row.
LoadedCommits ==
  {"fail", "gate", "finish", "cancel_commit", "approve_commit", "reject_commit"}

\* They write the rows as the request has them,
LEMMA LoadedRows ==
  ASSUME InTurn, NEW r \in Requests, Persist(r), pc[r] \in LoadedCommits
  PROVE  /\ db'.status = Written(r).status
         /\ db'.current_step = Written(r).current_step
         /\ \A s \in Steps : db'.step_status[s] = Written(r).step_status[s]
<1>1. Sync(r) /\ KnownAt(r)
  BY DEF InTurn, TurnInv, SessionInTurn
<1>2. 0..N \subseteq known[r]
  BY <1>1 DEF KnownAt, AllLoaded, Loop, AtStep, LoadedCommits
<1>3. WorkflowRow \in known[r] /\ \A s \in Steps : s \in known[r]
  BY <1>2 DEF WorkflowRow, Steps
<1>. QED
  BY <1>1, <1>3, CommitRows

\* An approval is pending for the step that is next, and it is not completed.
LEMMA PendingIsNext ==
  ASSUME InTurn, NEW s \in Steps, ap[s] = "pending"
  PROVE  /\ db.status = "waiting_for_approval"
         /\ s = db.current_step + 1
         /\ db.step_status[s] # "completed"
<1>1. db.current_step \in Nat
  BY DEF InTurn, Before, IInv, TypeOK, RowValues
<1>. QED
  BY <1>1 DEF InTurn, TurnInv, CommittedInTurn, PendingWhileWaiting, Climbed, Steps

\* which complete no step,
LEMMA LoadedCompletes ==
  ASSUME InTurn, NEW r \in Requests, pc[r] \in LoadedCommits
  PROVE  /\ Written(r).current_step = view[r].current_step
         /\ \A s \in Steps : Written(r).step_status[s] = "completed"
                               <=> view[r].step_status[s] = "completed"
<1>1. /\ view[r] \in RowValues /\ HasItsStep(r) /\ HoldsItsApproval(r) /\ Session(r)
      /\ Sync(r) /\ KnownAt(r)
  BY DEF InTurn, Before, IInv, TypeOK, GateInv, OrderInv, TurnInv, SessionInTurn
<1>2. Written(r).current_step = view[r].current_step
  BY <1>1 DEF LoadedCommits, Written, RowValues
<1>3. ASSUME NEW s \in Steps, Written(r).step_status[s] # view[r].step_status[s]
      PROVE  Written(r).step_status[s] # "completed" /\ view[r].step_status[s] # "completed"
  <2>1. \/ pc[r] \in {"fail", "gate"} /\ s = Current(r)
        \/ pc[r] \in {"approve_commit", "reject_commit"} /\ s = tgt[r]
    BY <1>3, WrittenAt DEF InTurn, LoadedCommits
  <2>2. Written(r).step_status[s] # "completed"
    BY <1>3, <2>1, WrittenAt DEF InTurn
  <2>3. CASE pc[r] \in {"fail", "gate"} /\ s = Current(r)
    <3>1. s \in Incomplete(view[r])
      BY <1>1, <2>3, FirstIncompleteIsStep DEF HasItsStep, AtStep, Current
    <3>. QED
      BY <2>2, <3>1 DEF Incomplete
  <2>4. CASE pc[r] \in {"approve_commit", "reject_commit"} /\ s = tgt[r]
    <3>1. ap[s] = "pending"
      BY <1>1, <2>4 DEF HoldsItsApproval, Deciding
    <3>2. db.step_status[s] # "completed"
      BY <3>1, PendingIsNext
    <3>3. s \in known[r]
      BY <1>1, <2>4 DEF KnownAt, AllLoaded, Steps
    <3>4. <<"step_status", s>> \notin dirty[r]
      BY <1>1, <2>4 DEF Session, Writing, AtStep, Cancelling
    <3>. QED
      BY <1>1, <2>2, <3>2, <3>3, <3>4 DEF Sync
  <2>. QED
    BY <2>1, <2>3, <2>4
<1>. QED
  BY <1>2, <1>3

\* so that what is committed is climbed, and no lower than it was.
LEMMA LoadedIsCommitted ==
  ASSUME InTurn, NEW r \in Requests, Persist(r), pc[r] \in LoadedCommits
  PROVE  /\ Climbed(db')
         /\ db'.current_step = view[r].current_step
         /\ db.current_step <= db'.current_step
<1>1. Climbed(view[r]) /\ ClimbedAt(r) /\ Sync(r) /\ KnownAt(r) /\ StatusAt(r)
      /\ db \in RowValues
  BY DEF InTurn, Before, IInv, TypeOK, TurnInv, SessionInTurn, ClimbedAt, AllLoaded, Loop,
         AtStep, LoadedCommits
<1>2. db'.current_step = view[r].current_step
  BY LoadedRows, LoadedCompletes
<1>3. Climbed(db')
  BY <1>1, <1>2, LoadedRows, LoadedCompletes DEF Climbed
<1>4. CASE pc[r] \in Loop
  BY <1>1, <1>2, <1>3, <1>4 DEF ClimbedAt
<1>5. CASE pc[r] \notin Loop
  <2>1. PositionColumn \notin dirty[r] /\ WorkflowRow \in known[r]
    BY <1>1, <1>5 DEF StatusAt, KnownAt, AllLoaded, LoadedCommits, Loop, AtStep, WorkflowRow
  <2>2. view[r].current_step = db.current_step
    BY <1>1, <2>1 DEF Sync
  <2>. QED
    BY <1>1, <1>2, <1>3, <2>2 DEF RowValues
<1>. QED
  BY <1>4, <1>5

\* A run that has not found the workflow waiting commits to one that is not.
LEMMA RunsFromRunning ==
  ASSUME InTurn, NEW r \in Requests, pc[r] \in {"fail", "gate", "finish"},
         view[r].status = "running"
  PROVE  db.status \in {"pending", "running"}
<1>1. Sync(r) /\ KnownAt(r) /\ StatusAt(r)
  BY DEF InTurn, TurnInv, SessionInTurn
<1>2. WorkflowRow \in known[r]
  BY <1>1 DEF KnownAt, AllLoaded, Loop, AtStep, WorkflowRow
<1>. QED
  BY <1>1, <1>2 DEF Sync, StatusAt, Cancelling

\* While the workflow does not wait, no approval is pending.
LEMMA NonePending ==
  ASSUME InTurn, db.status # "waiting_for_approval"
  PROVE  \A s \in Steps : ap[s] # "pending"
BY DEF InTurn, TurnInv, CommittedInTurn, PendingWhileWaiting

\* What a commit that asks for nothing has to see to.
LEMMA EndsInTurn ==
  ASSUME InTurn, Climbed(db'), db.current_step <= db'.current_step, db' \in RowValues,
         \A s \in Steps : ap'[s] # "none" => ap[s] # "none",
         \A s \in Steps : ap'[s] # "pending",
         db'.status \notin {"pending", "completed"} \/ (db'.status = "completed"
                                                         /\ db'.current_step = N)
  PROVE  CommittedInTurn'
<1>1. AskedUpTo'
  <2>1. db.current_step \in Nat /\ db'.current_step \in Nat
    BY DEF InTurn, Before, IInv, TypeOK, RowValues
  <2>2. \A s \in Steps : s \in Nat
    BY DEF Steps
  <2>. QED
    BY <2>1, <2>2 DEF InTurn, TurnInv, CommittedInTurn, AskedUpTo
<1>. QED
  BY <1>1 DEF CommittedInTurn, PendingIsNew, PendingWhileWaiting

\* A run that fails or finishes,
LEMMA RunEndsInTurn ==
  ASSUME InTurn, db' \in RowValues, NEW r \in Requests, FailStep(r) \/ Finish(r)
  PROVE  CommittedInTurn'
<1>1. /\ view[r] \in RowValues /\ Persist(r) /\ ap' = ap /\ pc[r] \in {"fail", "finish"}
      /\ CanMove(view[r].status, "failed") \/ CanMove(view[r].status, "completed")
  BY DEF InTurn, Before, IInv, TypeOK, FailStep, Finish
<1>2. view[r].status = "running"
  BY <1>1, MovesFrom DEF RowValues
<1>3. \A s \in Steps : ap[s] # "pending"
  BY <1>1, <1>2, RunsFromRunning, NonePending
<1>4. /\ Climbed(db') /\ db.current_step <= db'.current_step
      /\ db'.status = Written(r).status /\ db'.current_step = view[r].current_step
  BY <1>1, LoadedRows, LoadedIsCommitted DEF LoadedCommits
<1>5. Written(r).status = IF pc[r] = "fail" THEN "failed" ELSE "completed"
  BY <1>1 DEF Written, RowValues
<1>6. pc[r] = "finish" => view[r].current_step = N
  <2>1. pc[r] = "finish" => Incomplete(view[r]) = {} /\ Climbed(view[r])
    BY DEF InTurn, TurnInv, SessionInTurn, ClimbedAt, AllLoaded, Loop
  <2>. QED
    BY <1>1, <2>1, ClimbedToTheTop
<1>. QED
  BY <1>1, <1>3, <1>4, <1>5, <1>6, EndsInTurn

\* one that comes to a gate,
LEMMA GateInTurn ==
  ASSUME InTurn, db' \in RowValues, NEW r \in Requests, Gate(r)
  PROVE  CommittedInTurn'
<1>. DEFINE t == Current(r)
<1>1. /\ TypeOK /\ view[r] \in RowValues /\ Persist(r) /\ pc[r] = "gate"
      /\ ap[t] = "none" /\ ap' = [ap EXCEPT ![t] = "pending"]
      /\ CanMove(view[r].status, "waiting_for_approval")
      /\ Incomplete(view[r]) # {} /\ Climbed(view[r]) /\ AskedUpTo
  BY DEF InTurn, Before, IInv, TypeOK, GateInv, HasItsStep, AtStep, Gate, TurnInv,
         SessionInTurn, ClimbedAt, AllLoaded, Loop, CommittedInTurn
<1>2. view[r].status = "running"
  BY <1>1, MovesFrom DEF RowValues
<1>3. \A s \in Steps : ap[s] # "pending"
  BY <1>1, <1>2, RunsFromRunning, NonePending
<1>4. /\ Climbed(db') /\ db.current_step <= db'.current_step
      /\ db'.status = Written(r).status /\ db'.current_step = view[r].current_step
  BY <1>1, LoadedRows, LoadedIsCommitted DEF LoadedCommits
<1>5. Written(r).status = "waiting_for_approval"
  BY <1>1 DEF Written, RowValues
<1>6. t = db'.current_step + 1 /\ t \in Steps
  BY <1>1, <1>4, CurrentIsNext DEF Current
<1>7. db.current_step \in Nat /\ db'.current_step \in Nat /\ \A s \in Steps : s \in Nat
  BY <1>1 DEF TypeOK, RowValues, Steps
<1>. HIDE DEF t
<1>8. \A s \in Steps : ap'[s] = IF s = t THEN "pending" ELSE ap[s]
  BY <1>1, <1>6 DEF TypeOK
<1>9. AskedUpTo'
  BY <1>1, <1>4, <1>6, <1>7, <1>8 DEF AskedUpTo
<1>10. PendingWhileWaiting'
  BY <1>3, <1>4, <1>5, <1>6, <1>7, <1>8 DEF PendingWhileWaiting
<1>. QED
  BY <1>4, <1>5, <1>9, <1>10 DEF CommittedInTurn, PendingIsNew

\* a cancellation,
LEMMA CancelInTurn ==
  ASSUME InTurn, db' \in RowValues, NEW r \in Requests, CancelCommit(r)
  PROVE  CommittedInTurn'
<1>1. /\ Persist(r) /\ pc[r] = "cancel_commit" /\ Session(r) /\ FoundAll(r)
      /\ HoldsTheWorkflow(r)
      /\ \A s \in Steps : ap'[s] = IF s \in pend[r] THEN "cancelled" ELSE ap[s]
  BY DEF CancelCommit, InTurn, Before, OrderInv, IInv, GateInv
<1>2. db'.status = "cancelled"
  <2>1. Written(r) = view[r]
    BY <1>1 DEF Written
  <2>. QED
    BY <1>1, <2>1, LoadedRows DEF LoadedCommits, Session, Cancelling
<1>3. /\ Climbed(db') /\ db.current_step <= db'.current_step
  BY <1>1, LoadedIsCommitted DEF LoadedCommits
<1>4. \A s \in Steps : ap'[s] # "pending"
  BY <1>1 DEF FoundAll
<1>5. \A s \in Steps : ap'[s] # "none" => ap[s] # "none"
  BY <1>1 DEF HoldsTheWorkflow
<1>. QED
  BY <1>2, <1>3, <1>4, <1>5, EndsInTurn

\* a decision,
LEMMA DecisionInTurn ==
  ASSUME InTurn, db' \in RowValues, NEW r \in Requests, ApproveCommit(r) \/ RejectCommit(r)
  PROVE  CommittedInTurn'
<1>. DEFINE t == tgt[r]
<1>1. /\ TypeOK /\ view[r] \in RowValues /\ Persist(r)
      /\ pc[r] \in {"approve_commit", "reject_commit"}
      /\ t \in Steps /\ ap[t] = "pending" /\ AskedInOrder
      /\ ap' = [ap EXCEPT ![t] = IF pc[r] = "approve_commit" THEN "approved" ELSE "rejected"]
  BY DEF ApproveCommit, RejectCommit, InTurn, Before, OrderInv, IInv, TypeOK, GateInv,
         HasItsStep, HoldsItsApproval, Deciding
<1>2. Written(r).status \in {"running", "cancelled"}
  BY <1>1 DEF Written, RowValues
<1>3. /\ Climbed(db') /\ db.current_step <= db'.current_step
      /\ db'.status \in {"running", "cancelled"}
  BY <1>1, <1>2, LoadedRows, LoadedIsCommitted DEF LoadedCommits
<1>. HIDE DEF t
<1>4. \A s \in Steps : IF s = t THEN ap'[s] \in {"approved", "rejected"} ELSE ap'[s] = ap[s]
  BY <1>1 DEF TypeOK
<1>5. \A s \in Steps : ap'[s] # "pending"
  BY <1>1, <1>4, OnePending
<1>6. \A s \in Steps : ap'[s] # "none" => ap[s] # "none"
  BY <1>1, <1>4
<1>. QED
  BY <1>3, <1>5, <1>6, EndsInTurn

\* the start of a resumption,
LEMMA ResumeInTurn ==
  ASSUME InTurn, db' \in RowValues, NEW r \in Requests, ResumeStart(r)
  PROVE  CommittedInTurn'
<1>1. /\ view[r] \in RowValues /\ db \in RowValues
      /\ Persist(r) /\ ap' = ap /\ pc[r] = "resume_start" /\ Sync(r)
      /\ dirty[r] = {} /\ WorkflowRow \in known[r] /\ view[r].status = "pending"
  <2>1. Persist(r) /\ ap' = ap /\ pc[r] = "resume_start"
    BY DEF ResumeStart
  <2>2. /\ Session(r) /\ Sync(r) /\ KnownAt(r) /\ StatusAt(r)
        /\ view[r] \in RowValues /\ db \in RowValues
    BY DEF InTurn, Before, OrderInv, IInv, TypeOK, TurnInv, SessionInTurn
  <2>. QED
    BY <2>1, <2>2 DEF Session, Writing, AtStep, Cancelling, KnownAt, StatusAt
<1>2. Written(r) = [view[r] EXCEPT !.status = "running"]
  BY <1>1 DEF Written
<1>3. /\ Written(r).status = "running"
      /\ Written(r).current_step = view[r].current_step
      /\ \A s \in Steps : Written(r).step_status[s] = view[r].step_status[s]
  BY <1>1, <1>2 DEF RowValues
<1>4. /\ db'.status = "running" /\ db'.current_step = db.current_step
      /\ \A s \in Steps : db'.step_status[s] = db.step_status[s]
      /\ db.status = "pending"
  BY <1>1, <1>3, CommitRows DEF Sync
<1>5. Climbed(db')
  BY <1>4 DEF InTurn, TurnInv, CommittedInTurn, Climbed
<1>6. \A s \in Steps : ap[s] # "pending"
  BY <1>4, NonePending
<1>. QED
  BY <1>1, <1>4, <1>5, <1>6, EndsInTurn DEF RowValues

\* and the commit of an execution: the step is the next one,
LEMMA CallCommits ==
  ASSUME InTurn, NEW r \in Requests, CallSave(r) \/ CallFail(r)
  PROVE  LET c == db.current_step
         IN  /\ tgt[r] = c + 1 /\ c + 1 \in Steps /\ db.status = "running" /\ ap' = ap
             /\ \A s \in Steps \ {c + 1} : db'.step_status[s] = db.step_status[s]
             /\ CallSave(r) => /\ db'.status = "running" /\ db'.current_step = c + 1
                               /\ db'.step_status[c + 1] = "completed"
             /\ CallFail(r) => /\ db'.status = "failed" /\ db'.current_step = c
                               /\ db'.step_status[c + 1] = "failed"
<1>. DEFINE t == tgt[r]
            c == db.current_step
<1>1. /\ view[r] \in RowValues /\ db \in RowValues /\ Persist(r) /\ ap' = ap
      /\ pc[r] \in Called /\ Sync(r) /\ KnownAt(r) /\ Session(r) /\ Acts(r) /\ HasItsStep(r)
  BY DEF CallSave, CallFail, Called, InTurn, Before, OrderInv, IInv, TypeOK, GateInv,
         RecordInv, TurnInv, SessionInTurn
<1>2. /\ dirty[r] = {} /\ WorkflowRow \in known[r] /\ t \in known[r]
      /\ t \in Steps /\ t # 0 /\ ap[t] = "approved" /\ db.step_status[t] # "completed"
      /\ view[r].status = "running"
  BY <1>1 DEF Session, Writing, AtStep, Cancelling, Called, KnownAt, HasItsStep, Acts, Steps
<1>3. Climbed(db) /\ AskedUpTo /\ c \in Nat
  BY <1>1 DEF InTurn, TurnInv, CommittedInTurn, RowValues
<1>4. t = c + 1
  <2>1. ~ (t <= c)
    BY <1>2, <1>3 DEF Climbed
  <2>2. t <= c + 1
    BY <1>2, <1>3 DEF AskedUpTo
  <2>3. t \in Nat
    BY <1>2 DEF Steps
  <2>. QED
    BY <1>3, <2>1, <2>2, <2>3
<1>5. db.status = "running" /\ view[r].current_step = c
  BY <1>1, <1>2 DEF Sync
<1>. HIDE DEF t, c
<1>6. CASE CallSave(r)
  <2>1. pc[r] = "call_save" /\ ~ CallFail(r)
    BY <1>6 DEF CallSave, CallFail
  <2>2. Written(r) = [view[r] EXCEPT !.step_status[t] = "completed", !.current_step = t]
    BY <1>2, <2>1 DEF Written, t
  <2>3. /\ Written(r).status = "running" /\ Written(r).current_step = t
        /\ Written(r).step_status[t] = "completed"
        /\ \A s \in Steps \ {t} : Written(r).step_status[s] = view[r].step_status[s]
    BY <1>1, <1>2, <2>2 DEF RowValues
  <2>4. /\ db'.status = "running" /\ db'.current_step = t
        /\ db'.step_status[t] = "completed"
        /\ \A s \in Steps \ {t} : db'.step_status[s] = db.step_status[s]
    BY <1>1, <1>2, <2>3, CommitRows
  <2>. QED
    BY <1>1, <1>2, <1>4, <1>5, <2>1, <2>4 DEF t, c
<1>7. CASE CallFail(r)
  <2>1. pc[r] = "call_fail" /\ ~ CallSave(r)
    BY <1>7 DEF CallSave, CallFail
  <2>2. Written(r) = [view[r] EXCEPT !.step_status[t] = "failed", !.status = "failed"]
    BY <1>2, <2>1 DEF Written, t
  <2>3. /\ Written(r).status = "failed" /\ Written(r).current_step = view[r].current_step
        /\ Written(r).step_status[t] = "failed"
        /\ \A s \in Steps \ {t} : Written(r).step_status[s] = view[r].step_status[s]
    BY <1>1, <1>2, <2>2 DEF RowValues
  <2>4. /\ db'.status = "failed" /\ db'.current_step = c
        /\ db'.step_status[t] = "failed"
        /\ \A s \in Steps \ {t} : db'.step_status[s] = db.step_status[s]
    BY <1>1, <1>2, <1>5, <2>3, CommitRows
  <2>. QED
    BY <1>1, <1>2, <1>4, <1>5, <2>1, <2>4 DEF t, c
<1>. QED
  BY <1>6, <1>7

\* which is completed or failed with it.
LEMMA CallInTurn ==
  ASSUME InTurn, db' \in RowValues, NEW r \in Requests, CallSave(r) \/ CallFail(r)
  PROVE  CommittedInTurn'
<1>. DEFINE c == db.current_step
<1>1. Climbed(db) /\ c \in Nat
  BY DEF InTurn, Before, IInv, TypeOK, RowValues, TurnInv, CommittedInTurn
<1>2. /\ db.status = "running" /\ c + 1 \in Steps /\ ap' = ap
      /\ \A s \in Steps \ {c + 1} : db'.step_status[s] = db.step_status[s]
      /\ \/ db'.status = "running" /\ db'.current_step = c + 1
              /\ db'.step_status[c + 1] = "completed"
         \/ db'.status = "failed" /\ db'.current_step = c
              /\ db'.step_status[c + 1] = "failed"
  BY CallCommits
<1>3. \A s \in Steps : ap'[s] # "pending"
  BY <1>2, NonePending
<1>4. \A s \in Steps : s \in Nat /\ (db.step_status[s] = "completed" <=> s <= c)
  BY <1>1 DEF Climbed, Steps
<1>5. Climbed(db') /\ c <= db'.current_step
  <2>. HIDE DEF c
  <2>1. CASE /\ db'.current_step = c + 1 /\ db'.step_status[c + 1] = "completed"
    BY <1>1, <1>2, <1>4, <2>1 DEF Climbed
  <2>2. CASE /\ db'.current_step = c /\ db'.step_status[c + 1] = "failed"
    BY <1>1, <1>2, <1>4, <2>2 DEF Climbed
  <2>. QED
    BY <1>2, <2>1, <2>2
<1>. QED
  BY <1>2, <1>3, <1>5, EndsInTurn

\* Every handler step leaves the committed rows in turn.
LEMMA HandleCommitsInTurn ==
  ASSUME InTurn, NEW r \in Requests, Handle(r)
  PROVE  CommittedInTurn'
<1>1. CommittedInTurn /\ TypeOK /\ HasItsStep(r)
  BY DEF InTurn, Before, IInv, GateInv, TurnInv
<1>2. db' \in RowValues
  BY <1>1, HandleType DEF TypeOK
<1>3. CASE Lapses
  BY <1>1, <1>3
     DEF Lapses, CommittedInTurn, Climbed, AskedUpTo, PendingIsNew, PendingWhileWaiting
<1>. QED
  BY <1>2, <1>3, WhatCommits, RunEndsInTurn, GateInTurn, CancelInTurn, DecisionInTurn,
     ResumeInTurn, CallInTurn DEF InTurn, Before

-----------------------------------------------------------------------------
(* The invariant is inductive.                                             *)

\* The request that takes a step is the only one there is.
LEMMA HandleKeepsTurn ==
  ASSUME OneAtATime, InTurn, NEW r \in Requests, Handle(r)
  PROVE  TurnInv'
<1>1. SessionInTurn(r)'
  BY SyncKept, KnownKept, StatusKept, ClimbedKept DEF SessionInTurn
<1>2. \A q \in Requests : q = r
  BY DEF OneAtATime
<1>. QED
  BY <1>1, <1>2, HandleCommitsInTurn DEF TurnInv

\* A request that arrives, or a session that is lost, knows nothing.
LEMMA IdleKeepsTurn ==
  ASSUME OneAtATime, InTurn, NEW r \in Requests, UNCHANGED <<db, ap>>,
         Leave(r) \/ Post(r)
  PROVE  TurnInv'
<1>. USE DEF AllLoaded, Loop, AtStep, Called
<1>1. /\ TypeOK /\ Session(r) /\ SessionInTurn(r) /\ CommittedInTurn
      /\ \A q \in Requests : q = r
  BY DEF InTurn, Before, IInv, OrderInv, TurnInv, OneAtATime
<1>2. CommittedInTurn'
  BY <1>1 DEF CommittedInTurn, Climbed, AskedUpTo, PendingIsNew, PendingWhileWaiting
<1>3. CASE Leave(r)
  <2>1. Sync(r)' /\ pc'[r] = "idle" /\ dirty'[r] = {}
    BY <1>1, <1>3, LeaveSync DEF Leave, Goto, TypeOK
  <2>2. KnownAt(r)' /\ StatusAt(r)' /\ ClimbedAt(r)'
    BY <2>1 DEF KnownAt, StatusAt, ClimbedAt
  <2>. QED
    BY <1>1, <1>2, <2>1, <2>2 DEF TurnInv, SessionInTurn
<1>4. CASE Post(r)
  <2>1. PICK label \in {"run_get", "resume_get", "cancel_lock",
                        "approve_lock", "reject_lock"}, s \in {0} \cup Steps :
          Arrive(r, label, s)
    BY <1>4 DEF Post, PostRun, PostResume, PostCancel, PostApprove, PostReject
  <2>2. /\ pc[r] = "idle" /\ pc'[r] = label
        /\ UNCHANGED <<db, known, view, dirty>>
    BY <1>1, <2>1 DEF Arrive, Goto, TypeOK
  <2>3. dirty'[r] = {}
    BY <1>1, <2>2 DEF Session, Writing, Cancelling
  <2>4. Sync(r)' /\ KnownAt(r)' /\ StatusAt(r)' /\ ClimbedAt(r)'
    BY <1>1, <2>2, <2>3 DEF SessionInTurn, Sync, KnownAt, StatusAt, ClimbedAt
  <2>. QED
    BY <1>1, <1>2, <2>4 DEF TurnInv, SessionInTurn
<1>. QED
  BY <1>3, <1>4

LEMMA TurnInvNext ==
  ASSUME OneAtATime, InTurn, [Next]_vars
  PROVE  TurnInv'
<1>1. ASSUME NEW r \in Requests, Post(r)
      PROVE  TurnInv'
  <2>1. UNCHANGED <<db, ap>>
    BY <1>1 DEF Post, PostRun, PostResume, PostCancel, PostApprove, PostReject, Arrive
  <2>. QED
    BY <1>1, <2>1, IdleKeepsTurn
<1>2. ASSUME NEW r \in Requests, AbortDeadlocked(r) \/ LoseSession(r)
      PROVE  TurnInv'
  BY <1>2, IdleKeepsTurn DEF AbortDeadlocked, LoseSession
<1>3. CASE UNCHANGED <<db, ap, session>>
  BY <1>3
     DEF session, InTurn, TurnInv, CommittedInTurn, Climbed, AskedUpTo, PendingIsNew,
         PendingWhileWaiting, SessionInTurn, Sync, KnownAt, StatusAt, ClimbedAt
<1>4. ASSUME NEW s \in Steps, PassDue(s)
      PROVE  TurnInv'
  BY <1>3, <1>4 DEF PassDue
<1>5. CASE UNCHANGED vars
  BY <1>3, <1>5 DEF vars
<1>. QED
  BY <1>1, <1>2, <1>4, <1>5, HandleKeepsTurn DEF Next, AllAnswered

LEMMA TurnInvInit ==
  ASSUME Init
  PROVE  TurnInv
<1>1. CommittedInTurn
  BY DEF Init, Created, CommittedInTurn, Climbed, AskedUpTo, PendingIsNew,
         PendingWhileWaiting, Steps
<1>2. \A r \in Requests : SessionInTurn(r)
  BY DEF Init, SessionInTurn, Sync, KnownAt, StatusAt, ClimbedAt, AllLoaded, Loop, AtStep,
         Called
<1>. QED
  BY <1>1, <1>2 DEF TurnInv

LEMMA InTurnInit ==
  ASSUME Init
  PROVE  InTurn
BY BeforeInit, RecordInvInit, TurnInvInit DEF InTurn

LEMMA InTurnNext ==
  ASSUME OneAtATime, InTurn, [Next]_vars
  PROVE  InTurn'
BY BeforeNext, RecordInvNext, TurnInvNext DEF InTurn

\* From which status a commit moves the workflow on.
LEMMA StatusMoves ==
  ASSUME InTurn, NEW r \in Requests, Handle(r), db'.status # db.status
  PROVE  \/ db.status \in {"pending", "running"}
         \/ db.status = "waiting_for_approval" /\ \E s \in Steps : ap[s] = "pending"
         \/ db.status = "waiting_for_approval" /\ db'.status = "cancelled"
<1>1. /\ TypeOK /\ view[r] \in RowValues /\ db.status \in WorkflowStatus
      /\ HasItsStep(r) /\ HoldsItsApproval(r)
      /\ Session(r) /\ Sync(r) /\ KnownAt(r) /\ StatusAt(r)
  BY DEF InTurn, Before, IInv, TypeOK, RowValues, GateInv, OrderInv, TurnInv, SessionInTurn
<1>2. CASE FailStep(r) \/ Gate(r) \/ Finish(r)
  <2>1. pc[r] \in {"fail", "gate", "finish"} /\ view[r].status = "running"
    BY <1>1, <1>2, MovesFrom DEF FailStep, Gate, Finish, RowValues
  <2>. QED
    BY <2>1, RunsFromRunning
<1>3. CASE ApproveCommit(r) \/ RejectCommit(r)
  <2>1. tgt[r] \in Steps /\ ap[tgt[r]] = "pending"
    BY <1>1, <1>3 DEF ApproveCommit, RejectCommit, HasItsStep, HoldsItsApproval, Deciding
  <2>. QED
    BY <2>1, PendingIsNext
<1>4. CASE ResumeStart(r)
  BY <1>1, <1>4
     DEF ResumeStart, Sync, KnownAt, StatusAt, Session, Writing, AtStep, Cancelling
<1>5. CASE CallSave(r) \/ CallFail(r)
  BY <1>1, <1>5
     DEF CallSave, CallFail, Called, Sync, KnownAt, Session, Writing, AtStep, Cancelling,
         StatusColumn
<1>6. CASE CancelCommit(r)
  <2>1. pc[r] = "cancel_commit" /\ Persist(r) /\ CanMove(db.status, "cancelled")
    BY <1>1, <1>6 DEF CancelCommit, StatusAt, Session, Cancelling, StatusColumn
  <2>2. db'.status = "cancelled"
    <3>1. Written(r) = view[r]
      BY <2>1 DEF Written
    <3>. QED
      BY <1>1, <2>1, <3>1, LoadedRows DEF LoadedCommits, Session, Cancelling
  <2>3. db.status \in {"pending", "running", "waiting_for_approval"}
    BY <1>1, <2>1 DEF CanMove, Transitions, WorkflowStatus
  <2>. QED
    BY <2>2, <2>3
<1>. QED
  BY <1>2, <1>3, <1>4, <1>5, <1>6, WhatCommits DEF Lapses, InTurn, Before

\* The same for every step of the specification.
LEMMA NextMoves ==
  ASSUME InTurn, [Next]_vars, db'.status # db.status
  PROVE  \/ db.status \in {"pending", "running"}
         \/ db.status = "waiting_for_approval" /\ \E s \in Steps : ap[s] = "pending"
         \/ db.status = "waiting_for_approval" /\ db'.status = "cancelled"
<1>1. PICK r \in Requests : Handle(r)
  BY DEF Next, Post, PostRun, PostResume, PostCancel, PostApprove, PostReject, Arrive,
         AbortDeadlocked, LoseSession, PassDue, AllAnswered, vars
<1>. QED
  BY <1>1, StatusMoves

-----------------------------------------------------------------------------
(* Theorems about requests that come one at a time, with and without lost  *)
(* sessions, for any number of steps and of requests.                      *)

\* However a run ends, is lost, is resumed, is approved or fails, the completed
\* steps are the first current_step ones: no request reads, flushes and commits
\* the position and the steps apart.
THEOREM ProgressStaysRecorded ==
  ASSUME OneAtATime
  PROVE  Spec => []ProgressIsRecorded
<1>1. Init => InTurn
  BY InTurnInit
<1>2. InTurn /\ [Next]_vars => InTurn'
  BY InTurnNext
<1>3. InTurn => ProgressIsRecorded
  <2>. SUFFICES ASSUME InTurn
                PROVE  ProgressIsRecorded
    OBVIOUS
  <2>1. /\ Climbed(db) /\ db.current_step \in 0..N
        /\ db.status = "completed" => db.current_step = N
    BY DEF InTurn, Before, IInv, TypeOK, RowValues, TurnInv, CommittedInTurn
  <2>2. {s \in Steps : db.step_status[s] = "completed"} = 1..db.current_step
    BY <2>1 DEF Climbed, Steps
  <2>. QED
    BY <2>1, <2>2 DEF ProgressIsRecorded
<1>. QED
  BY <1>1, <1>2, <1>3, PTL DEF Spec

\* An approval waits to be given only together with its workflow, at the step
\* that is next: none outlives a failure, a rejection or a cancellation.
THEOREM PendingOnlyWhileWaiting ==
  ASSUME OneAtATime
  PROVE  Spec => []PendingWhileWaiting
<1>1. Init => InTurn
  BY InTurnInit
<1>2. InTurn /\ [Next]_vars => InTurn'
  BY InTurnNext
<1>3. InTurn => PendingWhileWaiting
  BY DEF InTurn, TurnInv, CommittedInTurn
<1>. QED
  BY <1>1, <1>2, <1>3, PTL DEF Spec

\* A workflow that has ended stays as it ended: whoever commits a status has
\* read one that may still change.
THEOREM EndedStaysEnded ==
  ASSUME OneAtATime
  PROVE  Spec => TerminalIsFinal
<1>1. Init => InTurn
  BY InTurnInit
<1>2. InTurn /\ [Next]_vars => InTurn'
  BY InTurnNext
<1>3. InTurn /\ [Next]_vars =>
        [db.status \in Terminal => db'.status = db.status]_vars
  BY NextMoves DEF Terminal
<1>. QED
  BY <1>1, <1>2, <1>3, PTL DEF Spec, TerminalIsFinal

\* Once the approval has lapsed nothing but a cancellation moves a waiting
\* workflow: no run, resumption or second decision asks again.
THEOREM LapsedIsOnlyCancelled ==
  ASSUME OneAtATime
  PROVE  Spec => LapsedOnlyCancels
<1>1. Init => InTurn
  BY InTurnInit
<1>2. InTurn /\ [Next]_vars => InTurn'
  BY InTurnNext
<1>3. InTurn /\ [Next]_vars =>
        [/\ db.status = "waiting_for_approval"
         /\ \A s \in Steps : ap[s] # "pending"
         => db'.status \in {"waiting_for_approval", "cancelled"}]_vars
  BY NextMoves
<1>. QED
  BY <1>1, <1>2, <1>3, PTL DEF Spec, LapsedOnlyCancels

\* What adds to the histories.
LEMMA HistoryMoves ==
  ASSUME NEW r \in Requests, Handle(r)
  PROVE  /\ Call(r) \/ calls' = calls
         /\ ExecSucceeds(r) \/ ExecFails(r) \/ tries' = tries
<1>. USE DEF history
<1>1. RunStep(r) => calls' = calls /\ (ExecSucceeds(r) \/ ExecFails(r) \/ tries' = tries)
  BY DEF RunStep, RunGet, RunStart, RunSteps, StepStart, ExecSucceeds, ExecFails,
         ExecRaises, Retry, SaveStep, FailStep, Gate, GateTaken, Finish, Refuse
<1>2. ResumeStep(r) => UNCHANGED history
  BY DEF ResumeStep, ResumeGet, ResumeStart, ResumeEvent
<1>3. CancelStep(r) => UNCHANGED history
  BY DEF CancelStep, CancelLock, CancelSteps, CancelApprovals, CancelCommit
<1>4. ApproveStep(r) => UNCHANGED history
  BY DEF ApproveStep, ApproveLock, ApproveGet, ApproveSteps, ApproveCommit
<1>5. CallStep(r) => (Call(r) /\ tries' = tries) \/ UNCHANGED history
  BY DEF CallStep, CallGet, CallSteps, Call, CallDenied, CallSave, CallFail
<1>6. RejectStep(r) => UNCHANGED history
  BY DEF RejectStep, RejectLock, RejectGet, RejectSteps, RejectCommit
<1>. QED
  BY <1>1, <1>2, <1>3, <1>4, <1>5, <1>6 DEF Handle

\* The connector is called for what the database says at that moment, not only
\* for what the session's copies of the workflow and the step say.
THEOREM ActsOnCommitted ==
  ASSUME OneAtATime
  PROVE  Spec => ActsOnCommittedState
<1>1. Init => InTurn
  BY InTurnInit
<1>2. InTurn /\ [Next]_vars => InTurn'
  BY InTurnNext
<1>3. ASSUME InTurn, Next, NEW s \in Steps, calls'[s] # calls[s]
      PROVE  db.status = "running" /\ db.step_status[s] = "approved"
  <2>1. PICK r \in Requests : Call(r)
    <3>1. \A r \in Requests : Handle(r) => Call(r) \/ calls' = calls
      BY HistoryMoves
    <3>. QED
      BY <1>3, <3>1
         DEF Next, Post, PostRun, PostResume, PostCancel, PostApprove, PostReject, Arrive,
             AbortDeadlocked, LoseSession, PassDue, AllAnswered, vars, history
  <2>2. /\ TypeOK /\ Session(r) /\ Sync(r) /\ KnownAt(r) /\ HasItsStep(r)
        /\ Authorized(r) /\ pc[r] = "call"
    BY <1>3, <2>1
       DEF Call, InTurn, Before, IInv, OrderInv, GateInv, TurnInv, SessionInTurn
  <2>3. /\ dirty[r] = {} /\ WorkflowRow \in known[r] /\ tgt[r] \in known[r]
        /\ tgt[r] \in Steps
    BY <2>2 DEF Session, Writing, AtStep, Cancelling, KnownAt, HasItsStep, Calling
  <2>4. tgt[r] = s
    BY <1>3, <2>1, <2>2 DEF Call, TypeOK
  <2>. QED
    BY <2>2, <2>3, <2>4 DEF Authorized, Sync
<1>4. InTurn /\ [Next]_vars =>
        [\A s \in Steps : calls'[s] # calls[s] =>
           db.status = "running" /\ db.step_status[s] = "approved"]_vars
  BY <1>3
<1>. QED
  BY <1>1, <1>2, <1>4, PTL DEF Spec, ActsOnCommittedState

-----------------------------------------------------------------------------
(* A running workflow can go on.                                           *)

\* A workflow is left running in the middle of a request only: the one that was
\* approved is executed, the one whose last step is completed is finished; a
\* session that is lost in between leaves the approval given, and is remembered.
GoesOn ==
  db.status = "running" =>
    /\ db.current_step < N /\ ap[db.current_step + 1] # "none" =>
         \/ \E r \in Requests : pc[r] \in Calling \cup Called
         \/ ap[db.current_step + 1] = "approved" /\ db.current_step + 1 \in lost
    /\ db.current_step = N =>
         \/ \E r \in Requests : pc[r] \in {"run_get", "run_steps", "finish"}
         \/ lost # {}

\* The statements of execute_approved are followed by one another.
LEMMA CallStepAt ==
  ASSUME NEW r \in Requests, Handle(r), pc[r] \in Calling \cup Called
  PROVE  CallStep(r)
<1>. USE DEF Calling, Called
<1>1. ~ RunStep(r)
  BY DEF RunStep, RunGet, RunStart, RunSteps, StepStart, ExecSucceeds, ExecFails,
         ExecRaises, Retry, SaveStep, FailStep, Gate, GateTaken, Finish, Refuse
<1>2. ~ ResumeStep(r) /\ ~ CancelStep(r)
  BY DEF ResumeStep, ResumeGet, ResumeStart, ResumeEvent,
         CancelStep, CancelLock, CancelSteps, CancelApprovals, CancelCommit
<1>3. ~ ApproveStep(r) /\ ~ RejectStep(r)
  BY DEF ApproveStep, ApproveLock, ApproveGet, ApproveSteps, ApproveCommit,
         RejectStep, RejectLock, RejectGet, RejectSteps, RejectCommit
<1>. QED
  BY <1>1, <1>2, <1>3 DEF Handle

\* So are those of run.
LEMMA RunStepAt ==
  ASSUME NEW r \in Requests, Handle(r),
         pc[r] \in {"run_get", "run_start", "run_steps"} \cup Loop
  PROVE  RunStep(r)
<1>. USE DEF Loop, AtStep
<1>1. ~ ResumeStep(r) /\ ~ CancelStep(r)
  BY DEF ResumeStep, ResumeGet, ResumeStart, ResumeEvent,
         CancelStep, CancelLock, CancelSteps, CancelApprovals, CancelCommit
<1>2. ~ ApproveStep(r) /\ ~ RejectStep(r) /\ ~ CallStep(r)
  BY DEF ApproveStep, ApproveLock, ApproveGet, ApproveSteps, ApproveCommit,
         RejectStep, RejectLock, RejectGet, RejectSteps, RejectCommit,
         CallStep, CallGet, CallSteps, Call, CallDenied, CallSave, CallFail
<1>. QED
  BY <1>1, <1>2 DEF Handle

\* An approved action is executed by the request that approved it.
LEMMA CallGoesOn ==
  ASSUME InTurn, NEW r \in Requests, Handle(r), pc[r] \in Calling, db.status = "running"
  PROVE  pc'[r] \in Calling \cup Called
<1>1. CallStep(r) /\ Acts(r) /\ TypeOK
  BY CallStepAt DEF InTurn, RecordInv, Before, IInv
<1>2. db.step_status[tgt[r]] # "completed"
  BY <1>1 DEF Acts
<1>. QED
  BY <1>1, <1>2
     DEF CallStep, CallGet, CallSteps, Call, CallDenied, CallSave, CallFail, Goto, TypeOK,
         Calling, Called

\* A workflow whose last step is completed is finished by the request that
\* completed it.
LEMMA RunGoesOn ==
  ASSUME InTurn, NEW r \in Requests, Handle(r), pc[r] \in {"run_get", "run_steps", "finish"},
         db.status = "running", db.current_step = N
  PROVE  pc'[r] \in {"run_steps", "finish"} \/ db'.status = "completed"
<1>1. /\ TypeOK /\ Session(r) /\ Sync(r) /\ StatusAt(r) /\ ClimbedAt(r)
      /\ view[r] \in RowValues /\ RunStep(r)
  BY RunStepAt
     DEF InTurn, Before, IInv, TypeOK, OrderInv, TurnInv, SessionInTurn, Loop
<1>2. CASE pc[r] = "run_get"
  <2>1. RunGet(r)
    BY <1>1, <1>2
       DEF RunStep, RunGet, RunStart, RunSteps, StepStart, ExecSucceeds, ExecFails,
           ExecRaises, Retry, SaveStep, FailStep, Gate, GateTaken, Finish, Refuse
  <2>2. dirty[r] = {} /\ StatusColumn \in Columns
    BY <1>1, <1>2 DEF Session, Writing, AtStep, Cancelling, Columns, StatusColumn
  <2>3. Loaded(r, {WorkflowRow}).status = "running"
    BY <1>1, <2>2 DEF Loaded, Overwrite, Sync, StatusColumn
  <2>. QED
    BY <1>1, <2>1, <2>3 DEF RunGet, Goto, TypeOK, Terminal
<1>3. CASE pc[r] = "run_steps"
  <2>1. /\ Read(r, Steps) /\ view'[r] = Loaded(r, Steps) /\ pc'[r] = Advance(view'[r])
    BY <1>1, <1>3
       DEF RunStep, RunGet, RunStart, RunSteps, StepStart, ExecSucceeds, ExecFails,
           ExecRaises, Retry, SaveStep, FailStep, Gate, GateTaken, Finish, Refuse,
           Read, Goto, TypeOK
  <2>2. Climbed(view'[r]) /\ view'[r].current_step = N
    BY <1>3, <2>1, LoadedIsClimbed
  <2>3. Incomplete(view'[r]) = {}
    BY <2>2 DEF Incomplete, Climbed, Steps
  <2>. QED
    BY <2>1, <2>3 DEF Advance
<1>4. CASE pc[r] = "finish"
  <2>1. view[r].status = "running"
    BY <1>1, <1>4 DEF StatusAt, ClimbedAt, Loop
  <2>2. CanMove(view[r].status, "completed")
    BY <2>1 DEF CanMove, Transitions
  <2>3. Persist(r)
    BY <1>1, <1>4, <2>2
       DEF RunStep, RunGet, RunStart, RunSteps, StepStart, ExecSucceeds, ExecFails,
           ExecRaises, Retry, SaveStep, FailStep, Gate, GateTaken, Finish, Refuse
  <2>4. Written(r).status = "completed"
    BY <1>1, <1>4 DEF Written, RowValues
  <2>. QED
    BY <1>4, <2>3, <2>4, LoadedRows DEF LoadedCommits
<1>. QED
  BY <1>2, <1>3, <1>4

\* What a commit leaves running it leaves to be gone on with.
LEMMA CommitGoesOn ==
  ASSUME InTurn, NEW r \in Requests, Handle(r), ~ Lapses
  PROVE  GoesOn'
<1>1. /\ TypeOK /\ view[r] \in RowValues /\ db \in RowValues /\ Session(r) /\ Sync(r)
      /\ KnownAt(r) /\ StatusAt(r) /\ HasItsStep(r) /\ HoldsItsApproval(r)
      /\ AskedUpTo /\ PendingIsNew
  BY DEF InTurn, Before, IInv, TypeOK, OrderInv, GateInv, TurnInv, CommittedInTurn,
         SessionInTurn
<1>2. CASE FailStep(r) \/ Gate(r) \/ Finish(r) \/ RejectCommit(r)
  <2>1. /\ pc[r] \in {"fail", "gate", "finish", "reject_commit"} /\ Persist(r)
    BY <1>2 DEF FailStep, Gate, Finish, RejectCommit
  <2>2. Written(r).status # "running"
    BY <1>1, <2>1 DEF Written, RowValues
  <2>. QED
    BY <2>1, <2>2, LoadedRows DEF LoadedCommits, GoesOn
<1>3. CASE CancelCommit(r)
  <2>1. pc[r] = "cancel_commit" /\ Persist(r) /\ Written(r) = view[r]
    BY <1>3 DEF CancelCommit, Written
  <2>2. db'.status # "running"
    BY <1>1, <2>1, LoadedRows DEF LoadedCommits, Session, Cancelling
  <2>. QED
    BY <2>2 DEF GoesOn
<1>4. CASE ResumeStart(r)
  <2>1. /\ Persist(r) /\ ap' = ap /\ pc[r] = "resume_start" /\ WorkflowRow \in known[r]
        /\ dirty[r] = {} /\ view[r].status = "pending"
    BY <1>1, <1>4 DEF ResumeStart, Session, Writing, AtStep, Cancelling, KnownAt, StatusAt
  <2>2. Written(r).current_step = view[r].current_step
    BY <1>1, <2>1 DEF Written, RowValues
  <2>3. db.status = "pending" /\ db'.current_step = db.current_step
    BY <1>1, <2>1, <2>2, CommitRows DEF Sync
  <2>4. db'.current_step = 0 /\ 0 + 1 \in Steps /\ N # 0
    BY <1>1, <2>3 DEF PendingIsNew, Steps
  <2>5. ap'[db'.current_step + 1] = "none"
    BY <1>1, <2>1, <2>3, <2>4 DEF PendingIsNew
  <2>. QED
    BY <2>4, <2>5 DEF GoesOn
<1>5. CASE ApproveCommit(r)
  <2>1. /\ Persist(r) /\ pc[r] = "approve_commit" /\ tgt[r] \in Steps
        /\ pc'[r] = "call_get"
    BY <1>1, <1>5
       DEF ApproveCommit, Continue, Goto, TypeOK, HasItsStep, Deciding
  <2>2. Written(r).step_status[tgt[r]] = "approved"
    <3>1. tgt[r] # 0
      BY <2>1 DEF Steps
    <3>2. Written(r) = [view[r] EXCEPT !.step_status[tgt[r]] = "approved",
                                       !.status = "running"]
      BY <2>1, <3>1 DEF Written
    <3>. QED
      BY <1>1, <2>1, <3>2 DEF RowValues
  <2>3. db'.step_status[tgt[r]] = "approved" /\ Climbed(db')
    BY <2>1, <2>2, LoadedRows, LoadedIsCommitted DEF LoadedCommits
  <2>4. db'.current_step \in 0..N
    BY <1>1, HandleType DEF TypeOK, RowValues
  <2>5. db'.current_step # N
    BY <2>1, <2>3, <2>4 DEF Climbed, Steps
  <2>. QED
    BY <2>1, <2>5 DEF GoesOn, Calling
<1>6. CASE CallSave(r)
  <2>1. pc'[r] = "run_get"
    BY <1>1, <1>6 DEF CallSave, Continue, Goto, TypeOK
  <2>2. /\ db'.current_step = db.current_step + 1 /\ ap' = ap /\ db.current_step \in 0..N
    BY <1>1, <1>6, CallCommits DEF RowValues
  <2>3. ASSUME db'.current_step < N, ap'[db'.current_step + 1] # "none"
        PROVE  FALSE
    <3>1. db'.current_step + 1 \in Steps
      BY <2>2, <2>3 DEF Steps
    <3>2. db'.current_step + 1 <= db.current_step + 1
      BY <1>1, <2>2, <2>3, <3>1 DEF AskedUpTo
    <3>. QED
      BY <2>2, <3>2
  <2>. QED
    BY <2>1, <2>3 DEF GoesOn
<1>7. CASE CallFail(r)
  BY <1>7, CallCommits DEF GoesOn
<1>. QED
  BY <1>2, <1>3, <1>4, <1>5, <1>6, <1>7, WhatCommits DEF InTurn, Before

\* No statement of a handler is the loss of a session.
LEMMA HandleLosesNothing ==
  ASSUME NEW r \in Requests, Handle(r)
  PROVE  lost' = lost
<1>1. RunStep(r) => lost' = lost
  BY DEF RunStep, RunGet, RunStart, RunSteps, StepStart, ExecSucceeds, ExecFails,
         ExecRaises, Retry, SaveStep, FailStep, Gate, GateTaken, Finish, Refuse,
         Executed, history
<1>2. ResumeStep(r) \/ CancelStep(r) => lost' = lost
  BY DEF ResumeStep, ResumeGet, ResumeStart, ResumeEvent,
         CancelStep, CancelLock, CancelSteps, CancelApprovals, CancelCommit, history
<1>3. ApproveStep(r) \/ RejectStep(r) => lost' = lost
  BY DEF ApproveStep, ApproveLock, ApproveGet, ApproveSteps, ApproveCommit,
         RejectStep, RejectLock, RejectGet, RejectSteps, RejectCommit, history
<1>4. CallStep(r) => lost' = lost
  BY DEF CallStep, CallGet, CallSteps, Call, CallDenied, CallSave, CallFail, history
<1>. QED
  BY <1>1, <1>2, <1>3, <1>4 DEF Handle

\* And what commits nothing goes on.
LEMMA LapseGoesOn ==
  ASSUME OneAtATime, InTurn, GoesOn, NEW r \in Requests, Handle(r), lost' = lost, Lapses
  PROVE  GoesOn'
<1>. SUFFICES ASSUME db'.status = "running"
              PROVE  /\ db'.current_step < N /\ ap'[db'.current_step + 1] # "none" =>
                          \/ pc'[r] \in Calling \cup Called
                          \/ /\ ap'[db'.current_step + 1] = "approved"
                             /\ db'.current_step + 1 \in lost
                     /\ db'.current_step = N => pc'[r] \in {"run_steps", "finish"} \/ lost # {}
  BY DEF GoesOn
<1>1. /\ db' = db /\ db.status = "running" /\ db.current_step \in 0..N
      /\ \A q \in Requests : q = r
  BY DEF Lapses, OneAtATime, InTurn, Before, IInv, TypeOK, RowValues
<1>2. ASSUME db.current_step < N, ap'[db.current_step + 1] # "none"
      PROVE  \/ pc'[r] \in Calling \cup Called
             \/ ap'[db.current_step + 1] = "approved" /\ db.current_step + 1 \in lost
  <2>1. db.current_step + 1 \in Steps
    BY <1>1, <1>2 DEF Steps
  <2>2. ap'[db.current_step + 1] = ap[db.current_step + 1]
    BY <1>1, <2>1, NonePending DEF Lapses
  <2>3. \/ pc[r] \in Calling \cup Called
        \/ ap[db.current_step + 1] = "approved" /\ db.current_step + 1 \in lost
    BY <1>1, <1>2, <2>2 DEF GoesOn
  <2>4. pc[r] \notin Called
    <3>1. pc[r] \in Called => CallSave(r) \/ CallFail(r)
      BY CallStepAt DEF CallStep, CallGet, CallSteps, Call, CallDenied, Called
    <3>. QED
      BY <1>1, <3>1, CallCommits
  <2>. QED
    BY <1>1, <2>2, <2>3, <2>4, CallGoesOn
<1>3. ASSUME db.current_step = N
      PROVE  pc'[r] \in {"run_steps", "finish"} \/ lost # {}
  <2>1. pc[r] \in {"run_get", "run_steps", "finish"} \/ lost # {}
    BY <1>1, <1>3 DEF GoesOn
  <2>. QED
    BY <1>1, <1>3, <2>1, RunGoesOn
<1>. QED
  BY <1>1, <1>2, <1>3

\* Among requests that come one at a time none waits for another.
LEMMA NoneWaits ==
  ASSUME OneAtATime, NEW r \in Requests
  PROVE  ~ Deadlocked(r)
BY DEF OneAtATime, Deadlocked, Blocks

\* A session that is lost on its way to the connector, or from there, leaves
\* the approval of the step that is next.
LEMMA LossGoesOn ==
  ASSUME OneAtATime, InTurn, GoesOn, NEW r \in Requests, LoseSession(r)
  PROVE  GoesOn'
<1>1. UNCHANGED <<db, ap>> /\ lost' = lost \cup {tgt[r]} /\ \A q \in Requests : q = r
  BY DEF LoseSession, OneAtATime
<1>2. ASSUME db.status = "running", db.current_step < N, ap[db.current_step + 1] # "none"
      PROVE  ap[db.current_step + 1] = "approved" /\ db.current_step + 1 \in lost'
  <2>1. CASE pc[r] \in Calling \cup Called
    <3>1. /\ ap[tgt[r]] = "approved" /\ db.step_status[tgt[r]] # "completed"
          /\ tgt[r] \in Steps /\ Climbed(db) /\ AskedUpTo /\ db.current_step \in Nat
      BY <2>1
         DEF InTurn, RecordInv, Acts, Before, IInv, GateInv, HasItsStep, TypeOK, RowValues,
             TurnInv, CommittedInTurn
    <3>2. ~ (tgt[r] <= db.current_step) /\ tgt[r] <= db.current_step + 1
      BY <3>1 DEF Climbed, AskedUpTo
    <3>3. tgt[r] = db.current_step + 1
      BY <3>1, <3>2 DEF Steps
    <3>. QED
      BY <1>1, <3>1, <3>3
  <2>. QED
    BY <1>1, <1>2, <2>1 DEF GoesOn
<1>. QED
  BY <1>1, <1>2 DEF GoesOn

\* A request that arrives finds nobody at work.
LEMMA GoesOnKept ==
  ASSUME OneAtATime, InTurn, GoesOn, [Next]_vars
  PROVE  GoesOn'
<1>1. ASSUME NEW r \in Requests, Handle(r)
      PROVE  GoesOn'
  BY <1>1, HandleLosesNothing, CommitGoesOn, LapseGoesOn
<1>2. ASSUME NEW r \in Requests, Post(r)
      PROVE  GoesOn'
  <2>1. pc[r] = "idle" /\ UNCHANGED <<db, ap, lost>> /\ \A q \in Requests : q = r
    BY <1>2
       DEF Post, PostRun, PostResume, PostCancel, PostApprove, PostReject, Arrive, OneAtATime
  <2>2. pc[r] \notin Calling \cup Called \cup {"run_get", "run_steps", "finish"}
    BY <2>1 DEF Calling, Called
  <2>. QED
    BY <2>1, <2>2 DEF GoesOn
<1>3. ASSUME NEW r \in Requests, AbortDeadlocked(r) \/ LoseSession(r)
      PROVE  GoesOn'
  BY <1>3, NoneWaits, LossGoesOn DEF AbortDeadlocked
<1>4. CASE UNCHANGED <<db, ap, lost, pc>>
  BY <1>4 DEF GoesOn
<1>. QED
  BY <1>1, <1>2, <1>3, <1>4 DEF Next, PassDue, AllAnswered, vars, session, history

\* When nobody works on a running workflow, the step that is next has no
\* approval request on which its gate would fail, and there is such a step:
\* but for the step whose approving session was lost, and the last step, completed
\* when a session was lost.
THEOREM RunningGoesOn ==
  ASSUME OneAtATime
  PROVE  Spec => []RunningCanGoOn
<1>1. Init => InTurn /\ GoesOn
  BY InTurnInit DEF Init, Created, GoesOn
<1>2. InTurn /\ GoesOn /\ [Next]_vars => InTurn' /\ GoesOn'
  BY InTurnNext, GoesOnKept
<1>3. InTurn /\ GoesOn => RunningCanGoOn
  <2>. SUFFICES ASSUME InTurn, GoesOn, \A r \in Requests : pc[r] = "idle",
                       db.status = "running"
                PROVE  IF Incomplete(db) = {} THEN lost # {}
                       ELSE \/ ap[FirstIncomplete(db)] = "none"
                            \/ /\ ap[FirstIncomplete(db)] = "approved"
                               /\ FirstIncomplete(db) \in lost
    BY DEF RunningCanGoOn
  <2>1. db \in RowValues /\ Climbed(db) /\ db.current_step \in 0..N
    BY DEF InTurn, Before, IInv, TypeOK, RowValues, TurnInv, CommittedInTurn
  <2>2. /\ db.current_step = N => lost # {}
        /\ db.current_step < N => \/ ap[db.current_step + 1] = "none"
                                  \/ /\ ap[db.current_step + 1] = "approved"
                                     /\ db.current_step + 1 \in lost
    BY DEF GoesOn, Calling, Called
  <2>3. CASE Incomplete(db) = {}
    <3>1. ~ (db.current_step < N)
      <4>1. db.current_step < N => db.current_step + 1 \in Incomplete(db)
        BY <2>1 DEF Incomplete, Climbed, Steps
      <4>. QED
        BY <2>3, <4>1
    <3>2. db.current_step = N
      BY <2>1, <3>1
    <3>. QED
      BY <2>2, <2>3, <3>2
  <2>4. CASE Incomplete(db) # {}
    <3>1. FirstIncomplete(db) = db.current_step + 1 /\ db.current_step < N
      BY <2>1, <2>4, CurrentIsNext
    <3>. QED
      BY <2>2, <2>4, <3>1
  <2>. QED
    BY <2>3, <2>4
<1>. QED
  BY <1>1, <1>2, <1>3, PTL DEF Spec

-----------------------------------------------------------------------------
(* How often a step is tried.                                              *)

\* A step is tried again only as long as its count leaves a retry.
RetriesLeft(r) ==
  pc[r] = "retry" => view[r].retry_count[Current(r)] < MaxRetries[Current(r)]

CountsKept ==
  /\ \A s \in Steps : db.retry_count[s] <= MaxRetries[s]
  /\ \A r \in Requests : \A s \in Steps : view[r].retry_count[s] <= MaxRetries[s]
  /\ \A r \in Requests : RetriesLeft(r)

\* A request has tried nothing of the steps after the one it works on; that one
\* it has tried once, and once for every retry its copy of the count tells of.
TriedBefore(r) ==
  pc[r] \notin Loop \cup {"idle"} => \A s \in Steps : tries[r][s] = 0

TriedAfter(r) ==
  pc[r] \in AtStep => \A s \in Steps : Current(r) < s => tries[r][s] = 0

TriedHere(r) ==
  /\ pc[r] \in {"step_start", "gate"} => tries[r][Current(r)] = 0
  /\ pc[r] = "exec" => tries[r][Current(r)] <= view[r].retry_count[Current(r)]
  /\ pc[r] = "retry" => tries[r][Current(r)] <= view[r].retry_count[Current(r)] + 1

Tried(r) == TriedBefore(r) /\ TriedAfter(r) /\ TriedHere(r)

TriesInv ==
  /\ CountsKept
  /\ \A r \in Requests : Tried(r)
  /\ \A r \in Requests : \A s \in Steps : tries[r][s] <= MaxRetries[s] + 1

\* Where a session, and the database, have the count of a step from.
LEMMA CountsCopied ==
  ASSUME TypeOK, NEW r \in Requests, Handle(r), NEW s \in Steps
  PROVE  /\ view'[r].retry_count[s] \in
              {0, db.retry_count[s], view[r].retry_count[s], Written(r).retry_count[s]}
         /\ db'.retry_count[s] \in {db.retry_count[s], Written(r).retry_count[s]}
<1>. DEFINE Copied == view'[r].retry_count[s] \in
              {0, db.retry_count[s], view[r].retry_count[s], Written(r).retry_count[s]}
            Stored == db'.retry_count[s] \in {db.retry_count[s], Written(r).retry_count[s]}
<1>1. ASSUME Leave(r)
      PROVE  Copied
  BY <1>1 DEF Leave, TypeOK, Created
<1>2. ASSUME Flush(r)
      PROVE  Copied
  BY <1>2 DEF Flush, TypeOK
<1>3. ASSUME NEW rows
      PROVE  Loaded(r, rows).retry_count[s] \in {db.retry_count[s], view[r].retry_count[s]}
  BY DEF Loaded, Overwrite
<1>4. ASSUME NEW rows, Read(r, rows)
      PROVE  Copied
  <2>1. view'[r] = Loaded(r, rows)
    BY <1>4 DEF Read, TypeOK
  <2>. QED
    BY <1>3, <2>1
<1>5. ASSUME view' = view
      PROVE  Copied
  BY <1>5
<1>6. ASSUME NEW label, NEW step, NEW rows, Continue(r, label, step, rows)
      PROVE  Copied
  BY <1>6 DEF Continue, TypeOK, Overwrite, Created
<1>7. ASSUME CancelLock(r)
      PROVE  Copied
  <2>1. CASE view'[r] = [Loaded(r, {WorkflowRow}) EXCEPT !.status = "cancelled"]
    <3>1. view'[r].retry_count = Loaded(r, {WorkflowRow}).retry_count
      BY <2>1 DEF Loaded, Overwrite
    <3>. QED
      BY <1>3, <3>1
  <2>. QED
    BY <1>1, <1>7, <2>1 DEF CancelLock, TypeOK
<1>8. ASSUME Persist(r)
      PROVE  Stored
  BY <1>8 DEF Persist, Overwrite
<1>9. ASSUME db' = db
      PROVE  Stored
  BY <1>9
<1>. HIDE DEF Copied, Stored
<1>10. ASSUME RunStep(r)
       PROVE  Copied /\ Stored
  BY <1>1, <1>2, <1>4, <1>5, <1>8, <1>9, <1>10
     DEF RunStep, RunGet, RunStart, RunSteps, StepStart, ExecSucceeds, ExecFails,
         ExecRaises, Retry, SaveStep, FailStep, Gate, GateTaken, Finish, Refuse
<1>11. ASSUME ResumeStep(r)
       PROVE  Copied /\ Stored
  BY <1>1, <1>2, <1>4, <1>6, <1>8, <1>9, <1>11
     DEF ResumeStep, ResumeGet, ResumeStart, ResumeEvent
<1>12. ASSUME CancelStep(r)
       PROVE  Copied /\ Stored
  BY <1>1, <1>2, <1>4, <1>7, <1>8, <1>9, <1>12
     DEF CancelStep, CancelLock, CancelSteps, CancelApprovals, CancelCommit
<1>13. ASSUME ApproveStep(r)
       PROVE  Copied /\ Stored
  BY <1>1, <1>4, <1>5, <1>6, <1>8, <1>9, <1>13
     DEF ApproveStep, ApproveLock, ApproveGet, ApproveSteps, ApproveCommit
<1>14. ASSUME CallStep(r)
       PROVE  Copied /\ Stored
  BY <1>1, <1>4, <1>5, <1>6, <1>8, <1>9, <1>14
     DEF CallStep, CallGet, CallSteps, Call, CallDenied, CallSave, CallFail
<1>15. ASSUME RejectStep(r)
       PROVE  Copied /\ Stored
  BY <1>1, <1>4, <1>5, <1>8, <1>9, <1>15
     DEF RejectStep, RejectLock, RejectGet, RejectSteps, RejectCommit
<1>16. Copied /\ Stored
  BY <1>10, <1>11, <1>12, <1>13, <1>14, <1>15 DEF Handle
<1>. QED
  BY <1>16 DEF Copied, Stored

\* A flush or a commit that counts a retry had one left.
LEMMA WrittenCounts ==
  ASSUME Before, CountsKept, NEW r \in Requests, NEW s \in Steps
  PROVE  /\ Written(r).retry_count[s] <= MaxRetries[s]
         /\ pc[r] # "retry" => Written(r).retry_count[s] = view[r].retry_count[s]
         /\ pc[r] = "retry" => Written(r).retry_count[Current(r)]
                                 = view[r].retry_count[Current(r)] + 1
<1>1. /\ view[r] \in RowValues /\ HasItsStep(r) /\ KnowsItsStep(r) /\ RetriesLeft(r)
      /\ view[r].retry_count[s] <= MaxRetries[s]
  BY DEF Before, IInv, TypeOK, GateInv, StepsInv, CountsKept
<1>2. CASE pc[r] = "retry"
  <2>. DEFINE v == view[r]
              t == Current(r)
  <2>1. tgt[r] = 0 /\ t \in Steps
    BY <1>1, <1>2, FirstIncompleteIsStep
       DEF KnowsItsStep, Running, AtStep, HasItsStep, Current
  <2>2. Written(r) = [v EXCEPT !.retry_count[t] = @ + 1]
    BY <1>2, <2>1 DEF Written
  <2>3. v.retry_count[t] < MaxRetries[t]
    BY <1>1, <1>2 DEF RetriesLeft
  <2>4. v.retry_count \in [Steps -> Nat] /\ v.retry_count[s] <= MaxRetries[s]
    BY <1>1 DEF RowValues
  <2>. HIDE DEF v, t
  <2>5. Written(r).retry_count = [v.retry_count EXCEPT ![t] = @ + 1]
    BY <1>1, <2>2 DEF RowValues, v
  <2>6. MaxRetries[s] \in Nat /\ MaxRetries[t] \in Nat /\ v.retry_count[t] \in Nat
    BY <2>1, <2>4
  <2>7. /\ Written(r).retry_count[t] = v.retry_count[t] + 1
        /\ s # t => Written(r).retry_count[s] = v.retry_count[s]
    BY <2>1, <2>4, <2>5
  <2>8. Written(r).retry_count[s] <= MaxRetries[s]
    BY <2>3, <2>4, <2>6, <2>7
  <2>. QED
    BY <1>2, <2>7, <2>8 DEF v, t
<1>3. CASE pc[r] # "retry"
  <2>1. Written(r).retry_count = view[r].retry_count
    BY <1>1, <1>3 DEF Written, RowValues
  <2>. QED
    BY <1>1, <1>3, <2>1
<1>. QED
  BY <1>2, <1>3

\* A request comes to a retry only from a failure that may be tried again.
LEMMA RetriesLeftKept ==
  ASSUME Before, NEW r \in Requests, Handle(r)
  PROVE  RetriesLeft(r)'
<1>. SUFFICES ASSUME pc'[r] = "retry"
              PROVE  view'[r].retry_count[Current(r)'] < MaxRetries[Current(r)']
  BY DEF RetriesLeft
<1>1. /\ TypeOK /\ pc[r] \in Labels /\ pc \in [Requests -> Labels] /\ view[r] \in RowValues
      /\ HasItsStep(r)
  BY DEF Before, IInv, TypeOK, GateInv
<1>2. RunStep(r)
  <2>1. ASSUME NEW label, Goto(r, label)
        PROVE  label = "retry"
    BY <1>1, <2>1 DEF Goto
  <2>2. ~ ResumeStep(r) /\ ~ CancelStep(r)
    BY <2>1
       DEF ResumeStep, ResumeGet, ResumeStart, ResumeEvent, Leave, Continue,
           CancelStep, CancelLock, CancelSteps, CancelApprovals, CancelCommit
  <2>3. ~ ApproveStep(r) /\ ~ RejectStep(r)
    BY <2>1
       DEF ApproveStep, ApproveLock, ApproveGet, ApproveSteps, ApproveCommit,
           RejectStep, RejectLock, RejectGet, RejectSteps, RejectCommit, Leave, Continue
  <2>4. ~ CallStep(r)
    BY <2>1
       DEF CallStep, CallGet, CallSteps, Call, CallDenied, CallSave, CallFail, Leave, Continue
  <2>. QED
    BY <2>2, <2>3, <2>4 DEF Handle
<1>3. ExecFails(r)
  BY <1>1, <1>2
     DEF RunStep, RunGet, RunStart, RunSteps, StepStart, ExecSucceeds, ExecRaises,
         Retry, SaveStep, Advance, FailStep, Gate, GateTaken, Finish, Refuse, Leave, Goto
<1>4. PICK code \in ErrorCodes[TypeOf[Current(r)]] : MayRetry(r, code)
  BY <1>1, <1>3 DEF ExecFails, Goto
<1>5. view'[r] = view[r] /\ Current(r)' = Current(r)
  BY <1>3 DEF ExecFails, Current
<1>. QED
  BY <1>4, <1>5 DEF MayRetry

\* A step changes the counts of the database and of one request only.
LEMMA CountsKeptKept ==
  ASSUME Before, CountsKept, NEW r \in Requests, Handle(r)
  PROVE  CountsKept'
<1>1. TypeOK /\ Untouched(r)
  BY HandleKeepsStep DEF Before, IInv, GateInv
<1>2. ASSUME NEW s \in Steps
      PROVE  db'.retry_count[s] <= MaxRetries[s] /\ view'[r].retry_count[s] <= MaxRetries[s]
  <2>1. /\ db.retry_count[s] <= MaxRetries[s] /\ view[r].retry_count[s] <= MaxRetries[s]
        /\ Written(r).retry_count[s] <= MaxRetries[s] /\ 0 <= MaxRetries[s]
    BY WrittenCounts DEF CountsKept
  <2>. QED
    BY <1>1, <2>1, CountsCopied
<1>3. \A q \in Requests : q # r =>
        RetriesLeft(q)' /\ \A s \in Steps : view'[q].retry_count[s] <= MaxRetries[s]
  BY <1>1 DEF Untouched, CountsKept, RetriesLeft, Current
<1>. QED
  BY <1>2, <1>3, RetriesLeftKept DEF CountsKept

\* A request comes into the loop of `run` by loading the steps.
LEMMA EntersLoop ==
  ASSUME Before, NEW r \in Requests, Handle(r), pc[r] \notin Loop, pc'[r] \in Loop
  PROVE  RunSteps(r)
<1>. USE DEF Loop, AtStep
<1>1. ASSUME NEW label, Goto(r, label)
      PROVE  label \in Loop
  BY <1>1 DEF Goto, Before, IInv, TypeOK
<1>2. ~ ResumeStep(r) /\ ~ CancelStep(r)
  BY <1>1
     DEF ResumeStep, ResumeGet, ResumeStart, ResumeEvent, Leave, Continue,
         CancelStep, CancelLock, CancelSteps, CancelApprovals, CancelCommit
<1>3. ~ ApproveStep(r) /\ ~ RejectStep(r)
  BY <1>1
     DEF ApproveStep, ApproveLock, ApproveGet, ApproveSteps, ApproveCommit,
         RejectStep, RejectLock, RejectGet, RejectSteps, RejectCommit, Leave, Continue
<1>4. ~ CallStep(r)
  BY <1>1
     DEF CallStep, CallGet, CallSteps, Call, CallDenied, CallSave, CallFail, Leave, Continue
<1>5. RunStep(r)
  BY <1>2, <1>3, <1>4 DEF Handle
<1>. QED
  BY <1>1, <1>5
     DEF RunStep, RunGet, RunStart, StepStart, ExecSucceeds, ExecFails, ExecRaises,
         Retry, SaveStep, FailStep, Gate, GateTaken, Finish, Refuse, Leave

\* It leaves the loop by ending.
LEMMA LeavesLoop ==
  ASSUME Before, NEW r \in Requests, Handle(r), pc[r] \in Loop
  PROVE  \/ StepStart(r) \/ ExecSucceeds(r) \/ ExecFails(r) \/ Retry(r) \/ SaveStep(r)
         \/ pc'[r] = "idle" /\ tries' = tries
<1>1. RunStep(r) /\ TypeOK
  BY RunStepAt DEF Before, IInv
<1>2. ASSUME Leave(r)
      PROVE  pc'[r] = "idle"
  BY <1>1, <1>2 DEF Leave, Goto, TypeOK
<1>. QED
  BY <1>1, <1>2
     DEF RunStep, RunGet, RunStart, RunSteps, ExecRaises, FailStep, Gate, GateTaken,
         Finish, Refuse, Loop, AtStep, history

\* In the loop a request works on one step at a time and counts its tries.
LEMMA TriedInLoop ==
  ASSUME Before, TriesInv, NEW r \in Requests,
         StepStart(r) \/ ExecSucceeds(r) \/ ExecFails(r) \/ Retry(r) \/ SaveStep(r)
  PROVE  Tried(r)' /\ \A s \in Steps : tries'[r][s] <= MaxRetries[s] + 1
<1>. DEFINE v == view[r]
            t == Current(r)
            n == tries[r]
<1>. USE DEF AtStep
<1>1. pc[r] \in AtStep
  BY DEF StepStart, ExecSucceeds, ExecFails, Retry, SaveStep
<1>2. /\ TypeOK /\ HasItsStep(r) /\ KnowsItsStep(r) /\ TriedAfter(r) /\ TriedHere(r)
      /\ RetriesLeft(r)
  BY DEF Before, StepsInv, IInv, GateInv, TriesInv, CountsKept, Tried
<1>3. v \in RowValues /\ n \in [Steps -> 0..ExecCap] /\ pc \in [Requests -> Labels]
      /\ view \in [Requests -> RowValues] /\ tries \in [Requests -> [Steps -> 0..ExecCap]]
  BY <1>2 DEF TypeOK
<1>4. Incomplete(v) # {} /\ t \in Incomplete(v) /\ t \in Steps /\ tgt[r] = 0
  BY <1>1, <1>2, FirstIncompleteIsStep DEF HasItsStep, KnowsItsStep, Running, Current
<1>5. /\ \A s \in Steps : t < s => n[s] = 0
      /\ \A s \in Steps : n[s] <= MaxRetries[s] + 1
      /\ \A s \in Steps : v.retry_count[s] <= MaxRetries[s]
  BY <1>1, <1>2 DEF TriedAfter, TriesInv, CountsKept
<1>6. pc'[r] \in Loop
  BY <1>3 DEF StepStart, ExecSucceeds, ExecFails, Retry, SaveStep, Advance, Goto, Loop
<1>7. TriedBefore(r)'
  BY <1>6 DEF TriedBefore
<1>8. CASE StepStart(r)
  <2>1. /\ pc[r] = "step_start" /\ pc'[r] \in {"fail", "gate", "exec"} /\ tries' = tries
        /\ view'[r] = v
    BY <1>3, <1>8 DEF StepStart, Flush, Written, Goto, history
  <2>2. Current(r)' = t
    BY <2>1 DEF Current
  <2>3. n[t] = 0 /\ v.retry_count[t] \in Nat
    BY <1>2, <1>3, <1>4, <2>1 DEF TriedHere, RowValues
  <2>4. TriedAfter(r)'
    BY <1>5, <2>1, <2>2 DEF TriedAfter
  <2>5. TriedHere(r)'
    BY <2>1, <2>2, <2>3 DEF TriedHere
  <2>. QED
    BY <1>5, <1>7, <2>1, <2>4, <2>5 DEF Tried
<1>9. CASE ExecSucceeds(r) \/ ExecFails(r)
  <2>1. /\ pc[r] = "exec" /\ pc'[r] \in {"save", "retry", "fail"} /\ view'[r] = v
        /\ tries'[r] = Counted(n, t)
    BY <1>3, <1>9 DEF ExecSucceeds, ExecFails, Executed, Goto
  <2>2. Current(r)' = t
    BY <2>1 DEF Current
  <2>3. /\ \A s \in Steps : s # t => tries'[r][s] = n[s]
        /\ tries'[r][t] <= n[t] + 1
    BY <1>3, <1>4, <2>1 DEF Counted
  <2>4. tries'[r][t] <= v.retry_count[t] + 1 /\ tries'[r][t] <= MaxRetries[t] + 1
    <3>1. n[t] <= v.retry_count[t]
      BY <1>2, <2>1 DEF TriedHere
    <3>2. n[t] \in Nat /\ v.retry_count[t] \in Nat /\ MaxRetries[t] \in Nat
          /\ tries'[r][t] \in Nat
      BY <1>3, <1>4, <2>1, CountedType DEF RowValues
    <3>. QED
      BY <1>4, <1>5, <2>3, <3>1, <3>2
  <2>5. TriedAfter(r)'
    <3>1. \A s \in Steps : t < s => s # t
      BY <1>4 DEF Steps
    <3>2. \A s \in Steps : t < s => tries'[r][s] = 0
      BY <1>5, <2>3, <3>1
    <3>. QED
      BY <2>2, <3>2 DEF TriedAfter
  <2>6. TriedHere(r)'
    BY <2>1, <2>2, <2>4 DEF TriedHere
  <2>7. \A s \in Steps : tries'[r][s] <= MaxRetries[s] + 1
    BY <1>5, <2>3, <2>4
  <2>. QED
    BY <1>7, <2>5, <2>6, <2>7 DEF Tried
<1>10. CASE Retry(r)
  <2>1. /\ pc[r] = "retry" /\ pc'[r] = "exec" /\ tries' = tries /\ view'[r] = Written(r)
    BY <1>3, <1>10 DEF Retry, Flush, Goto, history
  <2>2. Written(r) = [v EXCEPT !.retry_count[t] = @ + 1]
    BY <1>4, <2>1 DEF Written
  <2>3. /\ view'[r].step_status = v.step_status
        /\ view'[r].retry_count[t] = v.retry_count[t] + 1
    BY <1>3, <1>4, <2>1, <2>2 DEF RowValues
  <2>4. Current(r)' = t
    BY <2>3 DEF Current, FirstIncomplete, Incomplete
  <2>5. n[t] <= v.retry_count[t] + 1
    BY <1>2, <2>1 DEF TriedHere
  <2>6. TriedAfter(r)'
    BY <1>5, <2>1, <2>4 DEF TriedAfter
  <2>7. TriedHere(r)'
    BY <2>1, <2>3, <2>4, <2>5 DEF TriedHere
  <2>. QED
    BY <1>5, <1>7, <2>1, <2>6, <2>7 DEF Tried
<1>11. CASE SaveStep(r)
  <2>1. /\ pc[r] = "save" /\ tries' = tries /\ view'[r] = Written(r)
        /\ pc'[r] = Advance(view'[r])
    BY <1>3, <1>11 DEF SaveStep, Flush, Goto, history
  <2>2. Written(r) = [v EXCEPT !.step_status[t] = "completed", !.current_step = t]
    BY <1>4, <2>1 DEF Written
  <2>3. Incomplete(view'[r]) = Incomplete(v) \ {t}
    BY <1>3, <1>4, <2>1, <2>2 DEF Incomplete, RowValues
  <2>4. CASE Incomplete(view'[r]) = {}
    BY <1>5, <1>7, <2>1, <2>4 DEF Advance, Tried, TriedAfter, TriedHere
  <2>5. CASE Incomplete(view'[r]) # {}
    <3>1. pc'[r] = "step_start"
      BY <2>1, <2>5 DEF Advance
    <3>2. Current(r)' \in Incomplete(v) /\ Current(r)' # t /\ Current(r)' \in Steps
      BY <2>3, <2>5, FirstIncompleteIsStep DEF Current
    <3>3. \E s \in Incomplete(v) : \A q \in Incomplete(v) : s <= q
      BY <1>4, FirstStep DEF Incomplete
    <3>4. t <= Current(r)'
      BY <3>2, <3>3 DEF Current, FirstIncomplete
    <3>5. t < Current(r)' /\ \A s \in Steps : Current(r)' < s => t < s
      BY <1>4, <3>2, <3>4 DEF Steps
    <3>6. TriedAfter(r)'
      BY <1>5, <2>1, <3>5 DEF TriedAfter
    <3>7. TriedHere(r)'
      BY <1>5, <2>1, <3>1, <3>2, <3>5 DEF TriedHere
    <3>. QED
      BY <1>5, <1>7, <2>1, <3>6, <3>7 DEF Tried
  <2>. QED
    BY <2>4, <2>5
<1>. QED
  BY <1>8, <1>9, <1>10, <1>11

\* A handler step keeps to it.
LEMMA HandleKeepsTries ==
  ASSUME Before, TriesInv, NEW r \in Requests, Handle(r)
  PROVE  TriesInv'
<1>1. TypeOK /\ Untouched(r)
  BY HandleKeepsStep DEF Before, IInv, GateInv
<1>2. tries' = tries \/ ExecSucceeds(r) \/ ExecFails(r)
  BY HistoryMoves
<1>3. \A q \in Requests : q # r => tries'[q] = tries[q]
  BY <1>1, <1>2 DEF ExecSucceeds, ExecFails, Executed, TypeOK
<1>4. ASSUME NEW q \in Requests, q # r
      PROVE  Tried(q)' /\ \A s \in Steps : tries'[q][s] <= MaxRetries[s] + 1
  <2>1. pc'[q] = pc[q] /\ view'[q] = view[q] /\ tries'[q] = tries[q]
    BY <1>1, <1>3, <1>4 DEF Untouched
  <2>2. Current(q)' = Current(q)
    BY <2>1 DEF Current
  <2>. QED
    BY <2>1, <2>2 DEF TriesInv, Tried, TriedBefore, TriedAfter, TriedHere
<1>5. ASSUME tries' = tries, pc'[r] = "idle"
      PROVE  Tried(r)' /\ \A s \in Steps : tries'[r][s] <= MaxRetries[s] + 1
  BY <1>5 DEF TriesInv, Tried, TriedBefore, TriedAfter, TriedHere, AtStep
<1>6. ASSUME pc[r] \in Loop
      PROVE  Tried(r)' /\ \A s \in Steps : tries'[r][s] <= MaxRetries[s] + 1
  <2>1. CASE pc'[r] = "idle" /\ tries' = tries
    BY <1>5, <2>1
  <2>2. CASE StepStart(r) \/ ExecSucceeds(r) \/ ExecFails(r) \/ Retry(r) \/ SaveStep(r)
    BY <2>2, TriedInLoop
  <2>. QED
    BY <1>6, <2>1, <2>2, LeavesLoop
<1>7. ASSUME pc[r] \notin Loop
      PROVE  Tried(r)' /\ \A s \in Steps : tries'[r][s] <= MaxRetries[s] + 1
  <2>1. pc[r] # "idle"
    BY DEF Handle, RunStep, RunGet, RunStart, RunSteps, StepStart, ExecSucceeds,
           ExecFails, ExecRaises, Retry, SaveStep, FailStep, Gate, GateTaken, Finish,
           Refuse, ResumeStep, ResumeGet, ResumeStart, ResumeEvent, CancelStep,
           CancelLock, CancelSteps, CancelApprovals, CancelCommit, ApproveStep,
           ApproveLock, ApproveGet, ApproveSteps, ApproveCommit, CallStep, CallGet,
           CallSteps, Call, CallDenied, CallSave, CallFail, RejectStep, RejectLock,
           RejectGet, RejectSteps, RejectCommit
  <2>2. tries' = tries
    BY <1>2, <1>7 DEF ExecSucceeds, ExecFails, Loop, AtStep
  <2>3. \A s \in Steps : tries'[r][s] = 0
    BY <1>7, <2>1, <2>2 DEF TriesInv, Tried, TriedBefore
  <2>4. \A s \in Steps : tries'[r][s] <= MaxRetries[s] + 1
    BY <2>2 DEF TriesInv
  <2>5. pc'[r] \in Loop => pc'[r] \in {"step_start", "finish"}
    BY <1>1, <1>7, EntersLoop DEF RunSteps, Goto, Advance, TypeOK
  <2>6. pc'[r] = "step_start" => Current(r)' \in Steps
    <3>1. HasItsStep(r)'
      BY HandleKeepsStep DEF Before, IInv, GateInv
    <3>. QED
      BY <3>1, FirstIncompleteIsStep DEF HasItsStep, AtStep, Current
  <2>7. TriedBefore(r)' /\ TriedAfter(r)'
    BY <2>3 DEF TriedBefore, TriedAfter
  <2>8. TriedHere(r)'
    BY <2>3, <2>5, <2>6 DEF TriedHere, Loop, AtStep
  <2>. QED
    BY <2>4, <2>7, <2>8 DEF Tried
<1>8. Tried(r)' /\ \A s \in Steps : tries'[r][s] <= MaxRetries[s] + 1
  BY <1>6, <1>7
<1>9. CountsKept'
  BY CountsKeptKept DEF TriesInv
<1>. QED
  BY <1>4, <1>8, <1>9 DEF TriesInv

\* A request that arrives has tried nothing; one that is lost goes no further.
LEMMA OthersKeepTries ==
  ASSUME Before, TriesInv, NEW r \in Requests,
         Post(r) \/ AbortDeadlocked(r) \/ LoseSession(r)
  PROVE  TriesInv'
<1>1. TypeOK
  BY DEF Before, IInv
<1>2. CASE Post(r)
  <2>1. /\ UNCHANGED <<db, view>>
        /\ pc'[r] \in {"run_get", "resume_get", "cancel_lock", "approve_lock", "reject_lock"}
        /\ tries'[r] = [q \in Steps |-> 0]
        /\ \A q \in Requests : q # r => pc'[q] = pc[q] /\ tries'[q] = tries[q]
    BY <1>1, <1>2
       DEF Post, PostRun, PostResume, PostCancel, PostApprove, PostReject, Arrive, Goto,
           TypeOK
  <2>2. CountsKept'
    BY <2>1 DEF TriesInv, CountsKept, RetriesLeft, Current
  <2>3. Tried(r)'
    BY <2>1 DEF Tried, TriedBefore, TriedAfter, TriedHere, AtStep
  <2>4. \A s \in Steps : tries'[r][s] <= MaxRetries[s] + 1
    <3>1. \A s \in Steps : tries'[r][s] = 0 /\ MaxRetries[s] \in Nat
      BY <2>1
    <3>. QED
      BY <3>1
  <2>5. \A q \in Requests : q # r =>
          Tried(q)' /\ \A s \in Steps : tries'[q][s] <= MaxRetries[s] + 1
    BY <2>1 DEF TriesInv, Tried, TriedBefore, TriedAfter, TriedHere, Current
  <2>. QED
    BY <2>2, <2>3, <2>4, <2>5 DEF TriesInv
<1>3. CASE AbortDeadlocked(r) \/ LoseSession(r)
  <2>1. /\ UNCHANGED <<db, tries>> /\ Leave(r)
    BY <1>3 DEF AbortDeadlocked, LoseSession, history
  <2>2. /\ pc'[r] = "idle" /\ view'[r] = Created
        /\ \A q \in Requests : q # r => pc'[q] = pc[q] /\ view'[q] = view[q]
    BY <1>1, <2>1 DEF Leave, Goto, TypeOK
  <2>3. \A s \in Steps : view'[r].retry_count[s] <= MaxRetries[s]
    <3>1. \A s \in Steps : view'[r].retry_count[s] = 0 /\ MaxRetries[s] \in Nat
      BY <2>2 DEF Created
    <3>. QED
      BY <3>1
  <2>4. CountsKept'
    BY <2>1, <2>2, <2>3 DEF TriesInv, CountsKept, RetriesLeft, Current
  <2>5. Tried(r)'
    BY <2>2 DEF Tried, TriedBefore, TriedAfter, TriedHere, AtStep
  <2>6. \A q \in Requests : q # r => Tried(q)'
    BY <2>1, <2>2 DEF TriesInv, Tried, TriedBefore, TriedAfter, TriedHere, Current
  <2>. QED
    BY <2>1, <2>4, <2>5, <2>6 DEF TriesInv
<1>. QED
  BY <1>2, <1>3

LEMMA TriesInvNext ==
  ASSUME Before, TriesInv, [Next]_vars
  PROVE  TriesInv'
<1>1. CASE UNCHANGED <<db, pc, view, tries>>
  BY <1>1
     DEF TriesInv, CountsKept, RetriesLeft, Current, Tried, TriedBefore, TriedAfter, TriedHere
<1>. QED
  BY <1>1, HandleKeepsTries, OthersKeepTries
     DEF Next, PassDue, AllAnswered, vars, session, history

\* However many requests run a workflow at the same time, whichever sessions are
\* lost and however often a search raises: no request tries a step more than once
\* beyond its retries, and the database records no more retries than there are.
THEOREM TriesStayBounded == Spec => []TriesAreBounded
<1>1. Init => Before /\ TriesInv
  <2>. SUFFICES ASSUME Init
                PROVE  TriesInv
    BY BeforeInit
  <2>1. \A s \in Steps : MaxRetries[s] \in Nat
    OBVIOUS
  <2>2. CountsKept
    BY <2>1 DEF Init, Created, CountsKept, RetriesLeft
  <2>3. \A r \in Requests : Tried(r)
    BY DEF Init, Tried, TriedBefore, TriedAfter, TriedHere, AtStep
  <2>4. \A r \in Requests : \A s \in Steps : tries[r][s] <= MaxRetries[s] + 1
    BY <2>1 DEF Init
  <2>. QED
    BY <2>2, <2>3, <2>4 DEF TriesInv
<1>2. Before /\ TriesInv /\ [Next]_vars => Before' /\ TriesInv'
  BY BeforeNext, TriesInvNext
<1>3. TriesInv => TriesAreBounded
  BY DEF TriesInv, CountsKept, TriesAreBounded
<1>. QED
  BY <1>1, <1>2, <1>3, PTL DEF Spec

=============================================================================
