------------------------- MODULE WorkflowGateProofs -------------------------
(***************************************************************************)
(* Types, and the approval gate of WorkflowEngine, for every number of     *)
(* steps and any set of requests: TypeOK and GateInv are inductive, and    *)
(* the engine implements ApprovalGate.                                     *)
(*                                                                         *)
(* The proof sorts the handler steps by what they do to approvals and      *)
(* executions (the effects below); the invariant and the refinement are    *)
(* then shown effect by effect instead of action by action.                *)
(***************************************************************************)
EXTENDS WorkflowEngine, WellFoundedInduction, TLAPS

USE EngineAssumption

-----------------------------------------------------------------------------
(* Pure lemmas.                                                            *)

\* A set of steps that is not empty has a first one.
LEMMA FirstStep ==
  ASSUME NEW S \in SUBSET Steps, S # {}
  PROVE  \E s \in S : \A q \in S : s <= q
<1>. DEFINE Less == {p \in Nat \X Nat : p[1] < p[2]}
<1>1. S \subseteq Nat
  BY DEF Steps
<1>2. IsWellFoundedOn(Less, Nat)
  BY NatLessThanWellFounded DEF OpToRel
<1>3. \E s \in S : \A q \in S : ~ (<<q, s>> \in Less)
  <2>. HIDE DEF Less
  <2>. QED  BY <1>1, <1>2, WFMin
<1>4. \A q, s \in Nat : q < s => <<q, s>> \in Less
  OBVIOUS
<1>. HIDE DEF Less
<1>5. PICK s \in S : \A q \in S : <<q, s>> \notin Less
  BY <1>3
<1>6. ASSUME NEW q \in S PROVE s <= q
  <2>1. q \in Nat /\ s \in Nat
    BY <1>1
  <2>2. ~ (q < s)
    BY <1>4, <1>5, <2>1
  <2>. QED  BY <2>1, <2>2
<1>. QED
  BY <1>6

\* The loop of `run` picks a step that is not completed.
LEMMA FirstIncompleteIsStep ==
  ASSUME NEW v, Incomplete(v) # {}
  PROVE  FirstIncomplete(v) \in Incomplete(v) /\ FirstIncomplete(v) \in Steps
<1>1. Incomplete(v) \in SUBSET Steps
  BY DEF Incomplete
<1>2. \E s \in Incomplete(v) : \A q \in Incomplete(v) : s <= q
  BY <1>1, FirstStep
<1>3. FirstIncomplete(v) \in Incomplete(v)
  BY <1>2 DEF FirstIncomplete
<1>. QED
  BY <1>1, <1>3

\* Writing columns of one well-typed set of rows over another is well typed.
LEMMA OverwriteType ==
  ASSUME NEW d \in RowValues, NEW v \in RowValues, NEW W
  PROVE  Overwrite(d, v, W) \in RowValues
BY DEF Overwrite, RowValues

\* The columns a flush writes are columns.
LEMMA ChangedType ==
  ASSUME NEW u, NEW v
  PROVE  Changed(u, v) \subseteq Columns
BY DEF Changed

\* A created workflow is well typed.
LEMMA CreatedType == Created \in RowValues
BY DEF Created, RowValues, WorkflowStatus, StepStatus, Steps

\* So are the copies of the rows after a handler has set a step's status and
\* its position, or a step's status and the workflow's.
LEMMA StepPositionType ==
  ASSUME NEW v \in RowValues, NEW s \in Steps, NEW x \in StepStatus, NEW n \in 0..N
  PROVE  [v EXCEPT !.step_status[s] = x, !.current_step = n] \in RowValues
BY DEF RowValues

\* The other pair of changes: a step's status and the workflow's.
LEMMA StepStatusType ==
  ASSUME NEW v \in RowValues, NEW s \in Steps, NEW x \in StepStatus,
         NEW y \in WorkflowStatus
  PROVE  [v EXCEPT !.step_status[s] = x, !.status = y] \in RowValues
BY DEF RowValues

-----------------------------------------------------------------------------
(* Typing of the pieces of actions.                                        *)

\* The conjuncts of TypeOK about sessions.
SessionOK ==
  /\ pc \in [Requests -> Labels]
  /\ tgt \in [Requests -> 0..N]
  /\ known \in [Requests -> SUBSET (0..N)]
  /\ view \in [Requests -> RowValues]
  /\ dirty \in [Requests -> SUBSET Columns]
  /\ pend \in [Requests -> SUBSET Steps]
  /\ held \in [Requests -> SUBSET (Modes \X (0..2 * N))]

\* What the requests are about to flush is well typed.
LEMMA WrittenType ==
  ASSUME TypeOK, NEW r \in Requests, HasItsStep(r)
  PROVE  Written(r) \in RowValues
<1>. DEFINE v == view[r]
            s == IF tgt[r] # 0 THEN tgt[r] ELSE Current(r)
<1>1. v \in RowValues
  BY DEF TypeOK
<1>2. ASSUME pc[r] \in AtStep \cup Called \cup Deciding
      PROVE  s \in Steps
  BY <1>2, FirstIncompleteIsStep
     DEF HasItsStep, TypeOK, Steps, Current, AtStep, Called, Deciding
<1>3. /\ "running" \in WorkflowStatus
      /\ "failed" \in WorkflowStatus
      /\ "waiting_for_approval" \in WorkflowStatus
      /\ "completed" \in WorkflowStatus
      /\ "cancelled" \in WorkflowStatus
  BY DEF WorkflowStatus
<1>4. /\ "completed" \in StepStatus
      /\ "failed" \in StepStatus
      /\ "waiting_for_approval" \in StepStatus
      /\ "approved" \in StepStatus
      /\ "rejected" \in StepStatus
      /\ "cancelled" \in StepStatus
  BY DEF StepStatus
<1>5. \A q \in Steps : q \in 0..N
  BY DEF Steps
<1>. HIDE DEF s, v
<1>6. CASE pc[r] \in {"run_start", "resume_start"}
  BY <1>1, <1>3, <1>6 DEF Written, RowValues, v
<1>7. CASE pc[r] = "retry"
  <2>1. Written(r) = [v EXCEPT !.retry_count[s] = @ + 1]
    BY <1>7 DEF Written, s, v
  <2>. QED  BY <1>1, <1>2, <1>7, <2>1 DEF RowValues, AtStep
<1>8. CASE pc[r] \in {"save", "call_save"}
  <2>1. Written(r) =
          [v EXCEPT !.step_status[s] = "completed", !.current_step = s]
    BY <1>8 DEF Written, s, v
  <2>2. s \in Steps
    BY <1>2, <1>8 DEF AtStep, Called
  <2>3. [v EXCEPT !.step_status[s] = "completed", !.current_step = s] \in RowValues
    BY <1>1, <1>4, <1>5, <2>2, StepPositionType
  <2>. QED  BY <2>1, <2>3
<1>9. CASE pc[r] \in {"fail", "call_fail"}
  <2>1. Written(r) =
          [v EXCEPT !.step_status[s] = "failed", !.status = "failed"]
    BY <1>9 DEF Written, s, v
  <2>2. s \in Steps
    BY <1>2, <1>9 DEF AtStep, Called
  <2>3. [v EXCEPT !.step_status[s] = "failed", !.status = "failed"] \in RowValues
    BY <1>1, <1>3, <1>4, <2>2, StepStatusType
  <2>. QED  BY <2>1, <2>3
<1>10. CASE pc[r] = "gate"
  <2>1. Written(r) =
          [v EXCEPT !.step_status[s] = "waiting_for_approval",
                          !.status = "waiting_for_approval"]
    BY <1>10 DEF Written, s, v
  <2>2. s \in Steps
    BY <1>2, <1>10 DEF AtStep
  <2>3. [v EXCEPT !.step_status[s] = "waiting_for_approval",
                      !.status = "waiting_for_approval"] \in RowValues
    BY <1>1, <1>3, <1>4, <2>2, StepStatusType
  <2>. QED  BY <2>1, <2>3
<1>11. CASE pc[r] = "finish"
  BY <1>1, <1>3, <1>11 DEF Written, RowValues, v
<1>12. CASE pc[r] = "approve_commit"
  <2>1. Written(r) =
          [v EXCEPT !.step_status[s] = "approved", !.status = "running"]
    BY <1>12 DEF Written, s, v
  <2>2. s \in Steps
    BY <1>2, <1>12 DEF Deciding
  <2>3. [v EXCEPT !.step_status[s] = "approved", !.status = "running"] \in RowValues
    BY <1>1, <1>3, <1>4, <2>2, StepStatusType
  <2>. QED  BY <2>1, <2>3
<1>13. CASE pc[r] = "reject_commit"
  <2>1. Written(r) =
          [v EXCEPT !.step_status[s] = "rejected", !.status = "cancelled"]
    BY <1>13 DEF Written, s, v
  <2>2. s \in Steps
    BY <1>2, <1>13 DEF Deciding
  <2>3. [v EXCEPT !.step_status[s] = "rejected", !.status = "cancelled"] \in RowValues
    BY <1>1, <1>3, <1>4, <2>2, StepStatusType
  <2>. QED  BY <2>1, <2>3
<1>14. CASE pc[r] = "cancel_flush"
  <2>. DEFINE st == [q \in Steps |-> IF v.step_status[q] = "completed"
                                       THEN "completed" ELSE "cancelled"]
  <2>1. st \in [Steps -> StepStatus]
    BY <1>4
  <2>2. Written(r) = [v EXCEPT !.step_status = st]
    BY <1>14 DEF Written, v
  <2>. HIDE DEF st
  <2>. QED  BY <1>1, <2>1, <2>2 DEF RowValues
<1>15. CASE pc[r] \notin {"run_start", "resume_start", "retry", "save",
                          "call_save", "fail", "call_fail", "gate", "finish",
                          "approve_commit", "reject_commit", "cancel_flush"}
  BY <1>1, <1>15 DEF Written, v
<1>. QED
  BY <1>6, <1>7, <1>8, <1>9, <1>10, <1>11, <1>12, <1>13, <1>14, <1>15

\* The locks a statement needs are locks.
LEMMA WantedType ==
  ASSUME TypeOK, NEW r \in Requests, HasItsStep(r)
  PROVE  Wanted(r) \subseteq Modes \X (0..2 * N)
<1>1. \A c \in Changed(view[r], Written(r)) : c[2] \in 0..2 * N
  BY ChangedType DEF Columns, Steps, WorkflowRow
<1>2. pc[r] \in Locking => ApprovalRow(tgt[r]) \in 0..2 * N
  BY DEF HasItsStep, ApprovalRow, Steps, Locking
<1>3. \A s \in pend[r] : ApprovalRow(s) \in 0..2 * N
  BY DEF TypeOK, ApprovalRow, Steps
<1>. QED
  BY <1>1, <1>2, <1>3 DEF Wanted, Modes, WorkflowRow, Locking

\* Moving on keeps pc typed.
LEMMA GotoType ==
  ASSUME TypeOK, NEW r, NEW label \in Labels, Goto(r, label)
  PROVE  pc' \in [Requests -> Labels]
BY DEF TypeOK, Goto

\* A SELECT copies well-typed rows.
LEMMA ReadType ==
  ASSUME TypeOK, NEW r \in Requests, NEW rows \in SUBSET (0..N), Read(r, rows)
  PROVE  /\ view' \in [Requests -> RowValues]
         /\ known' \in [Requests -> SUBSET (0..N)]
<1>1. Loaded(r, rows) \in RowValues
  BY OverwriteType DEF Loaded, TypeOK
<1>2. view' \in [Requests -> RowValues]
  BY <1>1 DEF Read, TypeOK
<1>3. known[r] \cup rows \in SUBSET (0..N)
  BY DEF TypeOK
<1>4. known' \in [Requests -> SUBSET (0..N)]
  BY <1>3 DEF Read, TypeOK
<1>. QED
  BY <1>2, <1>4

\* A flush leaves the session well typed.
LEMMA FlushType ==
  ASSUME TypeOK, NEW r \in Requests, HasItsStep(r), Flush(r)
  PROVE  /\ view' \in [Requests -> RowValues]
         /\ dirty' \in [Requests -> SUBSET Columns]
         /\ held' \in [Requests -> SUBSET (Modes \X (0..2 * N))]
<1>1. view' \in [Requests -> RowValues]
  BY WrittenType DEF Flush, TypeOK
<1>2. dirty[r] \cup Changed(view[r], Written(r)) \in SUBSET Columns
  BY ChangedType DEF TypeOK
<1>3. dirty' \in [Requests -> SUBSET Columns]
  BY <1>2 DEF Flush, TypeOK
<1>4. held[r] \cup Wanted(r) \in SUBSET (Modes \X (0..2 * N))
  BY WantedType DEF TypeOK
<1>5. held' \in [Requests -> SUBSET (Modes \X (0..2 * N))]
  BY <1>4 DEF Flush, TypeOK
<1>. QED
  BY <1>1, <1>3, <1>5

\* A commit leaves the database well typed.
LEMMA PersistType ==
  ASSUME TypeOK, NEW r \in Requests, HasItsStep(r), Persist(r)
  PROVE  db' \in RowValues
BY WrittenType, OverwriteType DEF Persist, TypeOK

\* So does the session of a request that goes on after it.
LEMMA ContinueType ==
  ASSUME TypeOK, NEW r \in Requests, HasItsStep(r),
         NEW label \in Labels, NEW step \in 0..N, NEW rows \in SUBSET (0..N),
         Continue(r, label, step, rows)
  PROVE  SessionOK'
<1>1. Overwrite(Created, Written(r), {c \in Columns : c[2] \in rows}) \in RowValues
  BY CreatedType, WrittenType, OverwriteType
<1>2. view' \in [Requests -> RowValues]
  BY <1>1 DEF Continue, TypeOK
<1>3. pc' \in [Requests -> Labels]
  BY GotoType DEF Continue
<1>. QED
  BY <1>2, <1>3 DEF Continue, TypeOK, SessionOK

\* A request that is over leaves nothing behind.
LEMMA LeaveType ==
  ASSUME TypeOK, NEW r \in Requests, Leave(r)
  PROVE  SessionOK'
<1>1. pc' \in [Requests -> Labels]
  BY GotoType DEF Leave, Labels
<1>2. view' \in [Requests -> RowValues]
  BY CreatedType DEF Leave, TypeOK
<1>. QED
  BY <1>1, <1>2 DEF Leave, TypeOK, SessionOK

\* Counting an execution stays within the cap.
LEMMA CountedType ==
  ASSUME NEW counts \in [Steps -> 0..ExecCap], NEW s \in Steps
  PROVE  Counted(counts, s) \in [Steps -> 0..ExecCap]
<1>1. counts[s] < ExecCap => counts[s] + 1 \in 0..ExecCap
  BY EngineAssumption
<1>. QED
  BY <1>1 DEF Counted

\* An execution is counted for its request.
LEMMA ExecutedType ==
  ASSUME TypeOK, NEW r \in Requests, Current(r) \in Steps, Executed(r)
  PROVE  /\ lost' \subseteq 0..N
         /\ tries' \in [Requests -> [Steps -> 0..ExecCap]]
<1>1. tries[r] \in [Steps -> 0..ExecCap]
  BY DEF TypeOK
<1>2. Counted(tries[r], Current(r)) \in [Steps -> 0..ExecCap]
  BY <1>1, CountedType
<1>. QED
  BY <1>2 DEF Executed, TypeOK

\* Every handler step preserves the type invariant.
LEMMA HandleType ==
  ASSUME TypeOK, NEW r \in Requests, HasItsStep(r), Handle(r)
  PROVE  TypeOK'
<1>1. /\ {WorkflowRow} \in SUBSET (0..N)
      /\ Steps \in SUBSET (0..N)
      /\ tgt[r] \in 0..N
      /\ {tgt[r]} \in SUBSET (0..N)
      /\ {WorkflowRow, tgt[r]} \in SUBSET (0..N)
  BY DEF WorkflowRow, Steps, TypeOK
<1>18. pc[r] \in AtStep => Current(r) \in Steps
  BY FirstIncompleteIsStep DEF HasItsStep, Current
<1>2. CASE RunGet(r)
  <2>1. CASE Leave(r)
    BY <1>2, <2>1, LeaveType DEF RunGet, TypeOK, SessionOK, history
  <2>2. CASE ~ Leave(r)
    <3>1. pc' \in [Requests -> Labels]
      BY <1>2, <2>2, GotoType DEF RunGet, Labels
    <3>2. /\ view' \in [Requests -> RowValues]
          /\ known' \in [Requests -> SUBSET (0..N)]
      BY <1>2, <2>2, <1>1, ReadType DEF RunGet
    <3>. QED
      BY <1>2, <2>2, <3>1, <3>2 DEF RunGet, TypeOK, history
  <2>. QED
    BY <2>1, <2>2
<1>3. CASE RunStart(r)
  <2>1. pc' \in [Requests -> Labels]
    BY <1>3, GotoType DEF RunStart, Labels
  <2>. QED
    BY <1>3, <2>1, FlushType DEF RunStart, TypeOK, history
<1>4. CASE RunSteps(r)
  <2>1. pc' \in [Requests -> Labels]
    BY <1>4, GotoType DEF RunSteps, Labels, Advance
  <2>2. /\ view' \in [Requests -> RowValues]
        /\ known' \in [Requests -> SUBSET (0..N)]
    BY <1>4, <1>1, ReadType DEF RunSteps
  <2>. QED
    BY <1>4, <2>1, <2>2 DEF RunSteps, TypeOK, history
<1>5. CASE StepStart(r)
  <2>1. pc' \in [Requests -> Labels]
    BY <1>5, GotoType DEF StepStart, Labels
  <2>. QED
    BY <1>5, <2>1, FlushType DEF StepStart, TypeOK, history
<1>6. CASE ExecSucceeds(r)
  <2>1. pc' \in [Requests -> Labels]
    BY <1>6, GotoType DEF ExecSucceeds, Labels
  <2>. QED
    BY <1>6, <1>18, <2>1, ExecutedType DEF ExecSucceeds, TypeOK, AtStep
<1>7. CASE ExecFails(r)
  <2>1. pc' \in [Requests -> Labels]
    BY <1>7, GotoType DEF ExecFails, Labels
  <2>. QED
    BY <1>7, <1>18, <2>1, ExecutedType DEF ExecFails, TypeOK, AtStep
<1>8. CASE Retry(r)
  <2>1. pc' \in [Requests -> Labels]
    BY <1>8, GotoType DEF Retry, Labels
  <2>. QED
    BY <1>8, <2>1, FlushType DEF Retry, TypeOK, history
<1>9. CASE SaveStep(r)
  <2>1. pc' \in [Requests -> Labels]
    BY <1>9, GotoType DEF SaveStep, Labels, Advance
  <2>. QED
    BY <1>9, <2>1, FlushType DEF SaveStep, TypeOK, history
<1>10. CASE FailStep(r)
  <2>. QED
    BY <1>10, PersistType, LeaveType DEF FailStep, TypeOK, SessionOK, history
<1>11. CASE Gate(r)
  <2>1. ap' \in [Steps -> ApprovalStatus \cup {"none"}]
    BY <1>11 DEF Gate, TypeOK, ApprovalStatus
  <2>. QED
    BY <1>11, <2>1, PersistType, LeaveType DEF Gate, TypeOK, SessionOK, history
<1>12. CASE GateTaken(r)
  BY <1>12, LeaveType DEF GateTaken, TypeOK, SessionOK, history
<1>13. CASE Finish(r)
  <2>. QED
    BY <1>13, PersistType, LeaveType DEF Finish, TypeOK, SessionOK, history
<1>14. CASE Refuse(r)
  BY <1>14, LeaveType DEF Refuse, TypeOK, SessionOK, history
<1>15. CASE ResumeGet(r)
  <2>1. CASE Leave(r)
    BY <1>15, <2>1, LeaveType DEF ResumeGet, TypeOK, SessionOK, history
  <2>2. CASE ~ Leave(r)
    <3>1. pc' \in [Requests -> Labels]
      BY <1>15, <2>2, GotoType DEF ResumeGet, Labels
    <3>2. /\ view' \in [Requests -> RowValues]
          /\ known' \in [Requests -> SUBSET (0..N)]
      BY <1>15, <2>2, <1>1, ReadType DEF ResumeGet
    <3>. QED
      BY <1>15, <2>2, <3>1, <3>2 DEF ResumeGet, TypeOK, history
  <2>. QED
    BY <2>1, <2>2
<1>16. CASE ResumeStart(r)
  <2>1. SessionOK'
    BY <1>16, <1>1, ContinueType DEF ResumeStart, Labels
  <2>. QED
    BY <1>16, <2>1, PersistType DEF ResumeStart, TypeOK, SessionOK, history
<1>17. CASE ResumeEvent(r)
  <2>1. pc' \in [Requests -> Labels]
    BY <1>17, GotoType DEF ResumeEvent, Labels
  <2>. QED
    BY <1>17, <2>1, FlushType DEF ResumeEvent, TypeOK, history
<1>19. CASE CancelLock(r)
  <2>1. CASE Leave(r)
    BY <1>19, <2>1, LeaveType DEF CancelLock, TypeOK, SessionOK, history
  <2>2. CASE ~ Leave(r)
    <3>. DEFINE v == [Loaded(r, {WorkflowRow}) EXCEPT !.status = "cancelled"]
    <3>1. pc' \in [Requests -> Labels]
      BY <1>19, <2>2, GotoType DEF CancelLock, Labels
    <3>2. Loaded(r, {WorkflowRow}) \in RowValues
      BY OverwriteType DEF Loaded, TypeOK
    <3>3. v \in RowValues
      BY <3>2 DEF RowValues, WorkflowStatus
    <3>4. view' = [view EXCEPT ![r] = v]
      BY <1>19, <2>2 DEF CancelLock
    <3>. HIDE DEF v
    <3>5. view' \in [Requests -> RowValues]
      BY <3>3, <3>4 DEF TypeOK
    <3>6. <<"status", WorkflowRow>> \in Columns
      BY DEF Columns
    <3>7. <<"update", WorkflowRow>> \in Modes \X (0..2 * N)
      BY DEF Modes, WorkflowRow
    <3>8. known' \in [Requests -> SUBSET (0..N)]
      BY <1>19, <1>1, <2>2 DEF CancelLock, TypeOK
    <3>9. dirty' \in [Requests -> SUBSET Columns]
      <4>1. dirty' = [dirty EXCEPT ![r] = {<<"status", WorkflowRow>>}]
        BY <1>19, <2>2 DEF CancelLock
      <4>2. {<<"status", WorkflowRow>>} \in SUBSET Columns
        BY <3>6
      <4>. QED  BY <4>1, <4>2 DEF TypeOK
    <3>10. held' \in [Requests -> SUBSET (Modes \X (0..2 * N))]
      <4>1. held' = [held EXCEPT ![r] = {<<"update", WorkflowRow>>}]
        BY <1>19, <2>2 DEF CancelLock
      <4>2. {<<"update", WorkflowRow>>} \in SUBSET (Modes \X (0..2 * N))
        BY <3>7
      <4>. QED  BY <4>1, <4>2 DEF TypeOK
    <3>. QED
      BY <1>19, <2>2, <3>1, <3>5, <3>8, <3>9, <3>10 DEF CancelLock, TypeOK, history
  <2>. QED
    BY <2>1, <2>2
<1>20. CASE CancelSteps(r)
  <2>1. pc' \in [Requests -> Labels]
    BY <1>20, GotoType DEF CancelSteps, Labels
  <2>2. /\ view' \in [Requests -> RowValues]
        /\ known' \in [Requests -> SUBSET (0..N)]
    BY <1>20, <1>1, ReadType DEF CancelSteps
  <2>. QED
    BY <1>20, <2>1, <2>2 DEF CancelSteps, TypeOK, history
<1>21. CASE CancelApprovals(r)
  <2>1. pc' \in [Requests -> Labels]
    BY <1>21, GotoType DEF CancelApprovals, Labels
  <2>2. pend' \in [Requests -> SUBSET Steps]
    BY <1>21 DEF CancelApprovals, TypeOK
  <2>. QED
    BY <1>21, <2>1, <2>2, FlushType DEF CancelApprovals, TypeOK, history
<1>22. CASE CancelCommit(r)
  <2>1. ap' \in [Steps -> ApprovalStatus \cup {"none"}]
    BY <1>22 DEF CancelCommit, TypeOK, ApprovalStatus
  <2>. QED
    BY <1>22, <2>1, PersistType, LeaveType DEF CancelCommit, TypeOK, SessionOK, history
<1>23. CASE ApproveLock(r)
  <2>1. CASE Leave(r)
    <3>1. ap' \in [Steps -> ApprovalStatus \cup {"none"}]
      BY <1>23, <2>1 DEF ApproveLock, TypeOK, ApprovalStatus
    <3>. QED
      BY <1>23, <2>1, <3>1, LeaveType DEF ApproveLock, TypeOK, SessionOK, history
  <2>2. CASE ~ Leave(r)
    <3>1. pc' \in [Requests -> Labels]
      BY <1>23, <2>2, GotoType DEF ApproveLock, Labels
    <3>2. held' \in [Requests -> SUBSET (Modes \X (0..2 * N))]
      <4>1. held' = [held EXCEPT ![r] = Wanted(r)]
        BY <1>23, <2>2 DEF ApproveLock
      <4>2. held \in [Requests -> SUBSET (Modes \X (0..2 * N))]
        BY DEF TypeOK
      <4>. QED
        BY <4>1, <4>2, WantedType
    <3>. QED
      <4>1. UNCHANGED <<db, ap, due, tgt, known, view, dirty, pend, begun, history>>
        BY <1>23, <2>2 DEF ApproveLock
      <4>. QED
        BY <3>1, <3>2, <4>1 DEF TypeOK, history
  <2>. QED
    BY <2>1, <2>2
<1>24. CASE ApproveGet(r)
  <2>1. pc' \in [Requests -> Labels]
    BY <1>24, GotoType DEF ApproveGet, Labels
  <2>2. /\ view' \in [Requests -> RowValues]
        /\ known' \in [Requests -> SUBSET (0..N)]
    BY <1>24, <1>1, ReadType DEF ApproveGet
  <2>. QED
    BY <1>24, <2>1, <2>2 DEF ApproveGet, TypeOK, history
<1>25. CASE ApproveSteps(r)
  <2>1. CASE Leave(r)
    <3>1. ap' \in [Steps -> ApprovalStatus \cup {"none"}]
      BY <1>25, <2>1 DEF ApproveSteps, TypeOK, ApprovalStatus
    <3>. QED
      BY <1>25, <2>1, <3>1, LeaveType DEF ApproveSteps, TypeOK, SessionOK, history
  <2>2. CASE ~ Leave(r)
    <3>1. pc' \in [Requests -> Labels]
      BY <1>25, <2>2, GotoType DEF ApproveSteps, Labels
    <3>2. /\ view' \in [Requests -> RowValues]
          /\ known' \in [Requests -> SUBSET (0..N)]
      BY <1>25, <2>2, <1>1, ReadType DEF ApproveSteps
    <3>. QED
      BY <1>25, <2>2, <3>1, <3>2 DEF ApproveSteps, TypeOK, history
  <2>. QED
    BY <2>1, <2>2
<1>26. CASE ApproveCommit(r)
  <2>1. SessionOK'
    BY <1>26, <1>1, ContinueType DEF ApproveCommit, Labels
  <2>2. ap' \in [Steps -> ApprovalStatus \cup {"none"}]
    BY <1>26 DEF ApproveCommit, TypeOK, ApprovalStatus
  <2>. QED
    BY <1>26, <2>1, <2>2, PersistType DEF ApproveCommit, TypeOK, SessionOK, history
<1>27. CASE CallGet(r)
  <2>1. CASE Leave(r)
    BY <1>27, <2>1, LeaveType DEF CallGet, TypeOK, SessionOK, history
  <2>2. CASE ~ Leave(r)
    <3>1. pc' \in [Requests -> Labels]
      BY <1>27, <2>2, GotoType DEF CallGet, Labels
    <3>2. /\ view' \in [Requests -> RowValues]
          /\ known' \in [Requests -> SUBSET (0..N)]
      BY <1>27, <2>2, <1>1, ReadType DEF CallGet
    <3>. QED
      BY <1>27, <2>2, <3>1, <3>2 DEF CallGet, TypeOK, history
  <2>. QED
    BY <2>1, <2>2
<1>28. CASE CallSteps(r)
  <2>1. CASE Leave(r)
    BY <1>28, <2>1, LeaveType DEF CallSteps, TypeOK, SessionOK, history
  <2>2. CASE ~ Leave(r)
    <3>1. pc' \in [Requests -> Labels]
      BY <1>28, <2>2, GotoType DEF CallSteps, Labels
    <3>2. /\ view' \in [Requests -> RowValues]
          /\ known' \in [Requests -> SUBSET (0..N)]
      BY <1>28, <2>2, <1>1, ReadType DEF CallSteps
    <3>. QED
      BY <1>28, <2>2, <3>1, <3>2 DEF CallSteps, TypeOK, history
  <2>. QED
    BY <2>1, <2>2
<1>29. CASE Call(r)
  <2>1. pc' \in [Requests -> Labels]
    BY <1>29, GotoType DEF Call, Labels
  <2>2. calls' \in [Steps -> Nat]
    BY <1>29 DEF Call, TypeOK, HasItsStep, Calling
  <2>. QED
    BY <1>29, <2>1, <2>2 DEF Call, TypeOK
<1>30. CASE CallDenied(r)
  <2>1. pc' \in [Requests -> Labels]
    BY <1>30, GotoType DEF CallDenied, Labels
  <2>. QED
    BY <1>30, <2>1 DEF CallDenied, TypeOK, history
<1>31. CASE CallSave(r)
  <2>1. SessionOK'
    BY <1>31, <1>1, ContinueType DEF CallSave, Labels
  <2>. QED
    BY <1>31, <2>1, PersistType DEF CallSave, TypeOK, SessionOK, history
<1>32. CASE CallFail(r)
  <2>. QED
    BY <1>32, PersistType, LeaveType DEF CallFail, TypeOK, SessionOK, history
<1>33. CASE RejectLock(r)
  <2>1. CASE Leave(r)
    <3>. QED
      BY <1>33, <2>1, LeaveType DEF RejectLock, TypeOK, SessionOK, history
  <2>2. CASE ~ Leave(r)
    <3>1. pc' \in [Requests -> Labels]
      BY <1>33, <2>2, GotoType DEF RejectLock, Labels
    <3>2. held' \in [Requests -> SUBSET (Modes \X (0..2 * N))]
      <4>1. held' = [held EXCEPT ![r] = Wanted(r)]
        BY <1>33, <2>2 DEF RejectLock
      <4>2. held \in [Requests -> SUBSET (Modes \X (0..2 * N))]
        BY DEF TypeOK
      <4>. QED
        BY <4>1, <4>2, WantedType
    <3>. QED
      <4>1. UNCHANGED <<db, ap, due, tgt, known, view, dirty, pend, begun, history>>
        BY <1>33, <2>2 DEF RejectLock
      <4>. QED
        BY <3>1, <3>2, <4>1 DEF TypeOK, history
  <2>. QED
    BY <2>1, <2>2
<1>34. CASE RejectGet(r)
  <2>1. pc' \in [Requests -> Labels]
    BY <1>34, GotoType DEF RejectGet, Labels
  <2>2. /\ view' \in [Requests -> RowValues]
        /\ known' \in [Requests -> SUBSET (0..N)]
    BY <1>34, <1>1, ReadType DEF RejectGet
  <2>. QED
    BY <1>34, <2>1, <2>2 DEF RejectGet, TypeOK, history
<1>35. CASE RejectSteps(r)
  <2>1. pc' \in [Requests -> Labels]
    BY <1>35, GotoType DEF RejectSteps, Labels
  <2>2. /\ view' \in [Requests -> RowValues]
        /\ known' \in [Requests -> SUBSET (0..N)]
    BY <1>35, <1>1, ReadType DEF RejectSteps
  <2>. QED
    BY <1>35, <2>1, <2>2 DEF RejectSteps, TypeOK, history
<1>36. CASE RejectCommit(r)
  <2>1. ap' \in [Steps -> ApprovalStatus \cup {"none"}]
    BY <1>36 DEF RejectCommit, TypeOK, ApprovalStatus
  <2>. QED
    BY <1>36, <2>1, PersistType, LeaveType DEF RejectCommit, TypeOK, SessionOK, history
<1>37. CASE ExecRaises(r)
  BY <1>37, LeaveType DEF ExecRaises, TypeOK, SessionOK, history
<1>. QED
  BY <1>2, <1>3, <1>4, <1>5, <1>6, <1>7, <1>8, <1>9, <1>10, <1>11, <1>12, <1>13,
     <1>14, <1>15, <1>16, <1>17, <1>19, <1>20, <1>21, <1>22, <1>23, <1>24, <1>25,
     <1>26, <1>27, <1>28, <1>29, <1>30, <1>31, <1>32, <1>33, <1>34, <1>35, <1>36,
     <1>37
     DEF Handle, RunStep, ResumeStep, CancelStep, ApproveStep, CallStep, RejectStep

-----------------------------------------------------------------------------
(* A step concerns one request.                                            *)

\* The sessions of the other requests stay as they are.
Untouched(r) ==
  \A q \in Requests \ {r} :
    /\ pc'[q] = pc[q]
    /\ tgt'[q] = tgt[q]
    /\ view'[q] = view[q]
    /\ pend'[q] = pend[q]
    /\ held'[q] = held[q]

\* The end of a request leaves pc and step of the others as they were.
LEMMA LeaveUntouched ==
  ASSUME TypeOK, NEW r \in Requests, Leave(r)
  PROVE  Untouched(r) /\ pc'[r] = "idle"
BY DEF TypeOK, Leave, Goto, Untouched

\* So does going on after a commit,
LEMMA ContinueUntouched ==
  ASSUME TypeOK, NEW r \in Requests, NEW label, NEW step, NEW rows,
         Continue(r, label, step, rows)
  PROVE  Untouched(r) /\ pc'[r] = label /\ tgt'[r] = step
BY DEF TypeOK, Continue, Goto, Untouched

\* a SELECT,
LEMMA ReadUntouched ==
  ASSUME TypeOK, NEW r \in Requests, NEW label, NEW rows,
         Read(r, rows), Goto(r, label), UNCHANGED <<tgt, pend, held>>
  PROVE  /\ Untouched(r)
         /\ pc'[r] = label
         /\ tgt'[r] = tgt[r]
         /\ view'[r] = Loaded(r, rows)
         /\ held'[r] = held[r]
BY DEF TypeOK, Read, Goto, Untouched

\* a flush,
LEMMA FlushUntouched ==
  ASSUME TypeOK, NEW r \in Requests, NEW label,
         Flush(r), Goto(r, label), UNCHANGED <<tgt, pend>>
  PROVE  /\ Untouched(r)
         /\ pc'[r] = label
         /\ tgt'[r] = tgt[r]
         /\ view'[r] = Written(r)
         /\ held[r] \subseteq held'[r]
BY DEF TypeOK, Flush, Goto, Untouched

\* and a move to the next statement.
LEMMA GotoUntouched ==
  ASSUME TypeOK, NEW r \in Requests, NEW label,
         Goto(r, label), UNCHANGED <<tgt, view, pend, held>>
  PROVE  /\ Untouched(r)
         /\ pc'[r] = label
         /\ tgt'[r] = tgt[r]
         /\ view'[r] = view[r]
BY DEF TypeOK, Goto, Untouched

\* A handler step concerns its own request, and leaves it a step to work on
\* whenever it goes on to work on one.
LEMMA HandleKeepsStep ==
  ASSUME TypeOK, NEW r \in Requests, HasItsStep(r), Handle(r)
  PROVE  Untouched(r) /\ HasItsStep(r)'
<1>1. tgt[r] \in 0..N
  BY DEF TypeOK
<1>2. pc'[r] = "idle" => HasItsStep(r)'
  BY DEF HasItsStep, AtStep, Locking, Deciding, Calling, Called
<1>3. pc'[r] \notin AtStep \cup Locking \cup Deciding \cup Calling \cup Called
        => HasItsStep(r)'
  BY DEF HasItsStep, AtStep
<1>4. \A v : pc'[r] = Advance(v) /\ view'[r] = v => HasItsStep(r)'
  BY DEF HasItsStep, Advance, AtStep, Locking, Deciding, Calling, Called
<1>5. pc'[r] \notin AtStep /\ tgt'[r] \in Steps => HasItsStep(r)'
  BY DEF HasItsStep, AtStep
<1>6. CASE RunGet(r)
  <2>1. CASE Leave(r)
    BY <2>1, LeaveUntouched, <1>2
  <2>2. CASE ~ Leave(r)
    <3>1. PICK label \in {"run_start", "run_steps"} :
             Read(r, {WorkflowRow}) /\ Goto(r, label) /\ UNCHANGED <<tgt, pend, held>>
      BY <1>6, <2>2 DEF RunGet
    <3>2. Untouched(r) /\ pc'[r] \in {"run_start", "run_steps"}
      BY <3>1, ReadUntouched
    <3>. QED
      BY <3>2, <1>3 DEF AtStep, Locking, Deciding, Calling, Called
  <2>. QED
    BY <2>1, <2>2
<1>7. CASE RunStart(r)
  BY <1>7, FlushUntouched, <1>3 DEF AtStep, Locking, Deciding, Calling, Called, RunStart
<1>8. CASE RunSteps(r)
  <2>1. /\ Untouched(r)
        /\ pc'[r] = Advance(Loaded(r, Steps))
        /\ view'[r] = Loaded(r, Steps)
    BY <1>8, ReadUntouched DEF RunSteps
  <2>. QED
    BY <2>1, <1>4
<1>9. CASE StepStart(r)
  <2>1. /\ Untouched(r)
        /\ view'[r] = Written(r)
        /\ pc'[r] = CASE Current(r) \in Unavailable -> "fail"
                      [] Current(r) \in Consequential \ Unavailable -> "gate"
                      [] OTHER -> "exec"
    BY <1>9, FlushUntouched DEF StepStart
  <2>2. Written(r) = view[r]
    BY <1>9 DEF StepStart, Written
  <2>3. Incomplete(view[r]) # {}
    BY <1>9 DEF StepStart, HasItsStep, AtStep
  <2>. QED
    BY <2>1, <2>2, <2>3 DEF HasItsStep, Current, AtStep, Locking, Deciding, Calling, Called
<1>10. CASE ExecSucceeds(r)
  <2>1. Untouched(r) /\ pc'[r] = "save" /\ view'[r] = view[r]
    BY <1>10, GotoUntouched DEF ExecSucceeds
  <2>2. Incomplete(view[r]) # {}
    BY <1>10 DEF ExecSucceeds, HasItsStep, AtStep
  <2>. QED
    BY <2>1, <2>2 DEF HasItsStep, AtStep, Locking, Deciding, Calling, Called
<1>11. CASE ExecFails(r)
  <2>1. PICK label \in {"retry", "fail"} : Goto(r, label)
    BY <1>11 DEF ExecFails
  <2>2. Untouched(r) /\ pc'[r] = label /\ view'[r] = view[r]
    BY <1>11, <2>1, GotoUntouched DEF ExecFails
  <2>3. Incomplete(view[r]) # {}
    BY <1>11 DEF ExecFails, HasItsStep, AtStep
  <2>. QED
    BY <2>1, <2>2, <2>3 DEF HasItsStep, AtStep, Locking, Deciding, Calling, Called
<1>12. CASE Retry(r)
  <2>1. Untouched(r) /\ pc'[r] = "exec" /\ view'[r] = Written(r)
    BY <1>12, FlushUntouched DEF Retry
  <2>2. Written(r).step_status = view[r].step_status
    BY <1>12 DEF Retry, Written, TypeOK, RowValues
  <2>3. Incomplete(view[r]) # {}
    BY <1>12 DEF Retry, HasItsStep, AtStep
  <2>. QED
    BY <2>1, <2>2, <2>3
       DEF HasItsStep, Incomplete, AtStep, Locking, Deciding, Calling, Called
<1>13. CASE SaveStep(r)
  <2>1. /\ Untouched(r)
        /\ pc'[r] = Advance(Written(r))
        /\ view'[r] = Written(r)
    BY <1>13, FlushUntouched DEF SaveStep
  <2>. QED
    BY <2>1, <1>4
<1>14. CASE FailStep(r)
  BY <1>14, LeaveUntouched, <1>2 DEF FailStep
<1>15. CASE Gate(r)
  BY <1>15, LeaveUntouched, <1>2 DEF Gate
<1>16. CASE GateTaken(r)
  BY <1>16, LeaveUntouched, <1>2 DEF GateTaken
<1>17. CASE Finish(r)
  BY <1>17, LeaveUntouched, <1>2 DEF Finish
<1>18. CASE Refuse(r)
  BY <1>18, LeaveUntouched, <1>2 DEF Refuse
<1>19. CASE ResumeGet(r)
  <2>1. CASE Leave(r)
    BY <2>1, LeaveUntouched, <1>2
  <2>2. CASE ~ Leave(r)
    <3>1. PICK label \in {"resume_start", "resume_event"} :
             Read(r, {WorkflowRow}) /\ Goto(r, label) /\ UNCHANGED <<tgt, pend, held>>
      BY <1>19, <2>2 DEF ResumeGet
    <3>2. Untouched(r) /\ pc'[r] \in {"resume_start", "resume_event"}
      BY <3>1, ReadUntouched
    <3>. QED
      BY <3>2, <1>3 DEF AtStep, Locking, Deciding, Calling, Called
  <2>. QED
    BY <2>1, <2>2
<1>20. CASE ResumeStart(r)
  BY <1>20, ContinueUntouched, <1>3 DEF AtStep, Locking, Deciding, Calling, Called, ResumeStart
<1>21. CASE ResumeEvent(r)
  BY <1>21, FlushUntouched, <1>3 DEF AtStep, Locking, Deciding, Calling, Called, ResumeEvent
<1>22. CASE CancelLock(r)
  <2>1. CASE Leave(r)
    BY <2>1, LeaveUntouched, <1>2
  <2>2. CASE ~ Leave(r)
    <3>1. Untouched(r) /\ pc'[r] = "cancel_steps"
      BY <1>22, <2>2 DEF CancelLock, TypeOK, Goto, Untouched
    <3>. QED
      BY <3>1, <1>3 DEF AtStep, Locking, Deciding, Calling, Called
  <2>. QED
    BY <2>1, <2>2
<1>23. CASE CancelSteps(r)
  BY <1>23, ReadUntouched, <1>3 DEF AtStep, Locking, Deciding, Calling, Called, CancelSteps
<1>24. CASE CancelApprovals(r)
  <2>1. Untouched(r) /\ pc'[r] = "cancel_commit"
    BY <1>24 DEF CancelApprovals, Flush, TypeOK, Goto, Untouched
  <2>. QED
    BY <2>1, <1>3 DEF AtStep, Locking, Deciding, Calling, Called
<1>25. CASE CancelCommit(r)
  BY <1>25, LeaveUntouched, <1>2 DEF CancelCommit
<1>26. CASE ApproveLock(r)
  <2>1. CASE Leave(r)
    BY <2>1, LeaveUntouched, <1>2
  <2>2. CASE ~ Leave(r)
    <3>1. Untouched(r) /\ pc'[r] = "approve_get" /\ tgt'[r] = tgt[r]
      BY <1>26, <2>2 DEF ApproveLock, TypeOK, Goto, Untouched
    <3>2. tgt[r] \in Steps
      BY <1>26 DEF ApproveLock, HasItsStep, Locking
    <3>. QED
      BY <3>1, <3>2, <1>5 DEF AtStep
  <2>. QED
    BY <2>1, <2>2
<1>27. CASE ApproveGet(r)
  <2>1. Untouched(r) /\ pc'[r] = "approve_steps" /\ tgt'[r] = tgt[r]
    BY <1>27, ReadUntouched DEF ApproveGet
  <2>2. tgt[r] \in Steps
    BY <1>27 DEF ApproveGet, HasItsStep, Deciding, Calling
  <2>. QED
    BY <2>1, <2>2, <1>5 DEF AtStep
<1>28. CASE ApproveSteps(r)
  <2>1. CASE Leave(r)
    BY <2>1, LeaveUntouched, <1>2
  <2>2. CASE ~ Leave(r)
    <3>1. Untouched(r) /\ pc'[r] = "approve_commit" /\ tgt'[r] = tgt[r]
      BY <1>28, <2>2, ReadUntouched DEF ApproveSteps
    <3>2. tgt[r] \in Steps
      BY <1>28 DEF ApproveSteps, HasItsStep, Deciding, Calling
    <3>. QED
      BY <3>1, <3>2, <1>5 DEF AtStep
  <2>. QED
    BY <2>1, <2>2
<1>29. CASE ApproveCommit(r)
  <2>1. Untouched(r) /\ pc'[r] = "call_get" /\ tgt'[r] = tgt[r]
    BY <1>29, ContinueUntouched DEF ApproveCommit
  <2>2. tgt[r] \in Steps
    BY <1>29 DEF ApproveCommit, HasItsStep, Deciding
  <2>. QED
    BY <2>1, <2>2, <1>5 DEF AtStep
<1>30. CASE CallGet(r)
  <2>1. CASE Leave(r)
    BY <2>1, LeaveUntouched, <1>2
  <2>2. CASE ~ Leave(r)
    <3>1. Untouched(r) /\ pc'[r] = "call_steps" /\ tgt'[r] = tgt[r]
      BY <1>30, <2>2, ReadUntouched DEF CallGet
    <3>2. tgt[r] \in Steps
      BY <1>30 DEF CallGet, HasItsStep, Deciding, Calling
    <3>. QED
      BY <3>1, <3>2, <1>5 DEF AtStep
  <2>. QED
    BY <2>1, <2>2
<1>31. CASE CallSteps(r)
  <2>1. CASE Leave(r)
    BY <2>1, LeaveUntouched, <1>2
  <2>2. CASE ~ Leave(r)
    <3>1. Untouched(r) /\ pc'[r] = "call" /\ tgt'[r] = tgt[r]
      BY <1>31, <2>2, ReadUntouched DEF CallSteps
    <3>2. tgt[r] \in Steps
      BY <1>31 DEF CallSteps, HasItsStep, Deciding, Calling
    <3>. QED
      BY <3>1, <3>2, <1>5 DEF AtStep
  <2>. QED
    BY <2>1, <2>2
<1>32. CASE Call(r)
  <2>1. PICK label \in {"call_save", "call_fail"} : Goto(r, label)
    BY <1>32 DEF Call
  <2>2. Untouched(r) /\ pc'[r] = label /\ tgt'[r] = tgt[r]
    BY <1>32, <2>1, GotoUntouched DEF Call
  <2>3. tgt[r] \in Steps
    BY <1>32 DEF Call, HasItsStep, Calling
  <2>. QED
    BY <2>1, <2>2, <2>3, <1>5 DEF AtStep
<1>33. CASE CallDenied(r)
  <2>1. Untouched(r) /\ pc'[r] = "call_fail" /\ tgt'[r] = tgt[r]
    BY <1>33, GotoUntouched DEF CallDenied
  <2>2. tgt[r] \in Steps
    BY <1>33 DEF CallDenied, HasItsStep, Calling
  <2>. QED
    BY <2>1, <2>2, <1>5 DEF AtStep
<1>34. CASE CallSave(r)
  BY <1>34, ContinueUntouched, <1>3 DEF AtStep, Locking, Deciding, Calling, Called, CallSave
<1>35. CASE CallFail(r)
  BY <1>35, LeaveUntouched, <1>2 DEF CallFail
<1>36. CASE RejectLock(r)
  <2>1. CASE Leave(r)
    BY <2>1, LeaveUntouched, <1>2
  <2>2. CASE ~ Leave(r)
    <3>1. Untouched(r) /\ pc'[r] = "reject_get" /\ tgt'[r] = tgt[r]
      BY <1>36, <2>2 DEF RejectLock, TypeOK, Goto, Untouched
    <3>2. tgt[r] \in Steps
      BY <1>36 DEF RejectLock, HasItsStep, Locking
    <3>. QED
      BY <3>1, <3>2, <1>5 DEF AtStep
  <2>. QED
    BY <2>1, <2>2
<1>37. CASE RejectGet(r)
  <2>1. Untouched(r) /\ pc'[r] = "reject_steps" /\ tgt'[r] = tgt[r]
    BY <1>37, ReadUntouched DEF RejectGet
  <2>2. tgt[r] \in Steps
    BY <1>37 DEF RejectGet, HasItsStep, Deciding, Calling
  <2>. QED
    BY <2>1, <2>2, <1>5 DEF AtStep
<1>38. CASE RejectSteps(r)
  <2>1. Untouched(r) /\ pc'[r] = "reject_commit" /\ tgt'[r] = tgt[r]
    BY <1>38, ReadUntouched DEF RejectSteps
  <2>2. tgt[r] \in Steps
    BY <1>38 DEF RejectSteps, HasItsStep, Deciding, Calling
  <2>. QED
    BY <2>1, <2>2, <1>5 DEF AtStep
<1>39. CASE RejectCommit(r)
  BY <1>39, LeaveUntouched, <1>2 DEF RejectCommit
<1>40. CASE ExecRaises(r)
  BY <1>40, LeaveUntouched, <1>2 DEF ExecRaises
<1>. QED
  BY <1>6, <1>7, <1>8, <1>9, <1>10, <1>11, <1>12, <1>13, <1>14, <1>15, <1>16,
     <1>17, <1>18, <1>19, <1>20, <1>21, <1>22, <1>23, <1>24, <1>25, <1>26,
     <1>27, <1>28, <1>29, <1>30, <1>31, <1>32, <1>33, <1>34, <1>35, <1>36,
     <1>37, <1>38, <1>39, <1>40
     DEF Handle, RunStep, ResumeStep, CancelStep, ApproveStep, CallStep, RejectStep

-----------------------------------------------------------------------------
(* The type invariant.                                                     *)

StepInv == \A r \in Requests : HasItsStep(r)

\* The arrival of a request preserves it.
LEMMA PostType ==
  ASSUME TypeOK, StepInv, NEW r \in Requests, Post(r)
  PROVE  TypeOK' /\ Untouched(r) /\ HasItsStep(r)' /\ UNCHANGED <<ap, lost, calls>>
<1>1. PICK label \in {"run_get", "resume_get", "cancel_lock",
                      "approve_lock", "reject_lock"}, s \in 0..N :
        /\ Arrive(r, label, s)
        /\ label \in Locking => s \in Steps
  <2>1. \A s \in Steps : s \in 0..N
    BY DEF Steps
  <2>2. 0 \in 0..N
    OBVIOUS
  <2>. QED
    BY <2>1, <2>2 DEF Post, PostRun, PostResume, PostCancel, PostApprove,
                      PostReject, Locking
<1>2. /\ pc' \in [Requests -> Labels]
      /\ pc'[r] = label
  BY <1>1 DEF Arrive, Goto, TypeOK, Labels
<1>3. /\ tgt' \in [Requests -> 0..N]
      /\ tgt'[r] = s
  BY <1>1 DEF Arrive, TypeOK
<1>4. begun' \in 0..MaxRequests
  BY <1>1 DEF Arrive, TypeOK
<1>8. tries' \in [Requests -> [Steps -> 0..ExecCap]]
  <2>1. [q \in Steps |-> 0] \in [Steps -> 0..ExecCap]
    BY EngineAssumption
  <2>. QED
    BY <1>1, <2>1 DEF Arrive, TypeOK
<1>5. TypeOK'
  BY <1>1, <1>2, <1>3, <1>4, <1>8 DEF Arrive, TypeOK
<1>6. Untouched(r)
  BY <1>1 DEF Arrive, Goto, TypeOK, Untouched
<1>7. HasItsStep(r)'
  BY <1>1, <1>2, <1>3 DEF HasItsStep, AtStep, Locking, Deciding, Calling, Called
<1>. QED
  BY <1>1, <1>5, <1>6, <1>7 DEF Arrive

\* A request that another one's step does not touch keeps its step.
LEMMA UntouchedKeepsStep ==
  ASSUME StepInv, NEW r \in Requests, Untouched(r), HasItsStep(r)'
  PROVE  StepInv'
<1>1. ASSUME NEW q \in Requests \ {r} PROVE HasItsStep(q)'
  BY <1>1 DEF StepInv, Untouched, HasItsStep, Current
<1>. QED
  BY <1>1 DEF StepInv

\* The type invariant, with StepInv, is inductive.
LEMMA TypeInductive ==
  ASSUME TypeOK, StepInv, [Next]_vars
  PROVE  TypeOK' /\ StepInv'
<1>1. ASSUME NEW r \in Requests, Post(r)
      PROVE  TypeOK' /\ StepInv'
  BY <1>1, PostType, UntouchedKeepsStep
<1>2. ASSUME NEW r \in Requests, Handle(r)
      PROVE  TypeOK' /\ StepInv'
  BY <1>2, HandleType, HandleKeepsStep, UntouchedKeepsStep DEF StepInv
<1>3. ASSUME NEW r \in Requests, AbortDeadlocked(r) \/ LoseSession(r)
      PROVE  TypeOK' /\ StepInv'
  <2>1. /\ Leave(r) /\ UNCHANGED <<db, ap, due, begun, tries, calls>>
        /\ lost' = lost \/ lost' = lost \cup {tgt[r]}
    BY <1>3 DEF AbortDeadlocked, LoseSession, history
  <2>2. lost' \subseteq 0..N
    <3>1. lost \subseteq 0..N /\ tgt[r] \in 0..N
      BY DEF TypeOK, SessionOK
    <3>. QED
      BY <2>1, <3>1
  <2>3. TypeOK'
    BY <2>2, <2>1, LeaveType DEF TypeOK, SessionOK
  <2>4. Untouched(r) /\ pc'[r] = "idle"
    BY <2>1, LeaveUntouched
  <2>5. HasItsStep(r)'
    BY <2>4 DEF HasItsStep, AtStep, Locking, Deciding, Calling, Called
  <2>. QED
    BY <2>3, <2>4, <2>5, UntouchedKeepsStep
<1>4. ASSUME NEW s \in Steps, PassDue(s)
      PROVE  TypeOK' /\ StepInv'
  <2>1. TypeOK'
    BY <1>4 DEF PassDue, TypeOK, session, history
  <2>2. StepInv'
    BY <1>4 DEF PassDue, StepInv, HasItsStep, Current, session
  <2>. QED
    BY <2>1, <2>2
<1>5. CASE UNCHANGED vars
  <2>1. TypeOK'
    BY <1>5 DEF vars, TypeOK, session, history
  <2>2. StepInv'
    BY <1>5 DEF vars, StepInv, HasItsStep, Current, session
  <2>. QED
    BY <2>1, <2>2
<1>. QED
  BY <1>1, <1>2, <1>3, <1>4, <1>5 DEF Next, AllAnswered

\* The initial state is well typed and no request is at work.
LEMMA TypeInit ==
  ASSUME Init
  PROVE  TypeOK /\ StepInv
<1>1. TypeOK
  BY CreatedType DEF Init, TypeOK, Labels
<1>2. StepInv
  BY DEF Init, StepInv, HasItsStep, AtStep, Locking, Deciding, Calling, Called
<1>. QED
  BY <1>1, <1>2

\* Every reachable state is well typed: rows hold statuses of the vocabularies,
\* and handlers that work on a step always have one to work on.
THEOREM TypeCorrect == Spec => []TypeOK
<1>1. Init => TypeOK /\ StepInv
  BY TypeInit
<1>2. (TypeOK /\ StepInv) /\ [Next]_vars => (TypeOK /\ StepInv)'
  BY TypeInductive
<1>. QED
  BY <1>1, <1>2, PTL DEF Spec

-----------------------------------------------------------------------------
(* Effects of a step of request r.                                         *)

AtWork == Deciding \cup Calling \cup Cancelling

\* The request neither decides, nor calls, nor cancels after it.
Rests(r) == UNCHANGED <<ap, calls>> /\ pc'[r] \notin AtWork

\* The request goes on with the decision, the call or the cancellation.
Proceeds(r) ==
  /\ UNCHANGED <<ap, calls>>
  /\ tgt'[r] = tgt[r]
  /\ held[r] \subseteq held'[r]
  /\ \/ pc[r] \in Deciding /\ pc'[r] \in Deciding
     \/ pc[r] \in Calling /\ pc'[r] \in Calling
     \/ pc[r] \in Cancelling /\ pc'[r] \in Cancelling \ {"cancel_commit"}

\* It has locked a pending approval.
Locks(r) ==
  /\ UNCHANGED <<ap, calls>>
  /\ Granted(r)
  /\ pc[r] \in Locking
  /\ pc'[r] \in Deciding
  /\ tgt'[r] = tgt[r]
  /\ ap[tgt[r]] = "pending"
  /\ <<"update", ApprovalRow(tgt[r])>> \in held'[r]

\* It has locked the workflow in order to cancel it.
StartsToCancel(r) ==
  /\ UNCHANGED <<ap, calls>>
  /\ pc'[r] = "cancel_steps"
  /\ <<"update", WorkflowRow>> \in held'[r]

\* Its cancellation has found the pending approvals.
FindsPending(r) ==
  /\ UNCHANGED <<ap, calls>>
  /\ pc[r] \in Cancelling
  /\ pc'[r] = "cancel_commit"
  /\ held[r] \subseteq held'[r]
  /\ pend'[r] = {s \in Steps : ap[s] = "pending"}

\* Its cancellation is over.
CancelsPending(r) ==
  /\ pc[r] = "cancel_commit"
  /\ Granted(r)
  /\ pc'[r] = "idle"
  /\ ap' = [s \in Steps |-> IF s \in pend[r] THEN "cancelled" ELSE ap[s]]
  /\ UNCHANGED calls

\* It has asked for the approval of step s.
Asks(r, s) ==
  /\ s \in Consequential
  /\ pc'[r] = "idle"
  /\ ap[s] = "none"
  /\ ap' = [ap EXCEPT ![s] = "pending"]
  /\ UNCHANGED calls

\* It has found its pending approval expired.
Expires(r) ==
  /\ pc[r] = "approve_lock"
  /\ Granted(r)
  /\ pc'[r] = "idle"
  /\ ap[tgt[r]] = "pending"
  /\ ap' = [ap EXCEPT ![tgt[r]] = "expired"]
  /\ UNCHANGED calls

\* It has found the action of its pending approval changed.
Voids(r) ==
  /\ pc[r] \in Deciding
  /\ pc'[r] = "idle"
  /\ ap' = [ap EXCEPT ![tgt[r]] = "cancelled"]
  /\ UNCHANGED calls

\* It has approved, or rejected.
Approves(r) ==
  /\ pc[r] = "approve_commit"
  /\ Granted(r)
  /\ pc'[r] = "call_get"
  /\ tgt'[r] = tgt[r]
  /\ ap' = [ap EXCEPT ![tgt[r]] = "approved"]
  /\ UNCHANGED calls

Rejects(r) ==
  /\ pc[r] = "reject_commit"
  /\ Granted(r)
  /\ pc'[r] = "idle"
  /\ ap' = [ap EXCEPT ![tgt[r]] = "rejected"]
  /\ UNCHANGED calls

\* It has executed the operation of its step.
Executes(r) ==
  /\ pc[r] = "call"
  /\ pc'[r] \in Called
  /\ calls' = [calls EXCEPT ![tgt[r]] = @ + 1]
  /\ UNCHANGED ap

Effect(r) ==
  \/ Rests(r) \/ Proceeds(r) \/ Locks(r)
  \/ StartsToCancel(r) \/ FindsPending(r) \/ CancelsPending(r)
  \/ \E s \in Steps : Asks(r, s)
  \/ Expires(r) \/ Voids(r) \/ Approves(r) \/ Rejects(r) \/ Executes(r)

-----------------------------------------------------------------------------
(* Every step has one of these effects.                                    *)

\* A request that has left is at no statement.
LEMMA LeaveRests ==
  ASSUME TypeOK, NEW r \in Requests, Leave(r), UNCHANGED <<ap, calls>>
  PROVE  Rests(r)
BY LeaveUntouched DEF Rests, AtWork, Deciding, Calling, Cancelling

\* Every handler step has one of the effects.
LEMMA HandleEffect ==
  ASSUME TypeOK, NEW r \in Requests, HasItsStep(r), Handle(r)
  PROVE  Effect(r)
<1>1. CASE RunGet(r)
  <2>1. CASE Leave(r)
    BY <1>1, <2>1, LeaveRests DEF RunGet, history, Effect
  <2>2. CASE ~ Leave(r)
    <3>1. PICK label \in {"run_start", "run_steps"} :
             Read(r, {WorkflowRow}) /\ Goto(r, label) /\ UNCHANGED <<tgt, pend, held>>
      BY <1>1, <2>2 DEF RunGet
    <3>2. pc'[r] \in {"run_start", "run_steps"}
      BY <3>1, ReadUntouched
    <3>. QED
      BY <1>1, <3>2 DEF RunGet, history, Effect, Rests, AtWork, Deciding, Calling, Cancelling
  <2>. QED
    BY <2>1, <2>2
<1>2. CASE RunStart(r)
  BY <1>2, FlushUntouched DEF RunStart, history, Effect, Rests, AtWork, Deciding, Calling, Cancelling
<1>3. CASE RunSteps(r)
  <2>1. pc'[r] \in {"finish", "step_start"}
    BY <1>3, ReadUntouched DEF RunSteps, Advance
  <2>. QED
    BY <1>3, <2>1 DEF RunSteps, history, Effect, Rests, AtWork, Deciding, Calling, Cancelling
<1>4. CASE StepStart(r)
  <2>1. pc'[r] \in {"fail", "gate", "exec"}
    BY <1>4, FlushUntouched DEF StepStart
  <2>. QED
    BY <1>4, <2>1 DEF StepStart, history, Effect, Rests, AtWork, Deciding, Calling, Cancelling
<1>5. CASE ExecSucceeds(r)
  BY <1>5, GotoUntouched DEF ExecSucceeds, Effect, Rests, AtWork, Deciding, Calling, Cancelling
<1>6. CASE ExecFails(r)
  <2>1. PICK label \in {"retry", "fail"} : Goto(r, label)
    BY <1>6 DEF ExecFails
  <2>. QED
    BY <1>6, <2>1, GotoUntouched DEF ExecFails, Effect, Rests, AtWork, Deciding, Calling, Cancelling
<1>7. CASE Retry(r)
  BY <1>7, FlushUntouched DEF Retry, history, Effect, Rests, AtWork, Deciding, Calling, Cancelling
<1>8. CASE SaveStep(r)
  <2>1. pc'[r] \in {"finish", "step_start"}
    BY <1>8, FlushUntouched DEF SaveStep, Advance
  <2>. QED
    BY <1>8, <2>1 DEF SaveStep, history, Effect, Rests, AtWork, Deciding, Calling, Cancelling
<1>9. CASE FailStep(r)
  BY <1>9, LeaveRests DEF FailStep, history, Effect
<1>10. CASE Gate(r)
  <2>1. Current(r) \in Consequential /\ Current(r) \in Steps
    BY <1>10, FirstIncompleteIsStep DEF Gate, HasItsStep, AtStep, Current
  <2>2. Asks(r, Current(r))
    BY <1>10, <2>1, LeaveUntouched DEF Gate, Asks, history
  <2>. QED
    BY <2>1, <2>2 DEF Effect
<1>11. CASE GateTaken(r)
  BY <1>11, LeaveRests DEF GateTaken, history, Effect
<1>12. CASE Finish(r)
  BY <1>12, LeaveRests DEF Finish, history, Effect
<1>13. CASE Refuse(r)
  BY <1>13, LeaveRests DEF Refuse, history, Effect
<1>14. CASE ResumeGet(r)
  <2>1. CASE Leave(r)
    BY <1>14, <2>1, LeaveRests DEF ResumeGet, history, Effect
  <2>2. CASE ~ Leave(r)
    <3>1. PICK label \in {"resume_start", "resume_event"} :
             Read(r, {WorkflowRow}) /\ Goto(r, label) /\ UNCHANGED <<tgt, pend, held>>
      BY <1>14, <2>2 DEF ResumeGet
    <3>2. pc'[r] \in {"resume_start", "resume_event"}
      BY <3>1, ReadUntouched
    <3>. QED
      BY <1>14, <3>2 DEF ResumeGet, history, Effect, Rests, AtWork, Deciding, Calling, Cancelling
  <2>. QED
    BY <2>1, <2>2
<1>15. CASE ResumeStart(r)
  BY <1>15, ContinueUntouched DEF ResumeStart, history, Effect, Rests, AtWork, Deciding, Calling, Cancelling
<1>16. CASE ResumeEvent(r)
  BY <1>16, FlushUntouched DEF ResumeEvent, history, Effect, Rests, AtWork, Deciding, Calling, Cancelling
<1>17. CASE CancelLock(r)
  <2>1. CASE Leave(r)
    BY <1>17, <2>1, LeaveRests DEF CancelLock, history, Effect
  <2>2. CASE ~ Leave(r)
    <3>1. /\ Goto(r, "cancel_steps")
          /\ held' = [held EXCEPT ![r] = {<<"update", WorkflowRow>>}]
      BY <1>17, <2>2 DEF CancelLock
    <3>2. pc'[r] = "cancel_steps" /\ <<"update", WorkflowRow>> \in held'[r]
      BY <3>1 DEF Goto, TypeOK
    <3>. QED
      BY <1>17, <3>2 DEF CancelLock, history, Effect, StartsToCancel
  <2>. QED
    BY <2>1, <2>2
<1>18. CASE CancelSteps(r)
  BY <1>18, ReadUntouched DEF CancelSteps, history, Effect, Proceeds, Cancelling
<1>19. CASE CancelApprovals(r)
  <2>1. /\ pc'[r] = "cancel_commit"
        /\ held[r] \subseteq held'[r]
        /\ pend'[r] = {s \in Steps : ap[s] = "pending"}
    BY <1>19 DEF CancelApprovals, Flush, Goto, TypeOK
  <2>. QED
    BY <1>19, <2>1 DEF CancelApprovals, history, Effect, FindsPending, Cancelling
<1>20. CASE CancelCommit(r)
  BY <1>20, LeaveUntouched
     DEF CancelCommit, Persist, history, Effect, CancelsPending
<1>21. CASE ApproveLock(r)
  <2>. DEFINE ok == ap[tgt[r]] = "pending" /\ tgt[r] \notin due
  <2>1. CASE ok
    <3>1. /\ Goto(r, "approve_get")
          /\ held' = [held EXCEPT ![r] = Wanted(r)]
          /\ UNCHANGED <<ap, tgt, calls>>
      BY <1>21, <2>1 DEF ApproveLock, history
    <3>2. pc'[r] = "approve_get" /\ held'[r] = Wanted(r)
      BY <3>1 DEF Goto, TypeOK
    <3>3. <<"update", ApprovalRow(tgt[r])>> \in Wanted(r)
      BY <1>21 DEF ApproveLock, Wanted
    <3>. QED
      BY <1>21, <2>1, <3>1, <3>2, <3>3
         DEF ApproveLock, Effect, Locks, Locking, Deciding
  <2>2. CASE ~ ok /\ ap[tgt[r]] = "pending"
    <3>1. /\ Leave(r)
          /\ ap' = [ap EXCEPT ![tgt[r]] = "expired"]
          /\ UNCHANGED calls
      BY <1>21, <2>2 DEF ApproveLock, history
    <3>. QED
      BY <1>21, <2>2, <3>1, LeaveUntouched DEF ApproveLock, Effect, Expires
  <2>3. CASE ap[tgt[r]] # "pending"
    <3>1. /\ Leave(r)
          /\ ap' = [ap EXCEPT ![tgt[r]] = ap[tgt[r]]]
          /\ UNCHANGED calls
      BY <1>21, <2>3 DEF ApproveLock, history
    <3>. QED
      BY <3>1, LeaveRests DEF TypeOK, Effect
  <2>. QED
    BY <2>1, <2>2, <2>3
<1>22. CASE ApproveGet(r)
  BY <1>22, ReadUntouched DEF ApproveGet, history, Effect, Proceeds, Deciding
<1>23. CASE ApproveSteps(r)
  <2>1. CASE Actionable(r) /\ tgt[r] \notin Redacted
    BY <1>23, <2>1, ReadUntouched DEF ApproveSteps, history, Effect, Proceeds, Deciding
  <2>2. CASE Actionable(r) /\ tgt[r] \in Redacted
    <3>1. /\ Leave(r)
          /\ ap' = [ap EXCEPT ![tgt[r]] = "cancelled"]
          /\ UNCHANGED calls
      BY <1>23, <2>2 DEF ApproveSteps, history
    <3>. QED
      BY <1>23, <3>1, LeaveUntouched DEF ApproveSteps, Effect, Voids, Deciding
  <2>3. CASE ~ Actionable(r)
    <3>1. /\ Leave(r)
          /\ ap' = [ap EXCEPT ![tgt[r]] = ap[tgt[r]]]
          /\ UNCHANGED calls
      BY <1>23, <2>3 DEF ApproveSteps, history
    <3>. QED
      BY <3>1, LeaveRests DEF TypeOK, Effect
  <2>. QED
    BY <2>1, <2>2, <2>3
<1>24. CASE ApproveCommit(r)
  BY <1>24, ContinueUntouched
     DEF ApproveCommit, Persist, history, Effect, Approves
<1>25. CASE CallGet(r)
  <2>1. CASE Leave(r)
    BY <1>25, <2>1, LeaveRests DEF CallGet, history, Effect
  <2>2. CASE ~ Leave(r)
    BY <1>25, <2>2, ReadUntouched DEF CallGet, history, Effect, Proceeds, Calling
  <2>. QED
    BY <2>1, <2>2
<1>26. CASE CallSteps(r)
  <2>1. CASE Leave(r)
    BY <1>26, <2>1, LeaveRests DEF CallSteps, history, Effect
  <2>2. CASE ~ Leave(r)
    BY <1>26, <2>2, ReadUntouched DEF CallSteps, history, Effect, Proceeds, Calling
  <2>. QED
    BY <2>1, <2>2
<1>27. CASE Call(r)
  <2>1. PICK label \in {"call_save", "call_fail"} : Goto(r, label)
    BY <1>27 DEF Call
  <2>2. pc'[r] = label
    BY <1>27, <2>1, GotoUntouched DEF Call
  <2>. QED
    BY <1>27, <2>2 DEF Call, Effect, Executes, Called
<1>28. CASE CallDenied(r)
  BY <1>28, GotoUntouched DEF CallDenied, history, Effect, Rests, AtWork, Deciding, Calling, Cancelling
<1>29. CASE CallSave(r)
  BY <1>29, ContinueUntouched DEF CallSave, history, Effect, Rests, AtWork, Deciding, Calling, Cancelling
<1>30. CASE CallFail(r)
  BY <1>30, LeaveRests DEF CallFail, history, Effect
<1>31. CASE RejectLock(r)
  <2>1. CASE Leave(r)
    BY <1>31, <2>1, LeaveRests DEF RejectLock, history, Effect
  <2>2. CASE ~ Leave(r)
    <3>1. /\ Goto(r, "reject_get")
          /\ held' = [held EXCEPT ![r] = Wanted(r)]
          /\ UNCHANGED <<ap, tgt, calls>>
      BY <1>31, <2>2 DEF RejectLock, history
    <3>2. pc'[r] = "reject_get" /\ held'[r] = Wanted(r)
      BY <3>1 DEF Goto, TypeOK
    <3>3. <<"update", ApprovalRow(tgt[r])>> \in Wanted(r)
      BY <1>31 DEF RejectLock, Wanted
    <3>. QED
      BY <1>31, <2>2, <3>1, <3>2, <3>3
         DEF RejectLock, Effect, Locks, Locking, Deciding
  <2>. QED
    BY <2>1, <2>2
<1>32. CASE RejectGet(r)
  BY <1>32, ReadUntouched DEF RejectGet, history, Effect, Proceeds, Deciding
<1>33. CASE RejectSteps(r)
  BY <1>33, ReadUntouched DEF RejectSteps, history, Effect, Proceeds, Deciding
<1>34. CASE RejectCommit(r)
  BY <1>34, LeaveUntouched
     DEF RejectCommit, Persist, history, Effect, Rejects
<1>35. CASE ExecRaises(r)
  BY <1>35, LeaveRests DEF ExecRaises, history, Effect
<1>. QED
  BY <1>1, <1>2, <1>3, <1>4, <1>5, <1>6, <1>7, <1>8, <1>9, <1>10, <1>11,
     <1>12, <1>13, <1>14, <1>15, <1>16, <1>17, <1>18, <1>19, <1>20, <1>21,
     <1>22, <1>23, <1>24, <1>25, <1>26, <1>27, <1>28, <1>29, <1>30, <1>31,
     <1>32, <1>33, <1>34, <1>35
     DEF Handle, RunStep, ResumeStep, CancelStep, ApproveStep, CallStep, RejectStep

-----------------------------------------------------------------------------
(* What locks rule out.                                                    *)

\* A statement is not granted a lock on a row another session holds FOR UPDATE.
LEMMA UpdateExcludes ==
  ASSUME NEW q \in Requests, NEW r \in Requests, q # r, Granted(r),
         NEW x, <<"update", x>> \in held[q], NEW m
  PROVE  <<m, x>> \notin Wanted(r)
BY DEF Granted, Blocks, Obstructs, Conflicting

\* The locks that decisions and cancellations ask for.
LEMMA DecisionWants ==
  ASSUME NEW r \in Requests
  PROVE  /\ pc[r] \in Locking => <<"update", ApprovalRow(tgt[r])>> \in Wanted(r)
         /\ pc[r] \in {"approve_commit", "reject_commit"}
              => <<"key_share", WorkflowRow>> \in Wanted(r)
         /\ pc[r] = "cancel_commit"
              => \A s \in pend[r] : <<"no_key_update", ApprovalRow(s)>> \in Wanted(r)
BY DEF Wanted, Locking, RecordsEvent

-----------------------------------------------------------------------------
(* What a step of request r cannot do to another request q.                *)

\* While q decides an approval, only q changes it.
LEMMA DecidedAlone ==
  ASSUME TypeOK, GateInv, NEW r \in Requests, Effect(r),
         NEW q \in Requests, q # r, pc[q] \in Deciding
  PROVE  ap'[tgt[q]] = "pending"
<1>1. /\ ap[tgt[q]] = "pending"
      /\ <<"update", ApprovalRow(tgt[q])>> \in held[q]
      /\ tgt[q] \in Steps
  BY DEF GateInv, HoldsItsApproval, HasItsStep
<1>2. pc[r] \in Deciding => tgt[r] # tgt[q]
  BY DEF GateInv, Apart
<1>3. Granted(r) /\ pc[r] \in Locking => tgt[r] # tgt[q]
  BY <1>1, UpdateExcludes, DecisionWants
<1>4. Granted(r) /\ pc[r] = "cancel_commit" => tgt[q] \notin pend[r]
  BY <1>1, UpdateExcludes, DecisionWants
<1>5. CASE Rests(r) \/ Proceeds(r) \/ Locks(r) \/ StartsToCancel(r)
           \/ FindsPending(r) \/ Executes(r)
  BY <1>1, <1>5 DEF Rests, Proceeds, Locks, StartsToCancel, FindsPending, Executes
<1>6. CASE CancelsPending(r)
  BY <1>1, <1>4, <1>6 DEF CancelsPending
<1>7. CASE \E s \in Steps : Asks(r, s)
  BY <1>1, <1>7 DEF Asks, TypeOK
<1>8. CASE Expires(r)
  BY <1>1, <1>3, <1>8 DEF Expires, TypeOK, Locking
<1>9. CASE Voids(r) \/ Approves(r) \/ Rejects(r)
  BY <1>1, <1>2, <1>9 DEF Voids, Approves, Rejects, TypeOK, Deciding
<1>. QED
  BY <1>5, <1>6, <1>7, <1>8, <1>9 DEF Effect

\* While q holds the workflow to cancel it, nobody approves or rejects: the
\* event of a decision references the workflow row.
LEMMA CancelsAlone ==
  ASSUME TypeOK, GateInv, NEW r \in Requests, Effect(r),
         NEW q \in Requests, q # r, pc[q] = "cancel_commit", NEW s \in pend[q]
  PROVE  ap'[s] \in {"pending", "expired", "cancelled"}
<1>1. /\ ap[s] \in {"pending", "expired", "cancelled"}
      /\ <<"update", WorkflowRow>> \in held[q]
      /\ s \in Steps
  BY DEF GateInv, HoldsTheWorkflow, Cancelling, TypeOK
<1>2. ~ (Granted(r) /\ pc[r] \in {"approve_commit", "reject_commit"})
  BY <1>1, UpdateExcludes, DecisionWants
<1>3. CASE Rests(r) \/ Proceeds(r) \/ Locks(r) \/ StartsToCancel(r)
           \/ FindsPending(r) \/ Executes(r)
  BY <1>1, <1>3 DEF Rests, Proceeds, Locks, StartsToCancel, FindsPending, Executes
<1>4. CASE CancelsPending(r)
  BY <1>1, <1>4 DEF CancelsPending
<1>5. CASE \E t \in Steps : Asks(r, t)
  BY <1>1, <1>5 DEF Asks, TypeOK
<1>6. CASE Expires(r) \/ Voids(r)
  BY <1>1, <1>6 DEF Expires, Voids, TypeOK
<1>7. CASE Approves(r) \/ Rejects(r)
  BY <1>2, <1>7 DEF Approves, Rejects
<1>. QED
  BY <1>3, <1>4, <1>5, <1>6, <1>7 DEF Effect

\* A decision stays.
LEMMA DecisionStays ==
  ASSUME TypeOK, GateInv, NEW r \in Requests, Effect(r),
         NEW s \in Steps, ap[s] \in {"approved", "rejected", "cancelled"}
  PROVE  ap'[s] = ap[s]
<1>1. pc[r] \in Deciding => tgt[r] # s
  BY DEF GateInv, HoldsItsApproval
<1>2. CASE Rests(r) \/ Proceeds(r) \/ Locks(r) \/ StartsToCancel(r)
           \/ FindsPending(r) \/ Executes(r)
  BY <1>2 DEF Rests, Proceeds, Locks, StartsToCancel, FindsPending, Executes
<1>3. CASE CancelsPending(r)
  <2>1. s \in pend[r] => ap[s] \in {"pending", "expired", "cancelled"}
    BY <1>3 DEF CancelsPending, GateInv, HoldsTheWorkflow
  <2>. QED
    BY <1>3, <2>1 DEF CancelsPending
<1>4. CASE \E t \in Steps : Asks(r, t)
  BY <1>4 DEF Asks, TypeOK
<1>5. CASE Expires(r)
  BY <1>5 DEF Expires, TypeOK
<1>6. CASE Voids(r) \/ Approves(r) \/ Rejects(r)
  BY <1>1, <1>6 DEF Voids, Approves, Rejects, TypeOK, Deciding
<1>. QED
  BY <1>2, <1>3, <1>4, <1>5, <1>6 DEF Effect

\* An operation is executed only by the request its approval belongs to, and
\* for the first time.
LEMMA ExecutesOnce ==
  ASSUME TypeOK, GateInv, NEW r \in Requests, Effect(r), NEW s \in Steps,
         calls'[s] # calls[s]
  PROVE  /\ pc[r] \in Calling /\ s = tgt[r] /\ pc'[r] \in Called
         /\ ap[s] = "approved" /\ calls[s] = 0 /\ calls'[s] = 1
<1>1. Executes(r)
  BY DEF Effect, Rests, Proceeds, Locks, StartsToCancel, FindsPending, CancelsPending,
         Asks, Expires, Voids, Approves, Rejects
<1>2. pc[r] \in Calling /\ ap[tgt[r]] = "approved" /\ calls[tgt[r]] = 0
  BY <1>1 DEF Executes, Calling, GateInv, HasUnusedApproval
<1>3. s = tgt[r]
  BY <1>1 DEF Executes, TypeOK
<1>. QED
  BY <1>1, <1>2, <1>3 DEF Executes, TypeOK

-----------------------------------------------------------------------------
(* The invariant is preserved.                                             *)

\* For the request that takes the step.
LEMMA OwnPartKept ==
  ASSUME TypeOK, GateInv, NEW r \in Requests, Effect(r)
  PROVE  HoldsItsApproval(r)' /\ HasUnusedApproval(r)' /\ HoldsTheWorkflow(r)'
<1>1. HoldsItsApproval(r) /\ HasUnusedApproval(r) /\ HoldsTheWorkflow(r)
      /\ HasItsStep(r)
  BY DEF GateInv
<1>2. ASSUME pc'[r] \notin AtWork
      PROVE  HoldsItsApproval(r)' /\ HasUnusedApproval(r)' /\ HoldsTheWorkflow(r)'
  BY <1>2 DEF AtWork, HoldsItsApproval, HasUnusedApproval, HoldsTheWorkflow, Cancelling
<1>3. CASE Rests(r)
  BY <1>2, <1>3 DEF Rests
<1>4. CASE Proceeds(r)
  BY <1>1, <1>4 DEF Proceeds, HoldsItsApproval, HasUnusedApproval, HoldsTheWorkflow,
                    Deciding, Calling, Cancelling
<1>5. CASE Locks(r)
  BY <1>5 DEF Locks, HoldsItsApproval, HasUnusedApproval, HoldsTheWorkflow,
              Deciding, Calling, Cancelling
<1>6. CASE StartsToCancel(r)
  BY <1>6 DEF StartsToCancel, HoldsItsApproval, HasUnusedApproval, HoldsTheWorkflow,
              Deciding, Calling
<1>7. CASE FindsPending(r)
  BY <1>1, <1>7 DEF FindsPending, HoldsItsApproval, HasUnusedApproval,
                    HoldsTheWorkflow, Deciding, Calling, Cancelling
<1>8. CASE Approves(r)
  <2>1. ap[tgt[r]] = "pending" /\ tgt[r] \in Steps
    BY <1>1, <1>8 DEF Approves, HoldsItsApproval, HasItsStep, Deciding
  <2>2. calls[tgt[r]] = 0
    <3>1. calls[tgt[r]] \in Nat
      BY <2>1 DEF TypeOK
    <3>2. ~ (calls[tgt[r]] > 0)
      BY <2>1 DEF GateInv, ActedOnlyOnApproval
    <3>. QED
      BY <3>1, <3>2
  <2>3. ap'[tgt'[r]] = "approved" /\ calls'[tgt'[r]] = 0 /\ pc'[r] = "call_get"
    BY <1>8, <2>1, <2>2 DEF Approves, TypeOK
  <2>. QED
    BY <2>3 DEF HoldsItsApproval, HasUnusedApproval, HoldsTheWorkflow,
                Deciding, Calling, Cancelling
<1>9. CASE \/ CancelsPending(r) \/ (\E s \in Steps : Asks(r, s)) \/ Expires(r)
           \/ Voids(r) \/ Rejects(r) \/ Executes(r)
  <2>1. pc'[r] \notin AtWork
    BY <1>9 DEF CancelsPending, Asks, Expires, Voids, Rejects, Executes, AtWork, Called,
                Deciding, Calling, Cancelling
  <2>. QED
    BY <1>2, <2>1
<1>. QED
  BY <1>3, <1>4, <1>5, <1>6, <1>7, <1>8, <1>9 DEF Effect

\* For the others.
LEMMA OtherPartsKept ==
  ASSUME TypeOK, GateInv, NEW r \in Requests, Effect(r), Untouched(r),
         NEW q \in Requests, q # r
  PROVE  HoldsItsApproval(q)' /\ HasUnusedApproval(q)' /\ HoldsTheWorkflow(q)'
<1>1. pc'[q] = pc[q] /\ tgt'[q] = tgt[q] /\ pend'[q] = pend[q] /\ held'[q] = held[q]
  BY DEF Untouched
<1>2. HoldsItsApproval(q)'
  BY <1>1, DecidedAlone DEF HoldsItsApproval, GateInv
<1>3. HasUnusedApproval(q)'
  <2>. SUFFICES ASSUME pc[q] \in Calling
                PROVE  ap'[tgt[q]] = "approved" /\ calls'[tgt[q]] = 0
    BY <1>1 DEF HasUnusedApproval
  <2>1. tgt[q] \in Steps /\ ap[tgt[q]] = "approved" /\ calls[tgt[q]] = 0
    BY DEF GateInv, HasUnusedApproval, HasItsStep
  <2>2. pc[r] \in Calling => tgt[r] # tgt[q]
    BY DEF GateInv, Apart
  <2>. QED
    BY <2>1, <2>2, DecisionStays, ExecutesOnce
<1>4. HoldsTheWorkflow(q)'
  BY <1>1, CancelsAlone DEF HoldsTheWorkflow, GateInv
<1>. QED
  BY <1>2, <1>3, <1>4

\* No two requests come to decide, or to act on, the same approval.
LEMMA ApartKept ==
  ASSUME TypeOK, GateInv, NEW r \in Requests, Effect(r), Untouched(r),
         NEW q \in Requests, q # r
  PROVE  Apart(q, r)' /\ Apart(r, q)'
<1>1. pc'[q] = pc[q] /\ tgt'[q] = tgt[q]
  BY DEF Untouched
<1>2. Apart(q, r)
  BY DEF GateInv
<1>3. CASE pc'[r] \notin Deciding \cup Calling
  BY <1>3 DEF Apart
<1>4. CASE Proceeds(r)
  BY <1>1, <1>2, <1>4 DEF Proceeds, Apart, Deciding, Calling, Cancelling
<1>5. CASE Locks(r)
  <2>1. pc[q] \in Deciding => <<"update", ApprovalRow(tgt[q])>> \in held[q]
    BY DEF GateInv, HoldsItsApproval
  <2>2. pc[q] \in Deciding => tgt[q] # tgt[r]
    BY <1>5, <2>1, UpdateExcludes, DecisionWants DEF Locks
  <2>. QED
    BY <1>1, <1>5, <2>2 DEF Locks, Apart, Deciding, Calling
<1>6. CASE Approves(r)
  <2>1. ap[tgt[r]] = "pending"
    BY <1>6 DEF Approves, GateInv, HoldsItsApproval, Deciding
  <2>2. pc[q] \in Calling => ap[tgt[q]] = "approved"
    BY DEF GateInv, HasUnusedApproval
  <2>. QED
    BY <1>1, <1>6, <2>1, <2>2 DEF Approves, Apart, Deciding, Calling
<1>7. CASE \/ Rests(r) \/ StartsToCancel(r) \/ FindsPending(r) \/ CancelsPending(r)
           \/ (\E s \in Steps : Asks(r, s)) \/ Expires(r)
           \/ Voids(r) \/ Rejects(r) \/ Executes(r)
  BY <1>3, <1>7 DEF Rests, AtWork, StartsToCancel, FindsPending, CancelsPending, Asks,
                    Expires, Voids, Rejects, Executes, Deciding, Calling, Called
<1>. QED
  BY <1>4, <1>5, <1>6, <1>7 DEF Effect

\* The histories stay consistent with the approvals.
LEMMA HistoryKept ==
  ASSUME TypeOK, GateInv, NEW r \in Requests, Effect(r)
  PROVE  ConsequentialAtMostOnce' /\ ActedOnlyOnApproval'
<1>1. ASSUME NEW s \in Steps
      PROVE  calls'[s] <= 1 /\ (calls'[s] > 0 => ap'[s] = "approved")
  <2>1. calls[s] <= 1 /\ (calls[s] > 0 => ap[s] = "approved")
    BY DEF GateInv, ConsequentialAtMostOnce, ActedOnlyOnApproval
  <2>2. CASE calls'[s] = calls[s]
    BY <2>1, <2>2, DecisionStays
  <2>3. CASE calls'[s] # calls[s]
    BY <2>3, ExecutesOnce, DecisionStays
  <2>. QED
    BY <2>2, <2>3
<1>. QED
  BY <1>1 DEF ConsequentialAtMostOnce, ActedOnlyOnApproval

\* A step with an effect preserves the invariant.
LEMMA EffectKeepsGateInv ==
  ASSUME TypeOK, GateInv, NEW r \in Requests, Effect(r), Untouched(r), StepInv'
  PROVE  GateInv'
<1>1. \A q \in Requests :
        HoldsItsApproval(q)' /\ HasUnusedApproval(q)' /\ HoldsTheWorkflow(q)'
  BY OwnPartKept, OtherPartsKept
<1>2. ASSUME NEW p \in Requests, NEW q \in Requests, p # q
      PROVE  Apart(p, q)'
  <2>1. CASE p # r /\ q # r
    BY <1>2, <2>1 DEF Untouched, GateInv, Apart
  <2>2. CASE p = r \/ q = r
    BY <1>2, <2>2, ApartKept
  <2>. QED
    BY <2>1, <2>2
<1>. QED
  BY <1>1, <1>2, HistoryKept DEF GateInv, StepInv

-----------------------------------------------------------------------------
(* Specification level.                                                    *)

IInv == TypeOK /\ GateInv

\* Every step has an effect of one request, or touches no request, approval
\* or execution.
LEMMA StepEffect ==
  ASSUME IInv, [Next]_vars
  PROVE  \/ \E r \in Requests : Effect(r) /\ Untouched(r)
         \/ UNCHANGED <<ap, calls, session>>
<1>1. StepInv
  BY DEF IInv, GateInv, StepInv
<1>2. ASSUME NEW r \in Requests, Post(r)
      PROVE  Effect(r) /\ Untouched(r)
  <2>1. Untouched(r) /\ UNCHANGED <<ap, calls>>
    BY <1>1, <1>2, PostType DEF IInv
  <2>2. PICK label \in {"run_get", "resume_get", "cancel_lock",
                        "approve_lock", "reject_lock"}, s \in {0} \cup Steps :
          Arrive(r, label, s)
    BY <1>2 DEF Post, PostRun, PostResume, PostCancel, PostApprove, PostReject
  <2>3. pc'[r] = label
    BY <2>2 DEF Arrive, Goto, IInv, TypeOK
  <2>. QED
    BY <2>1, <2>3 DEF Effect, Rests, AtWork, Deciding, Calling, Cancelling
<1>3. ASSUME NEW r \in Requests, Handle(r)
      PROVE  Effect(r) /\ Untouched(r)
  BY <1>1, <1>3, HandleEffect, HandleKeepsStep DEF IInv, StepInv
<1>4. ASSUME NEW r \in Requests, AbortDeadlocked(r) \/ LoseSession(r)
      PROVE  Effect(r) /\ Untouched(r)
  <2>1. Leave(r) /\ UNCHANGED <<ap, calls>>
    BY <1>4 DEF AbortDeadlocked, LoseSession, history
  <2>. QED
    BY <2>1, LeaveRests, LeaveUntouched DEF IInv, Effect
<1>5. ASSUME NEW s \in Steps, PassDue(s)
      PROVE  UNCHANGED <<ap, calls, session>>
  BY <1>5 DEF PassDue, history
<1>6. CASE UNCHANGED vars
  BY <1>6 DEF vars, history
<1>. QED
  BY <1>2, <1>3, <1>4, <1>5, <1>6 DEF Next, AllAnswered

\* The invariant is inductive.
LEMMA GateInvInit ==
  ASSUME Init
  PROVE  IInv
<1>1. TypeOK /\ StepInv
  BY TypeInit
<1>2. \A r \in Requests : HoldsItsApproval(r) /\ HasUnusedApproval(r)
                            /\ HoldsTheWorkflow(r)
  BY DEF Init, HoldsItsApproval, HasUnusedApproval, HoldsTheWorkflow,
         Deciding, Calling, Cancelling
<1>3. \A q, r \in Requests : Apart(q, r)
  BY DEF Init, Apart, Deciding, Calling
<1>4. ConsequentialAtMostOnce /\ ActedOnlyOnApproval
  BY DEF Init, ConsequentialAtMostOnce, ActedOnlyOnApproval
<1>. QED
  BY <1>1, <1>2, <1>3, <1>4 DEF IInv, GateInv, StepInv

\* Every step preserves it.
LEMMA GateInvNext ==
  ASSUME IInv, [Next]_vars
  PROVE  IInv'
<1>1. TypeOK' /\ StepInv'
  BY TypeInductive DEF IInv, GateInv, StepInv
<1>2. CASE \E r \in Requests : Effect(r) /\ Untouched(r)
  BY <1>1, <1>2, EffectKeepsGateInv DEF IInv
<1>3. CASE UNCHANGED <<ap, calls, session>>
  BY <1>1, <1>3
     DEF session, IInv, GateInv, StepInv, HoldsItsApproval, HasUnusedApproval,
         HoldsTheWorkflow, Apart, ConsequentialAtMostOnce, ActedOnlyOnApproval
<1>. QED
  BY <1>2, <1>3, StepEffect

\* The inductive invariant behind the gate: a decision holds its approval, a
\* call has one nobody has used, a cancellation holds the workflow.
THEOREM GateInvariant == Spec => []GateInv
<1>1. Init => IInv
  BY GateInvInit
<1>2. IInv /\ [Next]_vars => IInv'
  BY GateInvNext
<1>3. IInv => GateInv
  BY DEF IInv
<1>. QED
  BY <1>1, <1>2, <1>3, PTL DEF Spec

\* A consequential operation (the connector call of execute_approved) is
\* executed at most once, whatever requests run, approve, reject, cancel and
\* resume at the same time and whichever of them are lost.
THEOREM ExecutedAtMostOnce == Spec => []ConsequentialAtMostOnce
<1>1. GateInv => ConsequentialAtMostOnce
  BY DEF GateInv
<1>. QED
  BY <1>1, GateInvariant, PTL

\* What was executed had been approved, and the approval stands.
THEOREM ExecutedIsApproved == Spec => []ActedOnlyOnApproval
<1>1. GateInv => ActedOnlyOnApproval
  BY DEF GateInv
<1>. QED
  BY <1>1, GateInvariant, PTL

\* An approved, rejected or cancelled approval request keeps its status, however
\* late a second decision or a cancellation arrives.
THEOREM DecisionsStay == Spec => DecisionsAreFinal
<1>1. Init => IInv
  BY GateInvInit
<1>2. IInv /\ [Next]_vars => IInv'
  BY GateInvNext
<1>3. IInv /\ [Next]_vars =>
        [\A s \in Steps : ap[s] \in {"approved", "rejected", "cancelled"}
                            => ap'[s] = ap[s]]_vars
  <2>. SUFFICES ASSUME IInv, [Next]_vars, NEW s \in Steps,
                       ap[s] \in {"approved", "rejected", "cancelled"}
                PROVE  ap'[s] = ap[s]
    OBVIOUS
  <2>1. CASE \E r \in Requests : Effect(r) /\ Untouched(r)
    BY <2>1, DecisionStays DEF IInv
  <2>2. CASE UNCHANGED <<ap, calls, session>>
    BY <2>2
  <2>. QED
    BY <2>1, <2>2, StepEffect
<1>. QED
  BY <1>1, <1>2, <1>3, PTL DEF Spec, DecisionsAreFinal

-----------------------------------------------------------------------------
(* The engine implements ApprovalGate.                                     *)

\* Every effect is a step of ApprovalGate, or a stutter.
LEMMA EffectRefines ==
  ASSUME TypeOK, GateInv, NEW r \in Requests, Effect(r)
  PROVE  [Promise!Next]_(Promise!vars)
<1>1. HoldsItsApproval(r) /\ HasUnusedApproval(r) /\ HoldsTheWorkflow(r)
      /\ HasItsStep(r)
  BY DEF GateInv
<1>2. CASE Rests(r) \/ Proceeds(r) \/ Locks(r) \/ StartsToCancel(r) \/ FindsPending(r)
  BY <1>2 DEF Rests, Proceeds, Locks, StartsToCancel, FindsPending, Promise!vars
<1>3. CASE CancelsPending(r)
  <2>1. \A s \in pend[r] : ap[s] \in {"pending", "expired", "cancelled"}
    BY <1>1, <1>3 DEF CancelsPending, HoldsTheWorkflow
  <2>2. pend[r] \in SUBSET Steps
    BY DEF TypeOK
  <2>3. Promise!Void(pend[r])
    BY <1>3, <2>1 DEF CancelsPending, Promise!Void
  <2>. QED
    BY <2>2, <2>3 DEF Promise!Next
<1>4. CASE \E s \in Steps : Asks(r, s)
  BY <1>4 DEF Asks, Promise!Ask, Promise!Next
<1>5. CASE Expires(r) \/ Approves(r) \/ Rejects(r)
  <2>1. tgt[r] \in Steps /\ ap[tgt[r]] = "pending"
    BY <1>1, <1>5 DEF Expires, Approves, Rejects, HasItsStep, HoldsItsApproval,
                      Locking, Deciding
  <2>2. Promise!Decide(tgt[r])
    BY <1>5, <2>1 DEF Expires, Approves, Rejects, Promise!Decide
  <2>. QED
    BY <2>1, <2>2 DEF Promise!Next
<1>6. CASE Voids(r)
  <2>1. tgt[r] \in Steps /\ ap[tgt[r]] = "pending"
    BY <1>1, <1>6 DEF Voids, HasItsStep, HoldsItsApproval
  <2>2. ap' = [s \in Steps |-> IF s \in {tgt[r]} THEN "cancelled" ELSE ap[s]]
    BY <1>6, <2>1 DEF Voids, TypeOK
  <2>3. Promise!Void({tgt[r]})
    BY <1>6, <2>1, <2>2 DEF Voids, Promise!Void
  <2>. QED
    BY <2>1, <2>3 DEF Promise!Next
<1>7. CASE Executes(r)
  <2>1. tgt[r] \in Steps /\ ap[tgt[r]] = "approved" /\ calls[tgt[r]] = 0
    BY <1>1, <1>7 DEF Executes, HasItsStep, HasUnusedApproval, Calling
  <2>2. calls' = [calls EXCEPT ![tgt[r]] = 1]
    BY <1>7, <2>1 DEF Executes, TypeOK
  <2>3. Promise!Execute(tgt[r])
    BY <1>7, <2>1, <2>2 DEF Executes, Promise!Execute
  <2>. QED
    BY <2>1, <2>3 DEF Promise!Next
<1>. QED
  BY <1>2, <1>3, <1>4, <1>5, <1>6, <1>7 DEF Effect

\* Every step of the engine is a step of the approval service's promise:
\* each consequential action is asked for once, decided once, and executed
\* at most once and only after it was approved.
THEOREM EngineImplementsGate == Spec => ImplementsPromise
<1>1. Init => IInv
  BY GateInvInit
<1>2. IInv /\ [Next]_vars => IInv'
  BY GateInvNext
<1>3. Init => Promise!Init
  BY DEF Init, Promise!Init
<1>4. IInv /\ [Next]_vars => [Promise!Next]_(Promise!vars)
  <2>. SUFFICES ASSUME IInv, [Next]_vars
                PROVE  [Promise!Next]_(Promise!vars)
    OBVIOUS
  <2>1. CASE \E r \in Requests : Effect(r) /\ Untouched(r)
    BY <2>1, EffectRefines DEF IInv
  <2>2. CASE UNCHANGED <<ap, calls, session>>
    BY <2>2 DEF Promise!vars
  <2>. QED
    BY <2>1, <2>2, StepEffect
<1>. QED
  BY <1>1, <1>2, <1>3, <1>4, PTL DEF Spec, ImplementsPromise, Promise!Spec
=============================================================================
