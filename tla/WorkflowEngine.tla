--------------------------- MODULE WorkflowEngine ---------------------------
(***************************************************************************)
(* One persisted workflow, its steps and its approval requests, and the    *)
(* HTTP requests that run, resume, cancel, approve and reject it.          *)
(*                                                                         *)
(* Every request has a database session of its own.  A session keeps the   *)
(* rows it has loaded (the identity map; expire_on_commit is off, so a     *)
(* loaded row is never read again while a caller still refers to it) and   *)
(* a flush writes only the columns whose value the request changed, with   *)
(* no version check.  The database runs READ COMMITTED: a statement sees   *)
(* what is committed when it starts, a write waits for the row locks of    *)
(* other transactions, and uncommitted writes are invisible to them.       *)
(*                                                                         *)
(* An action is one awaited statement with the Python code around it.  A   *)
(* flush directly followed by the commit is a single action.               *)
(***************************************************************************)
EXTENDS Integers, FiniteSets, WorkflowStates, RowLocks

CONSTANTS
  N,             \* number of steps; step s has position s - 1
  TypeOf,        \* step -> step_type
  DeclaredAccess,\* step -> access_type, as the client declared it
  Consequential, \* steps whose registered capability is not a READ
  Redacted,      \* steps whose arguments redact() changes
  Unavailable,   \* steps whose connector operation is no longer registered, or
                 \* whose knowledge query is blank
  MaxRetries,    \* step -> max_retries
  Requests,      \* slots for requests that are in flight at the same time
  MaxRequests,   \* bound: requests ever made
  ExecCap,       \* bound: executions of a step are counted up to ExecCap
  Faults         \* may sessions be lost and the server restart?

Steps == 1..N

ASSUME EngineAssumption ==
  /\ N \in Nat \ {0}
  /\ TypeOf \in [Steps -> StepType]
  /\ DeclaredAccess \in [Steps -> AccessType]
  /\ Consequential \subseteq {s \in Steps : TypeOf[s] = "connector"}
  /\ Redacted \subseteq Steps
  /\ Unavailable \subseteq {s \in Steps : TypeOf[s] \in {"connector", "knowledge"}}
  /\ MaxRetries \in [Steps -> Nat]
  /\ MaxRequests \in Nat
  /\ ExecCap \in Nat
  /\ Faults \in BOOLEAN

VARIABLES
  db,     \* committed workflow row and step rows
  ap,     \* committed approval status of each step, "none" before the gate
  due,    \* approvals whose expires_at has passed
  pc,     \* request -> the statement it is about to issue
  tgt,    \* request -> the step whose approval it decides or acts on, 0 if none
  known,  \* request -> rows in its identity map
  view,   \* request -> its copy of those rows
  dirty,  \* request -> columns it has flushed and not committed
  pend,   \* request -> approvals a cancellation has found pending
  held,   \* request -> row locks it holds
  begun,  \* number of requests made
  lost,   \* history: steps whose approval a lost session was to act on; 0 for
          \* the other sessions that were lost
  tries,  \* history: request -> step -> its executions of a read, tool or
          \* search that returned
  calls   \* history: step -> executions of its consequential operation

session == <<pc, tgt, known, view, dirty, pend, held>>
history == <<lost, tries, calls>>
vars == <<db, ap, due, session, begun, history>>

-----------------------------------------------------------------------------
(* Rows, columns and sessions.                                             *)

\* Row 0 is the workflow, row s is step s, row N + s the approval of step s.
WorkflowRow == 0
ApprovalRow(s) == N + s

\* The columns the handlers change: <<column, row>>.
Columns == ({"status", "current_step"} \X {WorkflowRow})
             \cup ({"step_status", "retry_count"} \X Steps)

\* The values of those columns.
RowValues ==
  [status       : WorkflowStatus,
   current_step : 0..N,
   step_status  : [Steps -> StepStatus],
   retry_count  : [Steps -> Nat]]

\* WorkflowService.create leaves a workflow in this state.
Created ==
  [status       |-> "pending",
   current_step |-> 0,
   step_status  |-> [s \in Steps |-> "pending"],
   retry_count  |-> [s \in Steps |-> 0]]

\* The values of v for the columns in W, those of d for the others.
Overwrite(d, v, W) ==
  [status       |-> IF <<"status", WorkflowRow>> \in W
                      THEN v.status ELSE d.status,
   current_step |-> IF <<"current_step", WorkflowRow>> \in W
                      THEN v.current_step ELSE d.current_step,
   step_status  |-> [s \in Steps |-> IF <<"step_status", s>> \in W
                      THEN v.step_status[s] ELSE d.step_status[s]],
   retry_count  |-> [s \in Steps |-> IF <<"retry_count", s>> \in W
                      THEN v.retry_count[s] ELSE d.retry_count[s]]]

\* The columns a request has changed in its copies since the last flush.
Changed(old, new) ==
  {c \in Columns :
     CASE c[1] = "status"       -> old.status # new.status
       [] c[1] = "current_step" -> old.current_step # new.current_step
       [] c[1] = "step_status"  -> old.step_status[c[2]] # new.step_status[c[2]]
       [] c[1] = "retry_count"  -> old.retry_count[c[2]] # new.retry_count[c[2]]}

\* A SELECT of the given rows: a row that is already known keeps its copy.
Loaded(r, rows) ==
  Overwrite(view[r], db, {c \in Columns : c[2] \in rows \ known[r]})

\* The loop of `run` takes the steps by position and skips the completed ones.
Incomplete(v) == {s \in Steps : v.step_status[s] # "completed"}

FirstIncomplete(v) ==
  CHOOSE s \in Incomplete(v) : \A q \in Incomplete(v) : s <= q

\* The step the loop has reached.
Current(r) == FirstIncomplete(view[r])

-----------------------------------------------------------------------------
(* What each request is about to flush, and the locks that takes.          *)

\* The request's copies as the flush at its pc will write them.
Written(r) ==
  LET v == view[r]
      s == IF tgt[r] # 0 THEN tgt[r] ELSE Current(r)
  IN  CASE pc[r] \in {"run_start", "resume_start"} ->
             [v EXCEPT !.status = "running"]
        [] pc[r] = "retry" ->
             [v EXCEPT !.retry_count[s] = @ + 1]
        [] pc[r] \in {"save", "call_save"} ->
             [v EXCEPT !.step_status[s] = "completed", !.current_step = s]
        [] pc[r] \in {"fail", "call_fail"} ->
             [v EXCEPT !.step_status[s] = "failed", !.status = "failed"]
        [] pc[r] = "gate" ->
             [v EXCEPT !.step_status[s] = "waiting_for_approval",
                       !.status = "waiting_for_approval"]
        [] pc[r] = "finish" ->
             [v EXCEPT !.status = "completed"]
        [] pc[r] = "approve_commit" ->
             [v EXCEPT !.step_status[s] = "approved", !.status = "running"]
        [] pc[r] = "reject_commit" ->
             [v EXCEPT !.step_status[s] = "rejected", !.status = "cancelled"]
        [] pc[r] = "cancel_flush" ->
             [v EXCEPT !.step_status =
                [q \in Steps |-> IF v.step_status[q] = "completed"
                                   THEN "completed" ELSE "cancelled"]]
        [] OTHER -> v

\* The statements that are, or are flushed with, the insertion of an event.
RecordsEvent == {"run_start", "step_start", "save", "fail", "gate", "finish",
                 "resume_event", "approve_commit", "reject_commit", "call_save"}

\* The row locks the statement at the request's pc needs.
Wanted(r) ==
  {<<"no_key_update", c[2]>> : c \in Changed(view[r], Written(r))}
  \cup (IF pc[r] \in RecordsEvent THEN {<<"key_share", WorkflowRow>>} ELSE {})
  \cup (IF pc[r] = "cancel_lock" THEN {<<"update", WorkflowRow>>} ELSE {})
  \cup (IF pc[r] \in {"approve_lock", "reject_lock"}
          THEN {<<"update", ApprovalRow(tgt[r])>>} ELSE {})
  \cup (IF pc[r] = "cancel_commit"
          THEN {<<"no_key_update", ApprovalRow(s)>> : s \in pend[r]} ELSE {})

Blocks(q, r) == q # r /\ Obstructs(held[q], Wanted(r))
Granted(r) == \A q \in Requests : ~ Blocks(q, r)

\* r belongs to a set of requests that wait for one another.
Deadlocked(r) ==
  \E D \in SUBSET Requests :
    r \in D /\ \A p \in D : \E q \in D : Blocks(q, p)

-----------------------------------------------------------------------------
(* Pieces of actions.                                                      *)

Goto(r, label) == pc' = [pc EXCEPT ![r] = label]

\* A SELECT without FOR UPDATE.
Read(r, rows) ==
  /\ view'  = [view EXCEPT ![r] = Loaded(r, rows)]
  /\ known' = [known EXCEPT ![r] = @ \cup rows]

\* session.flush(): the changed columns are written, not committed.
Flush(r) ==
  /\ Granted(r)
  /\ dirty' = [dirty EXCEPT ![r] = @ \cup Changed(view[r], Written(r))]
  /\ view'  = [view EXCEPT ![r] = Written(r)]
  /\ held'  = [held EXCEPT ![r] = @ \cup Wanted(r)]

\* session.commit(), with the flush it starts with.
Persist(r) ==
  /\ Granted(r)
  /\ db' = Overwrite(db, Written(r), dirty[r] \cup Changed(view[r], Written(r)))

\* After a commit that the request goes on from: `rows` are still referenced.
Continue(r, label, step, rows) ==
  /\ Goto(r, label)
  /\ tgt'   = [tgt EXCEPT ![r] = step]
  /\ known' = [known EXCEPT ![r] = rows]
  /\ view'  = [view EXCEPT ![r] = Overwrite(Created, Written(r),
                                   {c \in Columns : c[2] \in rows})]
  /\ dirty' = [dirty EXCEPT ![r] = {}]
  /\ pend'  = [pend EXCEPT ![r] = {}]
  /\ held'  = [held EXCEPT ![r] = {}]

\* The request is over: what it has not committed is rolled back.
Leave(r) ==
  /\ Goto(r, "idle")
  /\ tgt'   = [tgt EXCEPT ![r] = 0]
  /\ known' = [known EXCEPT ![r] = {}]
  /\ view'  = [view EXCEPT ![r] = Created]
  /\ dirty' = [dirty EXCEPT ![r] = {}]
  /\ pend'  = [pend EXCEPT ![r] = {}]
  /\ held'  = [held EXCEPT ![r] = {}]

-----------------------------------------------------------------------------
(* A request arrives.                                                      *)

Arrive(r, label, s) ==
  /\ pc[r] = "idle"
  /\ begun < MaxRequests
  /\ begun' = begun + 1
  /\ Goto(r, label)
  /\ tgt' = [tgt EXCEPT ![r] = s]
  /\ tries' = [tries EXCEPT ![r] = [q \in Steps |-> 0]]
  /\ UNCHANGED <<db, ap, due, known, view, dirty, pend, held, lost, calls>>

PostRun(r)     == Arrive(r, "run_get", 0)
PostResume(r)  == Arrive(r, "resume_get", 0)
PostCancel(r)  == Arrive(r, "cancel_lock", 0)
\* A client learns an approval's id once the approval is committed.
PostApprove(r) == \E s \in Steps : ap[s] # "none" /\ Arrive(r, "approve_lock", s)
PostReject(r)  == \E s \in Steps : ap[s] # "none" /\ Arrive(r, "reject_lock", s)

-----------------------------------------------------------------------------
(* WorkflowExecutor.run                                                    *)

RunGet(r) ==
  /\ pc[r] = "run_get"
  /\ IF Loaded(r, {WorkflowRow}).status \in Terminal
       THEN Leave(r)
       ELSE /\ Read(r, {WorkflowRow})
            /\ Goto(r, IF Loaded(r, {WorkflowRow}).status = "pending"
                         THEN "run_start" ELSE "run_steps")
            /\ UNCHANGED <<tgt, dirty, pend, held>>
  /\ UNCHANGED <<db, ap, due, begun, history>>

RunStart(r) ==
  /\ pc[r] = "run_start"
  /\ Flush(r)
  /\ Goto(r, "run_steps")
  /\ UNCHANGED <<db, ap, due, tgt, known, pend, begun, history>>

\* Where the loop goes next: the completed steps are skipped.
Advance(v) == IF Incomplete(v) = {} THEN "finish" ELSE "step_start"

RunSteps(r) ==
  /\ pc[r] = "run_steps"
  /\ Read(r, Steps)
  /\ Goto(r, Advance(Loaded(r, Steps)))
  /\ UNCHANGED <<db, ap, due, tgt, dirty, pend, held, begun, history>>

\* Mutant of StepStart: what needs an approval is what the client declared.
StepStartAsDeclared(r) ==
  /\ pc[r] = "step_start"
  /\ Flush(r)
  /\ Goto(r, CASE Current(r) \in Unavailable -> "fail"
               [] Current(r) \notin Unavailable /\
                  DeclaredAccess[Current(r)] \in {"write", "destructive"} -> "gate"
               [] OTHER -> "exec")
  /\ UNCHANGED <<db, ap, due, tgt, known, pend, begun, history>>

\* The dependency test before this point cannot fail: a dependency has a
\* lower position (WorkflowService._validate) and the loop has passed it.
StepStart(r) ==
  /\ pc[r] = "step_start"
  /\ Flush(r)
  /\ Goto(r, CASE Current(r) \in Unavailable -> "fail"
               [] Current(r) \in Consequential \ Unavailable -> "gate"
               [] OTHER -> "exec")
  /\ UNCHANGED <<db, ap, due, tgt, known, pend, begun, history>>

\* One more execution of step s, as far as executions are counted.
Counted(counts, s) ==
  [counts EXCEPT ![s] = IF @ < ExecCap THEN @ + 1 ELSE @]

\* The execution by r of the step it has reached is counted.
Executed(r) ==
  /\ tries' = [tries EXCEPT ![r] = Counted(@, Current(r))]
  /\ UNCHANGED lost

\* execute_once() succeeds.
ExecSucceeds(r) ==
  /\ pc[r] = "exec"
  /\ Executed(r)
  /\ Goto(r, "save")
  /\ UNCHANGED <<db, ap, due, tgt, known, view, dirty, pend, held, begun, calls>>

\* Mutant of MayRetry: retry_count <= max_retries.
MayRetryOnceMore(r, code) ==
  /\ IsRetryable(TypeOf[Current(r)], DeclaredAccess[Current(r)], code)
  /\ view[r].retry_count[Current(r)] <= MaxRetries[Current(r)]

\* execute_once() fails with an error code: try again or give up.
MayRetry(r, code) ==
  /\ IsRetryable(TypeOf[Current(r)], DeclaredAccess[Current(r)], code)
  /\ view[r].retry_count[Current(r)] < MaxRetries[Current(r)]

ExecFails(r) ==
  /\ pc[r] = "exec"
  /\ Executed(r)
  /\ \E code \in ErrorCodes[TypeOf[Current(r)]] :
       Goto(r, IF MayRetry(r, code) THEN "retry" ELSE "fail")
  /\ UNCHANGED <<db, ap, due, tgt, known, view, dirty, pend, held, begun, calls>>

\* The search raises what execute_knowledge does not catch: the embedding
\* provider is unavailable.  The request ends with a rollback, and neither the
\* step nor its retry_count tells of it.
ExecRaises(r) ==
  /\ pc[r] = "exec"
  /\ TypeOf[Current(r)] = "knowledge"
  /\ Leave(r)
  /\ UNCHANGED <<db, ap, due, begun, history>>

\* Mutant of Retry: the counter is not incremented.
RetryUncounted(r) ==
  /\ pc[r] = "retry"
  /\ Goto(r, "exec")
  /\ UNCHANGED <<db, ap, due, tgt, known, view, dirty, pend, held, begun, history>>

Retry(r) ==
  /\ pc[r] = "retry"
  /\ Flush(r)
  /\ Goto(r, "exec")
  /\ UNCHANGED <<db, ap, due, tgt, known, pend, begun, history>>

SaveStep(r) ==
  /\ pc[r] = "save"
  /\ Flush(r)
  /\ Goto(r, Advance(Written(r)))
  /\ UNCHANGED <<db, ap, due, tgt, known, pend, begun, history>>

\* _fail_step
FailStep(r) ==
  /\ pc[r] = "fail"
  /\ CanMove(view[r].status, "failed")
  /\ Persist(r)
  /\ Leave(r)
  /\ UNCHANGED <<ap, due, begun, history>>

\* Mutant of Gate: the request gets the status of its step.
GateWithStepStatus(r) ==
  /\ pc[r] = "gate"
  /\ CanMove(view[r].status, "waiting_for_approval")
  /\ ap[Current(r)] = "none"
  /\ Persist(r)
  /\ ap' = [ap EXCEPT ![Current(r)] = "waiting_for_approval"]
  /\ Leave(r)
  /\ UNCHANGED <<due, begun, history>>

\* Mutant of Gate: workflow_step_id is not unique, a request is asked for anew.
GateAgain(r) ==
  /\ pc[r] = "gate"
  /\ CanMove(view[r].status, "waiting_for_approval")
  /\ Persist(r)
  /\ ap' = [ap EXCEPT ![Current(r)] = "pending"]
  /\ Leave(r)
  /\ UNCHANGED <<due, begun, history>>

\* WorkflowService.gate_approval, and the return from `run` after it.
Gate(r) ==
  /\ pc[r] = "gate"
  /\ CanMove(view[r].status, "waiting_for_approval")
  /\ ap[Current(r)] = "none"
  /\ Persist(r)
  /\ ap' = [ap EXCEPT ![Current(r)] = "pending"]
  /\ Leave(r)
  /\ UNCHANGED <<due, begun, history>>

\* approval_requests.workflow_step_id is unique: the INSERT fails.
GateTaken(r) ==
  /\ pc[r] = "gate"
  /\ CanMove(view[r].status, "waiting_for_approval")
  /\ ap[Current(r)] # "none"
  /\ Leave(r)
  /\ UNCHANGED <<db, ap, due, begun, history>>

Finish(r) ==
  /\ pc[r] = "finish"
  /\ CanMove(view[r].status, "completed")
  /\ Persist(r)
  /\ Leave(r)
  /\ UNCHANGED <<ap, due, begun, history>>

\* require_workflow_transition raises: the request ends with a rollback.
Refuse(r) ==
  /\ \/ pc[r] = "fail"          /\ ~ CanMove(view[r].status, "failed")
     \/ pc[r] = "gate"          /\ ~ CanMove(view[r].status, "waiting_for_approval")
     \/ pc[r] = "finish"        /\ ~ CanMove(view[r].status, "completed")
     \/ pc[r] = "reject_commit" /\ ~ CanMove(view[r].status, "cancelled")
  /\ Leave(r)
  /\ UNCHANGED <<db, ap, due, begun, history>>

-----------------------------------------------------------------------------
(* WorkflowExecutor.resume_workflow                                        *)

ResumeGet(r) ==
  /\ pc[r] = "resume_get"
  /\ IF db.status \in Terminal \cup {"waiting_for_approval"}
       THEN Leave(r)
       ELSE /\ Read(r, {WorkflowRow})
            /\ Goto(r, IF db.status = "pending"
                         THEN "resume_start" ELSE "resume_event")
            /\ UNCHANGED <<tgt, dirty, pend, held>>
  /\ UNCHANGED <<db, ap, due, begun, history>>

ResumeStart(r) ==
  /\ pc[r] = "resume_start"
  /\ Persist(r)
  /\ Continue(r, "resume_event", 0, {WorkflowRow})
  /\ UNCHANGED <<ap, due, begun, history>>

ResumeEvent(r) ==
  /\ pc[r] = "resume_event"
  /\ Flush(r)
  /\ Goto(r, "run_get")
  /\ UNCHANGED <<db, ap, due, tgt, known, pend, begun, history>>

-----------------------------------------------------------------------------
(* WorkflowService.cancel                                                  *)

\* SELECT ... FOR UPDATE, then the new status and its event are flushed.
CancelLock(r) ==
  /\ pc[r] = "cancel_lock"
  /\ Granted(r)
  /\ IF CanMove(db.status, "cancelled")
       THEN /\ view'  = [view EXCEPT ![r] =
                           [Loaded(r, {WorkflowRow}) EXCEPT !.status = "cancelled"]]
            /\ known' = [known EXCEPT ![r] = {WorkflowRow}]
            /\ dirty' = [dirty EXCEPT ![r] = {<<"status", WorkflowRow>>}]
            /\ held'  = [held EXCEPT ![r] = {<<"update", WorkflowRow>>}]
            /\ Goto(r, "cancel_steps")
            /\ UNCHANGED <<tgt, pend>>
       ELSE Leave(r)
  /\ UNCHANGED <<db, ap, due, begun, history>>

CancelSteps(r) ==
  /\ pc[r] = "cancel_steps"
  /\ Read(r, Steps)
  /\ Goto(r, "cancel_flush")
  /\ UNCHANGED <<db, ap, due, tgt, dirty, pend, held, begun, history>>

\* The SELECT of the pending approvals flushes the cancelled steps first.
CancelApprovals(r) ==
  /\ pc[r] = "cancel_flush"
  /\ Flush(r)
  /\ pend' = [pend EXCEPT ![r] = {s \in Steps : ap[s] = "pending"}]
  /\ Goto(r, "cancel_commit")
  /\ UNCHANGED <<db, ap, due, tgt, known, begun, history>>

\* Mutant of CancelCommit: the pending approvals are left alone.
CancelCommitKeepsApprovals(r) ==
  /\ pc[r] = "cancel_commit"
  /\ Persist(r)
  /\ Leave(r)
  /\ UNCHANGED <<ap, due, begun, history>>

\* Mutant of CancelCommit: every approval of the workflow is cancelled.
CancelCommitTakesAll(r) ==
  /\ pc[r] = "cancel_commit"
  /\ Persist(r)
  /\ ap' = [s \in Steps |-> IF ap[s] # "none" THEN "cancelled" ELSE "none"]
  /\ Leave(r)
  /\ UNCHANGED <<due, begun, history>>

CancelCommit(r) ==
  /\ pc[r] = "cancel_commit"
  /\ Persist(r)
  /\ ap' = [s \in Steps |-> IF s \in pend[r] THEN "cancelled" ELSE ap[s]]
  /\ Leave(r)
  /\ UNCHANGED <<due, begun, history>>

-----------------------------------------------------------------------------
(* ApprovalService.approve                                                 *)

\* Mutant of ApproveLock: SELECT without FOR UPDATE.
ApproveLockShared(r) ==
  /\ pc[r] = "approve_lock"
  /\ IF ap[tgt[r]] = "pending" /\ tgt[r] \notin due
       THEN /\ Goto(r, "approve_get")
            /\ UNCHANGED <<ap, tgt, known, view, dirty, pend, held>>
       ELSE /\ ap' = [ap EXCEPT ![tgt[r]] = IF @ = "pending" THEN "expired" ELSE @]
            /\ Leave(r)
  /\ UNCHANGED <<db, due, begun, history>>

\* Mutant of ApproveLock: an expired approval is marked, and approved all the same.
ApproveLockLate(r) ==
  /\ pc[r] = "approve_lock"
  /\ Granted(r)
  /\ IF ap[tgt[r]] = "pending"
       THEN /\ held' = [held EXCEPT ![r] = Wanted(r)]
            /\ ap' = [ap EXCEPT ![tgt[r]] = IF tgt[r] \in due THEN "expired" ELSE @]
            /\ Goto(r, "approve_get")
            /\ UNCHANGED <<tgt, known, view, dirty, pend>>
       ELSE /\ Leave(r)
            /\ UNCHANGED ap
  /\ UNCHANGED <<db, due, begun, history>>

ApproveLock(r) ==
  /\ pc[r] = "approve_lock"
  /\ Granted(r)
  /\ IF ap[tgt[r]] = "pending" /\ tgt[r] \notin due
       THEN /\ held' = [held EXCEPT ![r] = Wanted(r)]
            /\ Goto(r, "approve_get")
            /\ UNCHANGED <<ap, tgt, known, view, dirty, pend>>
       ELSE /\ ap' = [ap EXCEPT ![tgt[r]] = IF @ = "pending" THEN "expired" ELSE @]
            /\ Leave(r)
  /\ UNCHANGED <<db, due, begun, history>>

ApproveGet(r) ==
  /\ pc[r] = "approve_get"
  /\ Read(r, {WorkflowRow})
  /\ Goto(r, "approve_steps")
  /\ UNCHANGED <<db, ap, due, tgt, dirty, pend, held, begun, history>>

Actionable(r) ==
  /\ view[r].status = "waiting_for_approval"
  /\ db.step_status[tgt[r]] = "waiting_for_approval"

\* Mutant of ApproveSteps: the arguments are not compared with the snapshot.
ApproveStepsUncompared(r) ==
  /\ pc[r] = "approve_steps"
  /\ IF Actionable(r)
       THEN /\ Read(r, Steps)
            /\ Goto(r, "approve_commit")
            /\ UNCHANGED <<tgt, dirty, pend, held>>
       ELSE Leave(r)
  /\ UNCHANGED <<db, ap, due, begun, history>>

ApproveSteps(r) ==
  /\ pc[r] = "approve_steps"
  /\ IF Actionable(r) /\ tgt[r] \notin Redacted
       THEN /\ Read(r, Steps)
            /\ Goto(r, "approve_commit")
            /\ UNCHANGED <<ap, tgt, dirty, pend, held>>
       ELSE /\ ap' = [ap EXCEPT ![tgt[r]] = IF Actionable(r) THEN "cancelled" ELSE @]
            /\ Leave(r)
  /\ UNCHANGED <<db, due, begun, history>>

\* Mutant of ApproveCommit: the approved action is not executed.
ApproveCommitOnly(r) ==
  /\ pc[r] = "approve_commit"
  /\ Persist(r)
  /\ ap' = [ap EXCEPT ![tgt[r]] = "approved"]
  /\ Leave(r)
  /\ UNCHANGED <<due, begun, history>>

\* Mutant of ApproveCommit: the action is executed in the transaction of its
\* approval, before the commit.
ApproveCommitAfterwards(r) ==
  /\ pc[r] = "approve_commit"
  /\ Flush(r)
  /\ Goto(r, "call")
  /\ UNCHANGED <<db, ap, due, tgt, known, pend, begun, history>>

\* After this commit the request goes on to execute_approved, which holds on
\* to neither the workflow nor the steps that `approve` loaded.
ApproveCommit(r) ==
  /\ pc[r] = "approve_commit"
  /\ Persist(r)
  /\ ap' = [ap EXCEPT ![tgt[r]] = "approved"]
  /\ Continue(r, "call_get", tgt[r], {})
  /\ UNCHANGED <<due, begun, history>>

-----------------------------------------------------------------------------
(* WorkflowExecutor.execute_approved                                       *)

CallGet(r) ==
  /\ pc[r] = "call_get"
  /\ IF db.status = "running"
       THEN /\ Read(r, {WorkflowRow})
            /\ Goto(r, "call_steps")
            /\ UNCHANGED <<tgt, dirty, pend, held>>
       ELSE Leave(r)
  /\ UNCHANGED <<db, ap, due, begun, history>>

\* Only the step to execute stays referenced.
CallSteps(r) ==
  /\ pc[r] = "call_steps"
  /\ IF db.step_status[tgt[r]] # "completed"
       THEN /\ Read(r, {tgt[r]})
            /\ Goto(r, "call")
            /\ UNCHANGED <<tgt, dirty, pend, held>>
       ELSE Leave(r)
  /\ UNCHANGED <<db, ap, due, begun, history>>

\* ConnectorExecutor._has_approved_action: session.get answers from the
\* identity map, so the approval is the one this request approved, and the
\* workflow and the step are the copies it has just loaded.
Authorized(r) ==
  /\ view[r].status = "running"
  /\ view[r].step_status[tgt[r]] = "approved"

\* ConnectorExecutor.execute with the approved action; it may fail.
Call(r) ==
  /\ pc[r] = "call"
  /\ Authorized(r)
  /\ calls' = [calls EXCEPT ![tgt[r]] = @ + 1]
  /\ \E label \in {"call_save", "call_fail"} : Goto(r, label)
  /\ UNCHANGED <<db, ap, due, tgt, known, view, dirty, pend, held, begun, lost, tries>>

\* The connector refuses the role or the arguments; or the action is not
\* authorized and the result is approval_required, which execute_approved
\* treats as an error.
CallDenied(r) ==
  /\ pc[r] = "call"
  /\ Goto(r, "call_fail")
  /\ UNCHANGED <<db, ap, due, tgt, known, view, dirty, pend, held, begun, history>>

\* Mutant of CallSave: current_step is left to the run that follows.
CallSaveStepOnly(r) ==
  /\ pc[r] = "call_save"
  /\ Granted(r)
  /\ db' = [db EXCEPT !.step_status[tgt[r]] = "completed"]
  /\ Continue(r, "run_get", 0, {WorkflowRow, tgt[r]})
  /\ UNCHANGED <<ap, due, begun, history>>

CallSave(r) ==
  /\ pc[r] = "call_save"
  /\ Persist(r)
  /\ Continue(r, "run_get", 0, {WorkflowRow, tgt[r]})
  /\ UNCHANGED <<ap, due, begun, history>>

\* Mutant of CallFail: the failure is not committed.
CallFailUnsaved(r) ==
  /\ pc[r] = "call_fail"
  /\ Leave(r)
  /\ UNCHANGED <<db, ap, due, begun, history>>

CallFail(r) ==
  /\ pc[r] = "call_fail"
  /\ Persist(r)
  /\ Leave(r)
  /\ UNCHANGED <<ap, due, begun, history>>

-----------------------------------------------------------------------------
(* ApprovalService.reject                                                  *)

\* Mutant of RejectLock: SELECT without FOR UPDATE.
RejectLockShared(r) ==
  /\ pc[r] = "reject_lock"
  /\ IF ap[tgt[r]] = "pending"
       THEN /\ Goto(r, "reject_get")
            /\ UNCHANGED <<tgt, known, view, dirty, pend, held>>
       ELSE Leave(r)
  /\ UNCHANGED <<db, ap, due, begun, history>>

\* Mutant of RejectLock: no require_pending_approval.
RejectLockDecided(r) ==
  /\ pc[r] = "reject_lock"
  /\ Granted(r)
  /\ held' = [held EXCEPT ![r] = Wanted(r)]
  /\ Goto(r, "reject_get")
  /\ UNCHANGED <<db, ap, due, tgt, known, view, dirty, pend, begun, history>>

RejectLock(r) ==
  /\ pc[r] = "reject_lock"
  /\ Granted(r)
  /\ IF ap[tgt[r]] = "pending"
       THEN /\ held' = [held EXCEPT ![r] = Wanted(r)]
            /\ Goto(r, "reject_get")
            /\ UNCHANGED <<tgt, known, view, dirty, pend>>
       ELSE Leave(r)
  /\ UNCHANGED <<db, ap, due, begun, history>>

RejectGet(r) ==
  /\ pc[r] = "reject_get"
  /\ Read(r, {WorkflowRow})
  /\ Goto(r, "reject_steps")
  /\ UNCHANGED <<db, ap, due, tgt, dirty, pend, held, begun, history>>

RejectSteps(r) ==
  /\ pc[r] = "reject_steps"
  /\ Read(r, Steps)
  /\ Goto(r, "reject_commit")
  /\ UNCHANGED <<db, ap, due, tgt, dirty, pend, held, begun, history>>

\* Mutant of RejectCommit: the workflow and the step are not updated.
RejectCommitApprovalOnly(r) ==
  /\ pc[r] = "reject_commit"
  /\ CanMove(view[r].status, "cancelled")
  /\ Granted(r)
  /\ ap' = [ap EXCEPT ![tgt[r]] = "rejected"]
  /\ Leave(r)
  /\ UNCHANGED <<db, due, begun, history>>

RejectCommit(r) ==
  /\ pc[r] = "reject_commit"
  /\ CanMove(view[r].status, "cancelled")
  /\ Persist(r)
  /\ ap' = [ap EXCEPT ![tgt[r]] = "rejected"]
  /\ Leave(r)
  /\ UNCHANGED <<due, begun, history>>

-----------------------------------------------------------------------------
(* The environment.                                                        *)

\* expires_at of a pending approval passes.
PassDue(s) ==
  /\ ap[s] = "pending"
  /\ due' = due \cup {s}
  /\ s \notin due
  /\ UNCHANGED <<db, ap, session, begun, history>>

\* PostgreSQL aborts a transaction of a cycle of waiting transactions.
AbortDeadlocked(r) ==
  /\ Deadlocked(r)
  /\ Leave(r)
  /\ UNCHANGED <<db, ap, due, begun, history>>

\* The session is lost: the client went away, the connection broke, an
\* unexpected exception was raised, the server stopped.
LoseSession(r) ==
  /\ Faults
  /\ pc[r] # "idle"
  /\ Leave(r)
  /\ lost' = lost \cup {tgt[r]}
  /\ UNCHANGED <<db, ap, due, begun, tries, calls>>

\* Every request that may be made has been answered.
AllAnswered ==
  /\ begun = MaxRequests
  /\ \A r \in Requests : pc[r] = "idle"
  /\ UNCHANGED vars

-----------------------------------------------------------------------------
Init ==
  /\ db = Created
  /\ ap = [s \in Steps |-> "none"]
  /\ due = {}
  /\ pc = [r \in Requests |-> "idle"]
  /\ tgt = [r \in Requests |-> 0]
  /\ known = [r \in Requests |-> {}]
  /\ view = [r \in Requests |-> Created]
  /\ dirty = [r \in Requests |-> {}]
  /\ pend = [r \in Requests |-> {}]
  /\ held = [r \in Requests |-> {}]
  /\ begun = 0
  /\ lost = {}
  /\ tries = [r \in Requests |-> [s \in Steps |-> 0]]
  /\ calls = [s \in Steps |-> 0]

Post(r) ==
  \/ PostRun(r) \/ PostResume(r) \/ PostCancel(r)
  \/ PostApprove(r) \/ PostReject(r)

RunStep(r) ==
  \/ RunGet(r) \/ RunStart(r) \/ RunSteps(r)
  \/ StepStart(r) \/ ExecSucceeds(r) \/ ExecFails(r) \/ ExecRaises(r)
  \/ Retry(r)
  \/ SaveStep(r) \/ FailStep(r)
  \/ Gate(r) \/ GateTaken(r) \/ Finish(r) \/ Refuse(r)

ResumeStep(r) == ResumeGet(r) \/ ResumeStart(r) \/ ResumeEvent(r)

CancelStep(r) ==
  CancelLock(r) \/ CancelSteps(r) \/ CancelApprovals(r) \/ CancelCommit(r)

ApproveStep(r) ==
  ApproveLock(r) \/ ApproveGet(r) \/ ApproveSteps(r) \/ ApproveCommit(r)

CallStep(r) ==
  \/ CallGet(r) \/ CallSteps(r) \/ Call(r) \/ CallDenied(r)
  \/ CallSave(r) \/ CallFail(r)

RejectStep(r) ==
  RejectLock(r) \/ RejectGet(r) \/ RejectSteps(r) \/ RejectCommit(r)

Handle(r) ==
  \/ RunStep(r) \/ ResumeStep(r) \/ CancelStep(r)
  \/ ApproveStep(r) \/ CallStep(r) \/ RejectStep(r)

Next ==
  \/ \E r \in Requests : Post(r) \/ Handle(r) \/ AbortDeadlocked(r) \/ LoseSession(r)
  \/ \E s \in Steps : PassDue(s)
  \/ AllAnswered

Spec == Init /\ [][Next]_vars

\* The event loop runs every ready handler, and PostgreSQL breaks every
\* deadlock.  Clients need not send anything.
Fairness ==
  \A r \in Requests : WF_vars(Handle(r)) /\ WF_vars(AbortDeadlocked(r))

FairSpec == Spec /\ Fairness

-----------------------------------------------------------------------------
(* Type invariant.                                                         *)

Labels ==
  {"idle", "run_get", "run_start", "run_steps", "step_start", "exec", "retry",
   "save", "fail", "gate", "finish", "resume_get", "resume_start",
   "resume_event", "cancel_lock", "cancel_steps", "cancel_flush",
   "cancel_commit", "approve_lock", "approve_get", "approve_steps",
   "approve_commit", "call_get", "call_steps", "call", "call_save",
   "call_fail", "reject_lock", "reject_get", "reject_steps", "reject_commit"}

\* Every variable ranges over the values the columns and the handlers allow.
TypeOK ==
  /\ db \in RowValues
  /\ ap \in [Steps -> ApprovalStatus \cup {"none"}]
  /\ due \subseteq Steps
  /\ pc \in [Requests -> Labels]
  /\ tgt \in [Requests -> 0..N]
  /\ known \in [Requests -> SUBSET (0..N)]
  /\ view \in [Requests -> RowValues]
  /\ dirty \in [Requests -> SUBSET Columns]
  /\ pend \in [Requests -> SUBSET Steps]
  /\ held \in [Requests -> SUBSET (Modes \X (0..2 * N))]
  /\ begun \in 0..MaxRequests
  /\ lost \subseteq 0..N
  /\ tries \in [Requests -> [Steps -> 0..ExecCap]]
  /\ calls \in [Steps -> Nat]

-----------------------------------------------------------------------------
(* What holds however requests interleave.                                 *)

\* The approval service keeps its promise: every step of the engine is a step
\* of ApprovalGate, or leaves the approvals and the executions alone.
Promise ==
  INSTANCE ApprovalGate WITH
    Actions <- Steps, Gated <- Consequential, decision <- ap, executed <- calls

ImplementsPromise == Promise!Spec

\* A consequential operation is executed at most once, whatever the requests
\* that approve, reject, cancel, run and resume it at the same time, and
\* whatever sessions are lost.
ConsequentialAtMostOnce == \A s \in Steps : calls[s] <= 1

\* An operation that was executed had been approved, and no later decision
\* took the approval back.
ActedOnlyOnApproval == \A s \in Steps : calls[s] > 0 => ap[s] = "approved"

\* Once approved, rejected or cancelled, an approval keeps that status.  (An
\* expired one may still be cancelled with its workflow.)
DecisionsAreFinal ==
  [][\A s \in Steps : ap[s] \in {"approved", "rejected", "cancelled"}
                        => ap'[s] = ap[s]]_vars

\* A workflow that waits for approval waits at exactly one step, and that
\* step has an approval request that was not approved or rejected.
WaitingAtOneGate ==
  db.status = "waiting_for_approval" =>
    \E s \in Steps :
      /\ db.step_status[s] = "waiting_for_approval"
      /\ ap[s] \in {"pending", "expired", "cancelled"}
      /\ \A q \in Steps \ {s} : db.step_status[q] # "waiting_for_approval"

\* A consequential step is recorded as completed only if its operation was
\* executed: no run completes it on its own.
CompletedWasCalled ==
  \A s \in Consequential : db.step_status[s] = "completed" => calls[s] = 1

\* Cancelling or rejecting a workflow leaves no approval to be given.
CancelledLeavesNothingPending ==
  db.status = "cancelled" => \A s \in Steps : ap[s] # "pending"

\* No request executes a step more than once beyond its retries, and nothing
\* records more retries than there are, whatever else works on the workflow and
\* however requests end: a count may be lost with its session, but no request
\* goes on from a count that it has lost.
TriesAreBounded ==
  \A s \in Steps :
    /\ \A r \in Requests : tries[r][s] <= MaxRetries[s] + 1
    /\ db.retry_count[s] <= MaxRetries[s]

-----------------------------------------------------------------------------
(* The inductive invariant behind those properties.                        *)

AtStep     == {"step_start", "exec", "retry", "save", "fail", "gate"}
Locking    == {"approve_lock", "reject_lock"}
Deciding   == {"approve_get", "approve_steps", "approve_commit",
               "reject_get", "reject_steps", "reject_commit"}
Calling    == {"call_get", "call_steps", "call"}
Called     == {"call_save", "call_fail"}
Cancelling == {"cancel_steps", "cancel_flush", "cancel_commit"}

\* A request that is about to work on a step has one to work on.
HasItsStep(r) ==
  /\ pc[r] \in AtStep => Incomplete(view[r]) # {}
  /\ pc[r] = "gate" => Current(r) \in Consequential
  /\ pc[r] \in Locking \cup Deciding \cup Calling \cup Called => tgt[r] \in Steps

\* A request that decides an approval has locked it while it was pending.
HoldsItsApproval(r) ==
  pc[r] \in Deciding =>
    /\ ap[tgt[r]] = "pending"
    /\ <<"update", ApprovalRow(tgt[r])>> \in held[r]

\* A request on its way to the connector has an approval nobody has used.
HasUnusedApproval(r) ==
  pc[r] \in Calling => ap[tgt[r]] = "approved" /\ calls[tgt[r]] = 0

\* A cancellation locks the workflow, so no approval it found pending can
\* have been approved or rejected since.
HoldsTheWorkflow(r) ==
  /\ pc[r] \in Cancelling => <<"update", WorkflowRow>> \in held[r]
  /\ pc[r] = "cancel_commit" =>
       \A s \in pend[r] : ap[s] \in {"pending", "expired", "cancelled"}

\* No two requests decide, or act on, the same approval.
Apart(q, r) ==
  /\ pc[q] \in Deciding /\ pc[r] \in Deciding => tgt[q] # tgt[r]
  /\ pc[q] \in Calling /\ pc[r] \in Calling => tgt[q] # tgt[r]

GateInv ==
  /\ \A r \in Requests : HasItsStep(r)
  /\ \A r \in Requests : HoldsItsApproval(r)
  /\ \A r \in Requests : HasUnusedApproval(r)
  /\ \A r \in Requests : HoldsTheWorkflow(r)
  /\ \A q, r \in Requests : q # r => Apart(q, r)
  /\ ConsequentialAtMostOnce
  /\ ActedOnlyOnApproval

-----------------------------------------------------------------------------
(* What holds as long as requests come one at a time.                      *)

\* A terminal workflow keeps its status.
TerminalIsFinal ==
  [][db.status \in Terminal => db'.status = db.status]_vars

\* A consequential operation starts only while the committed workflow is
\* running and the committed step is approved.
ActsOnCommittedState ==
  [][\A s \in Steps : calls'[s] # calls[s] =>
       db.status = "running" /\ db.step_status[s] = "approved"]_vars

\* When nobody works on a running workflow, a request can go on with it: the
\* step that is next has no approval request, at which its gate would fail.  It is
\* left otherwise only by the loss of a session, and only after an approval: of the
\* session that gave it, with the approved step not recorded, which no request can go
\* on with; or with all the steps recorded, which a run finishes.
RunningCanGoOn ==
  /\ \A r \in Requests : pc[r] = "idle"
  /\ db.status = "running"
  => IF Incomplete(db) = {} THEN lost # {}
     ELSE \/ ap[FirstIncomplete(db)] = "none"
          \/ ap[FirstIncomplete(db)] = "approved" /\ FirstIncomplete(db) \in lost

\* The completed steps are the first current_step ones, and all of them when
\* the workflow is completed.
ProgressIsRecorded ==
  /\ {s \in Steps : db.step_status[s] = "completed"} = 1..db.current_step
  /\ db.status = "completed" => db.current_step = N

\* An approval is pending only while its workflow waits at its step: no failed,
\* cancelled or finished workflow leaves one to be given.
PendingWhileWaiting ==
  \A s \in Steps : ap[s] = "pending" =>
    db.status = "waiting_for_approval" /\ db.current_step = s - 1

\* A workflow that waits for an approval that expired, or whose action changed,
\* can only be cancelled: nothing asks for the approval again.
LapsedOnlyCancels ==
  [][/\ db.status = "waiting_for_approval"
     /\ \A s \in Steps : ap[s] # "pending"
     => db'.status \in {"waiting_for_approval", "cancelled"}]_vars

-----------------------------------------------------------------------------
(* What cannot be acted on.                                                *)

\* A step whose arguments redact() changes is never executed: its approval
\* does not match the step and is taken back when it is given.
RedactedNeverCalled == \A s \in Redacted : calls[s] = 0 /\ ap[s] # "approved"

\* A step whose operation is gone fails before anything is asked or executed
\* for it or for a later step.
UnavailableStopsTheRun ==
  \A u \in Unavailable : \A s \in u..N :
    /\ ap[s] = "none"
    /\ calls[s] = 0
    /\ db.step_status[s] \in {"pending", "failed", "cancelled"}

-----------------------------------------------------------------------------
(* What happens eventually, when no session is lost.                       *)

\* Every request is answered: waiting for locks and retries end.
EveryRequestEnds ==
  \A r \in Requests : pc[r] # "idle" ~> pc[r] = "idle"

\* An approved step is executed, or its workflow ends.
ApprovedIsConsumed ==
  \A s \in Steps :
    (db.step_status[s] = "approved") ~>
       (db.step_status[s] # "approved" \/ db.status \in Terminal)
=============================================================================
