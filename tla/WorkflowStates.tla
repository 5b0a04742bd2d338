--------------------------- MODULE WorkflowStates ---------------------------
(***************************************************************************)
(* The status vocabularies of workflows, steps and approval requests, the  *)
(* workflow transition table and the retry classifier: the pure functions  *)
(* of app/workflows that every other workflow module is built on.          *)
(***************************************************************************)

WorkflowStatus ==
  {"pending", "running", "waiting_for_approval",
   "completed", "failed", "cancelled"}

ApprovalStatus == {"pending", "approved", "rejected", "cancelled", "expired"}

\* WorkflowStep.status is a free string column; these are the values written.
StepStatus ==
  {"pending", "waiting_for_approval", "approved",
   "completed", "failed", "rejected", "cancelled"}

\* The statuses the handlers refuse to leave.
Terminal == {"completed", "failed", "cancelled"}

\* _WORKFLOW_TRANSITIONS.
Transitions ==
  [pending              |-> {"running", "cancelled"},
   running              |-> {"waiting_for_approval", "completed", "failed",
                             "cancelled"},
   waiting_for_approval |-> {"running", "cancelled"},
   completed            |-> {},
   failed               |-> {},
   cancelled            |-> {}]

\* Mutant of CanMove: any status may follow.
CanMoveAnywhere(current, target) == target \in WorkflowStatus

\* require_workflow_transition raises exactly when this is FALSE.
CanMove(current, target) == target \in Transitions[current]

-----------------------------------------------------------------------------
(* What a step may be and how its execution may end. *)

StepType == {"connector", "tool", "knowledge"}

\* WorkflowStep.access_type is what the client declared, if anything.
AccessType == {"undeclared", "read", "write", "destructive"}

\* The error codes a failed execution of a read-only step reports, one
\* transient and one permanent per boundary.  A search reports none: `run`
\* catches KnowledgeError only, which search raises for a blank query and for
\* nothing else (an EmbeddingError is a RuntimeError).
ErrorCodes ==
  [connector |-> {"connector_execution_failed", "connector_input_invalid"},
   tool      |-> {"tool_execution_failed", "tool_input_invalid"},
   knowledge |-> {}]

\* is_retryable_workflow_failure.
IsRetryable(type, access, code) ==
  /\ access \notin {"write", "destructive"}
  /\ type \in StepType
  /\ code \in {"connector_execution_failed", "tool_execution_failed",
               "knowledge_unavailable"}
=============================================================================
