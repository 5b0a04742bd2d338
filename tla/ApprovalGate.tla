---------------------------- MODULE ApprovalGate ----------------------------
(***************************************************************************)
(* What the approval service promises about each consequential action: it  *)
(* is asked for once, it is decided once, and it is executed at most once  *)
(* and only after it was approved.  Nothing is said of workflows, sessions *)
(* or locks; WorkflowEngine implements this specification.                 *)
(***************************************************************************)
EXTENDS Naturals

CONSTANTS
  Actions,   \* the steps of a workflow
  Gated      \* those that need an approval

VARIABLES
  decision,  \* action -> status of its approval request, "none" before it
  executed   \* action -> how often its operation was executed

vars == <<decision, executed>>

Decisions ==
  {"none", "pending", "approved", "rejected", "cancelled", "expired"}

Init ==
  /\ decision = [a \in Actions |-> "none"]
  /\ executed = [a \in Actions |-> 0]

Ask(a) ==
  /\ a \in Gated
  /\ decision[a] = "none"
  /\ decision' = [decision EXCEPT ![a] = "pending"]
  /\ UNCHANGED executed

Decide(a) ==
  /\ decision[a] = "pending"
  /\ \E d \in {"approved", "rejected", "expired"} :
       decision' = [decision EXCEPT ![a] = d]
  /\ UNCHANGED executed

\* An action that changed, or whose workflow is cancelled, loses its request,
\* expired or not.
Void(A) ==
  /\ \A a \in A : decision[a] \in {"pending", "expired", "cancelled"}
  /\ decision' = [a \in Actions |-> IF a \in A THEN "cancelled" ELSE decision[a]]
  /\ UNCHANGED executed

Execute(a) ==
  /\ decision[a] = "approved"
  /\ executed[a] = 0
  /\ executed' = [executed EXCEPT ![a] = 1]
  /\ UNCHANGED decision

Next ==
  \/ \E a \in Actions : Ask(a) \/ Decide(a) \/ Execute(a)
  \/ \E A \in SUBSET Actions : Void(A)

Spec == Init /\ [][Next]_vars
=============================================================================
