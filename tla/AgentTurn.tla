------------------------------ MODULE AgentTurn ------------------------------
(***************************************************************************)
(* What the agent runtime does with one message, from the memory it is     *)
(* given to the prompt and the answer, and the calls of connectors that    *)
(* come from elsewhere: the integrations API and approved workflow steps.  *)
(*                                                                         *)
(* An action is one node of the graph.  Turns share no state, so one of    *)
(* them at a time is modelled.  A message is the set of the cues found in  *)
(* it: words the supervisor, the planner or the integration router looks   *)
(* for.  Every agent and tool is enabled and admits both roles.            *)
(***************************************************************************)
EXTENDS Connectors, Naturals, Sequences, SequencesExt, FiniteSets

CONSTANTS
  Messages,      \* the messages clients send, as sets of cues
  Histories,     \* what memory recalls: the sizes of messages, oldest first
  Sizes,         \* of the message itself
  Settings,      \* environments the service may be started in
  MaxMessages,   \* memory_recent_messages
  MaxChars       \* memory_max_context_chars

ASSUME TurnAssumption ==
  /\ Settings \subseteq [multi_agent : BOOLEAN, max_delegations : Nat]
  /\ \A h \in Histories : h \in Seq(Nat)
  /\ Sizes \subseteq Nat
  /\ MaxMessages \in Nat \ {0}
  /\ MaxChars \in Nat

Cues ==
  {"email", "send", "about", "About", "meeting", "event", "github",
   "repository", "project_status", "document", "calculate", "calculated",
   "arithmetic", "percent_of_it", "time", "compare"}

\* "calculate" is the word with something behind it, "calculated" a longer word
\* that begins so, in which the planner reads a calculation as well.
\* "send email" contains "email", and "5% of it" an arithmetic operator.
ASSUME MessageAssumption ==
  \A m \in Messages :
    /\ m \subseteq Cues
    /\ "send" \in m => "email" \in m
    /\ "percent_of_it" \in m => "arithmetic" \in m

VARIABLES
  settings,
  pc,        \* the node that is next
  cues,      \* of the message
  messages,  \* state["messages"], as sizes
  recalled,  \* history: the sizes of what memory recalled, and of the message
  context,   \* retrieved: "none", "some", or "amount" with a sum in euros
  agents,    \* the delegated agents, in order
  request,   \* of a connector
  caller,    \* who requests it
  called,    \* history: the connector was called
  result,    \* of the connector
  plan,      \* the tool the plan names
  tool,      \* history: the tool that ran
  outcome,   \* of the tool: its status, "refused", or "none"
  prompt     \* whose result the prompt ends with: "connector", "tool" or "none"

memory == <<messages, recalled>>
connector == <<request, caller, called, result>>
tools == <<plan, tool, outcome>>
vars ==
  <<settings, pc, cues, memory, context, agents, connector, tools, prompt>>

-----------------------------------------------------------------------------
(* ContextBuilder.                                                         *)

AtMost(n, limit) == IF n > limit THEN limit ELSE n

Sum(sizes) == FoldSeq(+, 0, sizes)

LastOf(sizes, n) == SubSeq(sizes, Len(sizes) - n + 1, Len(sizes))

\* The message itself is always kept; before it, as many of the most recent
\* ones as fit, without a gap.
Truncated(sizes) ==
  LET Fits(n) == n = 1 \/ Sum(LastOf(sizes, n)) <= MaxChars
      kept    == {n \in 1..Len(sizes) : \A k \in 1..n : Fits(k)}
  IN  LastOf(sizes, Cardinality(kept))

\* Mutant of BuildMessages: the limit counts from the oldest message.
BuildMessagesFromOldest(history, size) ==
  Truncated(Append(SubSeq(history, 1, AtMost(Len(history), MaxMessages)), size))

BuildMessages(history, size) ==
  Truncated(Append(LastOf(history, AtMost(Len(history), MaxMessages)), size))

-----------------------------------------------------------------------------
(* Supervisor: who is to answer.                                           *)

\* The cues of an integration; "event" and "repository" are not among them.
IsIntegration(words) ==
  {"email", "meeting", "github", "project_status"} \cap words # {}

IsKnowledge(words) == context # "none" \/ "document" \in words

IsData(words) == {"calculate", "arithmetic"} \cap words # {}

If(condition, agent) == IF condition THEN <<agent>> ELSE <<>>

\* Mutant of Specialists: the last of them, who is to answer, is the one with
\* the evidence.
SpecialistsKnowledgeLast(words) ==
  <<"planner">> \o If(IsData(words), "data") \o If(IsKnowledge(words), "knowledge")

Specialists(words) ==
  <<"planner">> \o If(IsKnowledge(words), "knowledge") \o If(IsData(words), "data")

SelectAgents(words) ==
  IF IsIntegration(words) THEN <<"integration">>
  ELSE IF (IsKnowledge(words) /\ IsData(words)) \/ "compare" \in words
         THEN Specialists(words)
  ELSE IF IsData(words) THEN <<"data">>
  ELSE IF IsKnowledge(words) THEN <<"knowledge">>
  ELSE <<"general">>

\* What max_agent_delegations leaves of them.
Delegated(words) ==
  LET chosen == IF settings.multi_agent THEN SelectAgents(words) ELSE <<"general">>
  IN  SubSeq(chosen, 1, AtMost(Len(chosen), settings.max_delegations))

\* The agent the turn runs as: the last one a task was given.
Selected == IF agents = <<>> THEN "general" ELSE Last(agents)

AllowedTools ==
  [general |-> {"calculator", "current_time"}, data |-> {"calculator"},
   knowledge |-> {}, planner |-> {}, integration |-> {}]

-----------------------------------------------------------------------------
(* A turn.                                                                 *)

\* A client sends a message; memory recalls what was said before.
Receive ==
  /\ pc = "idle"
  /\ cues' \in Messages
  /\ \E h \in Histories, s \in Sizes :
       /\ messages' = BuildMessages(h, s)
       /\ recalled' = Append(h, s)
  /\ pc' = "retrieve"
  /\ UNCHANGED <<settings, context, agents, connector, tools, prompt>>

\* The documents are searched.  No node reads state["messages"].
Retrieve ==
  /\ pc = "retrieve"
  /\ context' \in {"none", "some", "amount"}
  /\ messages' = <<>>
  /\ recalled' = <<>>
  /\ pc' = "supervisor"
  /\ UNCHANGED <<settings, cues, agents, connector, tools, prompt>>

Supervise ==
  /\ pc = "supervisor"
  /\ agents' = Delegated(cues)
  /\ pc' = "integration"
  /\ UNCHANGED <<settings, cues, memory, context, connector, tools, prompt>>

\* Whoever was selected, a message the router knows is a request.
Integrate ==
  /\ pc = "integration"
  /\ ~ SplitRaises(cues)
  /\ \E query \in {"given", "bad"} : request' = Select(cues, query)
  /\ IF request' = NoRequest
       THEN UNCHANGED <<caller, called, result>>
       ELSE /\ caller' = "chat"
            /\ called' = IsCalled(request', FALSE)
            /\ result' \in Results(request', FALSE)
  /\ pc' = "planner"
  /\ UNCHANGED <<settings, cues, memory, context, agents, tools, prompt>>

\* An exception in a node is one of the graph, and of the request.
IntegrationRaises ==
  /\ pc = "integration"
  /\ SplitRaises(cues)
  /\ pc' = "failed"
  /\ UNCHANGED <<settings, cues, memory, context, agents, connector, tools, prompt>>

\* The tool the request is planned with.
PlannedTool ==
  IF \/ {"calculate", "calculated"} \cap cues # {}
     \/ "percent_of_it" \in cues /\ context = "amount"
    THEN "calculator"
  ELSE IF "time" \in cues THEN "current_time"
  ELSE "none"

Plan ==
  /\ pc = "planner"
  /\ plan' = PlannedTool
  /\ pc' = "executor"
  /\ UNCHANGED <<settings, cues, memory, context, agents, connector, tool, outcome,
                 prompt>>

\* ToolExecutor: input, execution and output may be in error.
Run(name) ==
  /\ tool' = name
  /\ outcome' \in {"success", "error"}

\* The planned tool runs if the selected agent may use it.
Execute ==
  /\ pc = "executor"
  /\ IF plan = "none" THEN UNCHANGED <<tool, outcome>>
     ELSE IF plan \in AllowedTools[Selected] THEN Run(plan)
     ELSE outcome' = "refused" /\ UNCHANGED tool
  /\ pc' = "llm"
  /\ UNCHANGED <<settings, cues, memory, context, agents, connector, plan, prompt>>

\* A connector's result replaces that of a tool, and the evidence with it.
Prompt ==
  IF result.status # "none" THEN "connector"
  ELSE IF outcome # "none"  THEN "tool"
  ELSE "none"

Answer ==
  /\ pc = "llm"
  /\ prompt' = Prompt
  /\ pc' = "answered"
  /\ UNCHANGED <<settings, cues, memory, context, agents, connector, tools>>

\* The provider fails, or agent_timeout has passed: the graph is cancelled
\* where it is.
Fail ==
  /\ pc \notin {"idle", "retrieve", "answered", "failed"}
  /\ pc' = "failed"
  /\ UNCHANGED <<settings, cues, memory, context, agents, connector, tools, prompt>>

\* The client has its answer, and the state of the graph is gone.
Return ==
  /\ pc \in {"answered", "failed"}
  /\ pc' = "idle"
  /\ cues' = {}
  /\ messages' = <<>>
  /\ recalled' = <<>>
  /\ context' = "none"
  /\ agents' = <<>>
  /\ request' = NoRequest
  /\ caller' = "none"
  /\ called' = FALSE
  /\ result' = Result("none", "none")
  /\ plan' = "none"
  /\ tool' = "none"
  /\ outcome' = "none"
  /\ prompt' = "none"
  /\ UNCHANGED settings

-----------------------------------------------------------------------------
(* Requests of connectors that no message is routed to.                    *)

Registered(q) == q.operation \in Capabilities(q.connector)

IsRead(q) == q.operation \in Registry[q.connector].read

\* A request comes to ConnectorExecutor.execute.
Call(who) ==
  /\ pc = "idle"
  /\ caller' = who
  /\ called' = IsCalled(request', who = "approved")
  /\ result' \in Results(request', who = "approved")
  /\ pc' = "answered"
  /\ UNCHANGED <<settings, cues, memory, context, agents, tools, prompt>>

AnyRequest ==
  [connector : DOMAIN Registry,
   operation : UNION {Capabilities(id) : id \in DOMAIN Registry},
   arguments : {"none", "given", "bad"}]

\* POST /integrations/{id}/execute, with no approved action.
CallDirectly == request' \in AnyRequest /\ Call("api")

\* WorkflowExecutor.run, which gates what is registered and not a read.
CallForStep ==
  /\ request' \in {q \in AnyRequest : Registered(q) /\ IsRead(q)}
  /\ Call("run")

\* WorkflowExecutor.execute_approved, whose recheck may fail.
CallForApproval ==
  /\ request' \in {q \in AnyRequest : Registered(q) /\ ~ IsRead(q)}
  /\ \E who \in {"approved", "unapproved"} : Call(who)

-----------------------------------------------------------------------------
\* create_initial_state
Init ==
  /\ settings \in Settings
  /\ pc = "idle"
  /\ cues = {}
  /\ messages = <<>>
  /\ recalled = <<>>
  /\ context = "none"
  /\ agents = <<>>
  /\ request = NoRequest
  /\ caller = "none"
  /\ called = FALSE
  /\ result = Result("none", "none")
  /\ plan = "none"
  /\ tool = "none"
  /\ outcome = "none"
  /\ prompt = "none"

Next ==
  \/ Receive \/ Retrieve \/ Supervise \/ Integrate \/ IntegrationRaises
  \/ Plan \/ Execute \/ Answer \/ Fail \/ Return
  \/ CallDirectly \/ CallForStep \/ CallForApproval

Spec == Init /\ [][Next]_vars

-----------------------------------------------------------------------------
\* Nothing but a read is executed for a message, for the integrations API or
\* for a step that was not approved; and the workflow executor and the connector
\* policy, which tell reads from the rest each in its own way, agree: no step
\* that run executes without a gate is refused for want of an approval.
GatesAgree ==
  /\ called /\ caller # "approved" => IsRead(request)
  /\ caller = "run" => result.status # "approval_required"

\* The supervisor finds somebody who may calculate: nobody is chosen, the message
\* looks like a calculation to it, or like nothing in particular.
SomebodyCalculates(words) ==
  \/ ~ settings.multi_agent
  \/ IsData(words)
  \/ ~ (IsKnowledge(words) \/ "compare" \in words)

\* If delegations are enough for three agents, a calculation that is planned for a
\* message that is no integration is done, unless the supervisor, whose expression
\* is another, sees none in it and sees something else; then, and only then, it is
\* refused.  Either way the answer is told, unless a connector's result comes first.
CalculationIsServed ==
  /\ pc \in {"llm", "answered"}
  /\ ~ IsIntegration(cues)
  /\ settings.multi_agent => settings.max_delegations >= 3
  /\ PlannedTool = "calculator"
  => /\ tool = IF SomebodyCalculates(cues) THEN "calculator" ELSE "none"
     /\ pc = "answered" => prompt \in {"tool", "connector"}

\* The agent is given the most recent messages without a gap, as many as the
\* two limits allow, and always the one it has to answer.
ContextIsRecent ==
  pc = "retrieve" =>
    /\ IsSuffix(messages, recalled)
    /\ Len(messages) \in 1..(MaxMessages + 1)
    /\ Len(messages) = 1 \/ Sum(messages) <= MaxChars
    /\ Len(messages) < Len(recalled) /\ Len(messages) <= MaxMessages =>
         ~ (Sum(LastOf(recalled, Len(messages) + 1)) <= MaxChars)
=============================================================================
