----------------------------- MODULE Connectors -----------------------------
(***************************************************************************)
(* The registered connectors, what the policy says of their operations,    *)
(* how a message is routed to one of them, and how a request ends.  All    *)
(* connectors are enabled and admit both roles.                            *)
(*                                                                         *)
(* A message is the set of the cues found in it.  The arguments of a       *)
(* request are "none", "given" (what the input model requires) or "bad".   *)
(***************************************************************************)

\* A connector: its capabilities by access type, the operations whose input
\* model is EmptyInput (which ignores what it is given), and those its execute
\* has a branch for.
LocalEmailConnector ==
  [read          |-> {"list_messages", "get_message", "search_messages"},
   write         |-> {"create_draft", "send_email"},
   destructive   |-> {},
   takes_nothing |-> {"list_messages"},
   executes      |-> {"list_messages", "get_message", "search_messages", "create_draft"}]

LocalCalendarConnector ==
  [read          |-> {"list_events", "get_event", "search_events"},
   write         |-> {"create_event"},
   destructive   |-> {"delete_event"},
   takes_nothing |-> {"list_events", "create_event"},
   executes      |-> {"list_events", "get_event", "search_events"}]

WorkspaceConnector ==
  [read          |-> {"list_files", "get_file_metadata", "read_text_file"},
   write         |-> {"create_text_file"},
   destructive   |-> {"delete_file"},
   takes_nothing |-> {"list_files"},
   executes      |-> {"list_files", "get_file_metadata", "read_text_file"}]

GitHubMockConnector ==
  [read          |-> {"list_repositories", "list_issues", "get_issue"},
   write         |-> {"create_issue"},
   destructive   |-> {"close_issue"},
   takes_nothing |-> {"list_repositories", "list_issues", "create_issue"},
   executes      |-> {"list_repositories", "list_issues", "get_issue"}]

MockMCPConnector ==
  [read          |-> {"echo", "summarize_text_metadata", "project_status", "read_resource"},
   write         |-> {},
   destructive   |-> {},
   takes_nothing |-> {"project_status"},
   executes      |-> {"echo", "summarize_text_metadata", "project_status", "read_resource"}]

\* get_connector_registry
Registry ==
  [local_email |-> LocalEmailConnector, local_calendar |-> LocalCalendarConnector,
   workspace |-> WorkspaceConnector, github_mock |-> GitHubMockConnector,
   mcp |-> MockMCPConnector]

Capabilities(id) ==
  Registry[id].read \cup Registry[id].write \cup Registry[id].destructive

-----------------------------------------------------------------------------
(* ConnectorExecutor.                                                      *)

\* input_model(operation).model_validate
ValidInput(request) ==
  \/ request.operation \in Registry[request.connector].takes_nothing
  \/ request.arguments = "given"

\* Mutant of RequiresApproval: only what cannot be undone waits.
RequiresApprovalToDestroy(request) ==
  request.operation \in Registry[request.connector].destructive

\* ConnectorPolicy.requires_approval
RequiresApproval(request) ==
  request.operation \in
    Registry[request.connector].write \cup Registry[request.connector].destructive

Result(status, code) == [status |-> status, code |-> code]

\* What ConnectorExecutor.execute comes to before it calls the connector;
\* approved is the answer of _has_approved_action.
Refusal(request, approved) ==
  IF request.operation \notin Capabilities(request.connector)
    THEN Result("error", "connector_operation_invalid")
  ELSE IF ~ ValidInput(request)
    THEN Result("error", "connector_input_invalid")
  ELSE IF RequiresApproval(request) /\ ~ approved
    THEN Result("approval_required", "none")
  ELSE Result("none", "none")

\* The connector is called.
IsCalled(request, approved) == Refusal(request, approved).status = "none"

\* How a request may end.  A call may fail on what is not there, or otherwise.
Results(request, approved) ==
  IF ~ IsCalled(request, approved) THEN {Refusal(request, approved)}
  ELSE {Result("error", "connector_operation_invalid"),
        Result("error", "connector_execution_failed")} \cup
       {Result("success", "none") :
          o \in Registry[request.connector].executes \cap {request.operation}}

-----------------------------------------------------------------------------
(* IntegrationRouter: from the cues of a message to a request.             *)

\* What follows "about" is the query; an empty one, or one of more than 200
\* characters, is bad.
EmailRequest(cues, query) ==
  [connector |-> "local_email",
   operation |-> IF "send" \in cues THEN "send_email"
                 ELSE IF {"about", "About"} \cap cues # {} THEN "search_messages"
                 ELSE "list_messages",
   arguments |-> IF {"about", "About"} \cap cues # {} /\ "send" \notin cues
                   THEN query ELSE "none"]

Bare(connector, operation) ==
  [connector |-> connector, operation |-> operation, arguments |-> "none"]

NoRequest == Bare("none", "none")

Select(cues, query) ==
  IF "email" \in cues THEN EmailRequest(cues, query)
  ELSE IF {"meeting", "event"} \cap cues # {} THEN Bare("local_calendar", "list_events")
  ELSE IF {"github", "repository"} \cap cues # {} THEN Bare("github_mock", "list_issues")
  ELSE IF "project_status" \in cues THEN Bare("mcp", "project_status")
  ELSE NoRequest

\* The router splits the message at "about" after it has found "about" in the
\* message in lower case: with another spelling only, the split raises.
SplitRaises(cues) ==
  {"email", "About"} \subseteq cues /\ {"send", "about"} \cap cues = {}
=============================================================================
