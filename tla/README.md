# Formal models of the Enterprise AI Employee backend

TLA+ modules for the FastAPI backend under `src/backend/app`, TLC configurations
that model-check them on small instances, and proofs that the TLA+ proof system
(`tlapm`) checks for every value of the constants. Paths below are relative to
`src/backend/app` unless they start with `src/`.

Contents: [the system](#the-system) · [the modules](#the-modules) ·
[model and code](#model-and-code) · [runs](#runs) ·
[what the code does differently](#what-the-code-does-differently) ·
[proofs](#proofs) · [not modelled](#not-modelled) · [plan](#plan) ·
[how to run](#how-to-run)

## The system

The backend serves a JSON API, one coroutine per request on one event loop, with
several server processes allowed. Every request has a database session of its
own (`database/session.py`); requests share PostgreSQL (READ COMMITTED), Redis and
a directory of uploaded files, and nothing else. Two features of the sessions
shape most of what can go wrong:

* `expire_on_commit=False`: a row, once loaded, is not read again for the rest of
  the request, though the database may have moved on;
* a flush writes the columns the request changed, with no version check: the last
  writer wins. Only `approve`, `reject` and `cancel` lock the row they begin with.

| Component | State | Operations | Interacts with | Correct means |
|---|---|---|---|---|
| Workflow engine (`workflows/executor.py`, `service.py`, `state_machine.py`) | workflow row (status, current_step), step rows (status, retry_count), audit events | create, run, resume, cancel, retry | approvals, connectors, tools, knowledge search | terminal statuses are final; progress is recorded; a request's retries are bounded; whatever ends a request, another can go on; the audit trail agrees with the rows |
| Approval gate (`workflows/approvals.py`, `service.gate_approval`) | one approval row per step, with expiry and a hash of the action | ask, approve, approve and execute, reject, expire, void | workflow rows; the connector's own recheck | a consequential operation is executed at most once, only after it was approved; decisions are final; cancelled means nothing is left to approve |
| Connector executor and connectors (`integrations/`) | none of its own (audit rows) | validate, authorise, check approval, call | engine, agent graph, integrations API | reads run, everything else waits for an approval, whoever asks |
| Agent runtime and graph (`agents/`) | the graph's state for one message | recall, retrieve, supervise, integrate, plan, execute a tool, answer, store | memory, knowledge, connectors, tools, LLM | supervisor, planner and router, which match different words, agree; the context is the most recent that fits |
| Conversation memory (`services/memory.py`, `services/chat.py`, `repositories/chat.py`) | conversation row, messages, a page of messages in Redis | create, recall, store, drop the page, edit, delete | agent runtime, chat API | turns in order; only the owner's; deleted stays gone; concurrent edits keep apart; the page is not stale |
| Knowledge base (`services/knowledge.py`, `chunking.py`, `repositories/knowledge.py`) | document rows, chunks, files | upload and ingest, fail, delete, search | agent runtime, engine | ready means complete and searchable for every passage; a search sees documents whole; a file is not forgotten; uploads and deletions settle |
| Authentication (`services/auth.py`) | users, refresh tokens | register, login, refresh | every route | unique accounts; a used refresh token is used up; rotation is atomic |
| Rate limiter (`utils/rate_limit.py`) | a counter per client and group of paths in Redis | allow | the HTTP middleware | a counter without a time to live gets one; refusals end |
| Connection pool and provider calls (`database/session.py`, `auth/dependencies.py`, `llm/`) | connections of the requests' sessions, attempts of a call | take, commit, wait, time out, retry, give back | every route | the pool never waits for itself below its capacity; every request but a websocket ends |
| Tools (`tools/`), settings, migrations, frontend | — | — | — | see [not modelled](#not-modelled) |

What makes it hard: requests interleave at every `await`; copies of rows go stale
between the read and the write; a session may be lost between two commits of the
same request (`approve` commits, then `execute_approved` calls the connector and
commits again); row locks can deadlock; Redis may fail any command; the database
write, the file and the cache entry that belong together are three separate steps.
`PROJECT.json` lists these hazards one by one at the line where they bite, with the
properties that look for them.

## The modules

| Module | Models | Used by |
|---|---|---|
| `WorkflowStates` | statuses, the transition table, which failures are retried | `WorkflowEngine` |
| `RowLocks` | PostgreSQL row-lock modes and their conflicts | `WorkflowEngine` |
| `WorkflowEngine` | workflow engine and approval gate: sessions, statements, locks | `MCWorkflowEngine`, proofs |
| `WorkflowTrail` | the same engine with the audit events its transactions insert | `MCWorkflowTrail` |
| `ApprovalGate` | abstract specification: what the gate promises | implemented by `WorkflowEngine` (`Promise`, `ImplementsPromise`) |
| `ConversationMemory` | conversation, messages, edits and cached page | `MCConversationMemory`, proofs |
| `TextChunks` | the chunker as an operator, and what a chunking must keep | `KnowledgeIngest`, proofs |
| `KnowledgeIngest` | uploads, failures, deletions and searches of documents | `MCKnowledgeIngest`, proofs |
| `RateLimiter` | the Redis counter | instantiated by `RequestPath` |
| `RequestPath` | a request through limiter, authentication, handler, providers and the connection pool | `MCRequestPath`, proofs |
| `AuthSessions` | accounts and rotation of refresh tokens | `MCAuthSessions`, proofs |
| `Connectors` | registry, capabilities, policy, routing, order of the checks | `AgentTurn` |
| `AgentTurn` | one message through the graph; connector calls from elsewhere | `MCAgentTurn` |
| `WorkflowGateProofs` ← `WorkflowStepsProofs` ← `WorkflowRecordProofs` | types and the gate; what statuses tell of executions, the order of gates; the trail, and requests one at a time | |
| `AuthSessionsProofs`, `RequestPathProofs`, `ConversationMemoryProofs`, `AgentTurnProofs` | theorems of those modules | |
| `KnowledgeProofs` | the knowledge base, and the chunker for every text | |

An `MC` module gives the constants of a module values for TLC; a `.cfg` belongs to
it. A definition preceded by "Mutant of" is a plausible bug in the definition below
it, kept so that every property can be shown to notice one (`mutants` in
`PROJECT.json`); no specification uses it.

## Model and code

`PROJECT.json` "map" names the lines of each definition. In general, an action is one
awaited statement with the Python code around it, its `pc` label is the statement the
request is about to issue, and a return, raise or lost session is `Leave`, which
rolls back what was not committed.

**WorkflowEngine.** `db` holds the committed workflow and step columns, `ap` the
approval of each step, `due` those past `expires_at`. Per request: `known`/`view` are
the identity map, `dirty` the flushed and uncommitted columns, `held` the row locks,
`pend` the approvals a cancellation has read, `tgt` the step it decides or calls. A
flush (`Flush`) writes the columns that changed and waits for conflicting locks
(`Granted`); a commit (`Persist`) merges them into `db`. The event row that
`record_event` inserts is modelled by the `KEY SHARE` lock its foreign key takes on
the workflow: that lock is what orders an approval against a cancellation.
`Deadlocked`/`AbortDeadlocked` is PostgreSQL's deadlock detection. `MayRetry` uses the
access type the client *declared*, the gate the one the registry has, as the code
does. A search that fails raises an `EmbeddingError`, which nothing in `run` catches
(`ExecRaises`). Three variables are history: `tries` counts what each request has executed
itself, `calls` the consequential operations, and `lost` holds the steps whose approval a lost
session was to act on.
One workflow is enough: handlers of different workflows share no row.

**WorkflowTrail.** `TrailNext` takes a step of the engine and what `record_event` adds to
it: `noted` holds the events a transaction has inserted, `trail` counts the committed
ones. `Recorded` says which statement inserts which event. Every `TrailNext` step is a
step of `Next` (or a stutter), so the invariants of the engine hold of it as they stand.

**ApprovalGate.** Per action a decision and a count of executions; `Ask`, `Decide`,
`Void`, `Execute`. Nothing of workflows, sessions or locks.

**ConversationMemory.** One conversation id. `cache` is the page in Redis: it is
read, filled and dropped by separate commands, any of which may fail; `ExpirePage` is
its time to live. Messages are ordered by `created_at`, taken at the flush. A stream
stores nothing; a posted message does not drop the page. An edit (`Patch`) reads the row,
sets the fields it names and writes the columns that changed (`ask`, `seen`). `SearchFails`
turns on the `EmbeddingError` that `agents/runtime.py:64` does not catch. Two creations of
the same id at once: the second fails on the primary key.

**TextChunks / KnowledgeIngest.** A character is TRUE or FALSE (a blank): that is all
the chunker looks at. An upload commits its row twice (`pending`, `processing`), works,
and commits chunks and status together; the two failure handlers differ (`FailGet`
and `Refused`: after a rollback of an open transaction every attribute of the document
is expired, and reading `document.id` outside of a greenlet raises). A search is asked for
some of its user's documents (or all), loads the chunks with one statement (`Select`), and
embeds and ranks afterwards (`Rank`); `missing` are the documents that were gone already when
it was sent.

**RateLimiter.** INCR, EXPIRE and TTL are separate; `FailOpen` is the `except`.
The counter saturates at `Limit + 1`, above which nobody can tell counts apart.

**RequestPath.** A request is where it stands (`at`), what kind of route it takes, and which
of its two sessions has a connection (`first`: the one of the authentication dependency,
`second`: the one a chat opens itself). A session takes a connection for its first statement
and gives it back when its transaction ends; with none free the statement waits, and
raises after the pool's timeout (`TimeOut`; SQLAlchemy's, 30 s, pool of 5 and 10 more:
external, not set in the code). `Fails` and `Unusable` are the attempts of
`llm/providers/ollama.py`, twice as many for an embedding, all within the open transaction.
`LateExit` says whether dependencies are left after a streamed answer, which depends on the
release of FastAPI. What handlers compute is in the other modules; here only their commits
and provider calls count (`work`, at most `MaxWork`). The limiter is an INSTANCE of
`RateLimiter`.

**AuthSessions.** A token is the number of the request that issued it. `Commit` is the
commit when the dependency is left, before the answer or (`Answer`) after it,
depending on the release of FastAPI. `Rotate` waits for a concurrent UPDATE of the
same row and then overwrites it, as SQLAlchemy's UPDATE by primary key does.

**AgentTurn / Connectors.** A message is the set of cues in it: words that supervisor,
planner or router look for, one per group that the three treat alike (`email` stands
for `mailbox` too; `calculate` is the word by itself with an expression after it, `calculated` one that only
begins with it, which the planner's expression also takes (`agents/planner.py:60`) and the supervisor's does not
(`agents/supervisor.py:83`); `arithmetic` is a digit followed by an operator, without the word "calculate"). Two of them imply another
(`MessageAssumption`). `context` is what retrieval found, `prompt` what the answer is told last: the result of a tool, of a connector, or neither. Every node of `agents/graph.py`
is an action; the router node, which copies the plan's tool, is part of `Plan`.
`CallDirectly`, `CallForStep` and `CallForApproval` are the other callers of
`ConnectorExecutor.execute`.

## Runs

| Run | Instance | What it shows |
|---|---|---|
| `sequential` | 5 steps: a tool, a write, a tool, a search, and a write with arguments that `redact()` changes; 7 requests, one at a time, sessions may be lost | a running workflow can be gone on with, recorded progress, approvals pending only where the workflow waits, terminal statuses final, lapsed approvals only cancel, redacted writes never run, operations are called for what is committed |
| `concurrent` | 3 steps (tool, write, search), 4 requests, 2 at a time, sessions may be lost | the gate: at most once, only when approved, decisions final, one gate at a time, completed means called, cancelled leaves nothing pending; `GateInv` (the inductive invariant); a request's tries of a step are bounded; refinement of `ApprovalGate` |
| `liveness` | the same workflow with its audit trail, 3 requests, no session is lost | every request is answered; an approved step is executed or its workflow ends; the trail agrees with the rows |
| `late_write`, `stale_check` | 2 steps, 2 requests at a time, no session is lost | disagreements, see below |
| `wedged` | 2 steps with the audit trail, one request at a time, sessions may be lost | disagreement, see below |
| `memory` | 2 users, pages of 2, 3 requests (chats, streams, posts, edits, deletions), 2 at a time, Redis and search may fail, sessions may be lost | order of turns, ownership, deletion, only committed messages recalled, edits keep apart |
| `memory_late_fill` | 1 user, no failures | disagreement, see below |
| `knowledge` | 2 documents of one user (1 page and 2 pages), chunks of 4 with overlap 1, 2 deletions, a search, lost sessions and a failing database | ready is complete, searches see documents whole, no forgotten file, settled documents stay, uploads and deletions settle |
| `requests` | 3 requests of every kind, pool of 2, limit 1, 2 attempts | the pool advances; only a failed or lost EXPIRE leaves a counter without a time to live; every request but a websocket ends |
| `auth` | 2 emails, 2 names, 4 requests, 2 at a time, lost sessions and answers | unique accounts, atomic rotation, used tokens are used up |
| `agent` | up to 3 cues of 16, 3 environments, histories of up to 3 messages, every call of every connector | gates agree, a planned calculation is done or refused as the supervisor chose, context is recent |

**Why the bounds are enough to be interesting.** Two requests at a time already give
every pair of handlers every interleaving, and requests that come after each other
reach the states that only a sequence reaches: four suffice for run, approve, and any
two others (three in `liveness`, whose trail multiplies the states: run, approve and one more,
which may be the resume that completes the workflow). Three steps give a gate with something before and after it. In `sequential`
seven requests walk through both gates of a five-step workflow with requests to spare; between the
gates a search follows a tool, so that a search that raises undoes a step, and any session may be lost
besides: before, between and after the commits. In `concurrent` a tool with one retry is counted up to three times
(`ExecCap`), one more than it may be. The
second chat of `memory` overflows its page. A token of `auth` can be presented twice at
once and again later. Two chats fill the pool of `requests`, and a third request waits behind
them; two attempts make a retry. Events of a kind are counted up to two (`TrailCap`): once, or
more often. Two documents show that what happens to one leaves the other
alone. The three cues of `agent` are one per component that looks at words. Slots, users, emails and
names are interchangeable, and are symmetry sets in the runs that check no liveness.

**What the `concurrent` run does not ask.** Some of the properties of `sequential` fail
when requests overlap (`late_write` shows it for `TerminalIsFinal`, `stale_check` for `ActsOnCommittedState`), so they
are claims about one request at a time only, and their comments say so.

**Fairness.** `WF(Handle(r))`: the event loop runs every handler whose statement can
proceed. `WF(AbortDeadlocked(r))`: PostgreSQL's deadlock detector. `WF(WindowEnds)`:
Redis expires keys. In `RequestPath`, `Handle` contains waits that end because something
bounds them: provider attempts and the agent have timeouts in the code, the pool has
SQLAlchemy's, and a stream ends (`Told`) because the provider's does or its client has gone;
`Used` may stay at the capacity for ever, as websockets can hold it, and `RequestsEnd` holds
all the same. Nothing is assumed of clients: `Post`, `Send`, `Upload`, `Delete`, `Ask`,
`Arrive` and `HangUp` are unfair, and so are failures. Workflow liveness is stated without
lost sessions (`Faults = FALSE`), and `RunningCanGoOn` excepts the step of the lost session (`lost`) and no other; in `KnowledgeIngest` and `RateLimiter` the history variables
`hurt` and `stuck` single out exactly the documents, and the counter, that something
happened to, and the properties promise nothing about those.

## What the code does differently

Four runs expect a violation; `findings` in `PROJECT.json` quotes the text the code
disagrees with.

* **late_write** — `resume` reads a pending workflow without a lock (`workflows/executor.py:234`); a cancellation
  commits; `resume` checks the transition against the copy it has and commits running over cancelled (lines
  247-248). `run` checks its own copy in the same way.
* **stale_check** — the connector's recheck (`integrations/executor.py:139`) uses
  `session.get`, which answers from the copies the same request has just loaded: a
  cancellation that commits between that load and the call is not noticed, and the
  operation of a cancelled workflow is executed.
* **wedged** — a run asks for an approval, an approve commits it, and its session is lost before the operation is
  called. The workflow stays running; a resume comes to the gate of the approved step and fails on the unique
  `workflow_step_id`, as every later one does. The property speaks of a run that was resumed, which its event
  (`noted`) tells; `RunningCanGoOn` excepts this step. (That no second execution happens is the other side of
  it: `ConsequentialAtMostOnce`.)
* **memory_late_fill** — a chat that missed the cache fills it with what it read
  before another chat stored its messages and dropped the page.

### Observations

Seen in the models or while writing them, and not kept as runs:

* The docstring of `_execute_with_retries` says that `max_retries` of two "permits at most three total executions of
  a safe step" (`workflows/executor.py:43-44`). That holds within a request (`TriesAreBounded`), and not over several:
  two runs at once each count in their own copy; and one request at a time, the completion of a tool
  and its `retry_count` are flushed and not committed until a gate, a failure or the end
  (`workflows/executor.py:220`), so that a search after it that raises (`ExecRaises`) rolls both back, and
  the next run executes the tool again with all of its retries.
* `services/memory.py:128` asks for page 1, which is the *oldest* page: once a
  conversation is longer than a page, the agent recalls its beginning
  (`src/MILESTONE_6_IMPLEMENTATION.md:266` says recent messages).
* `POST /chat/messages` leaves the cached page as it is (`services/chat.py:80`; `src/MILESTONE_6_IMPLEMENTATION.md:151`
  says that the cache is cleared on message creation): a chat that fills the cache and then fails, and a post after it,
  violate `CacheIsCurrent` with one request at a time. `memory_late_fill` keeps `Posts` off, to show what chats do to each other.
* `EmbeddingError` (`services/embeddings.py`) is a RuntimeError and no `KnowledgeError`: when
  the query cannot be embedded the chat fails instead of going on without documents
  (`agents/runtime.py:63`), and a knowledge step of a workflow is neither retried nor failed:
  the request ends with a rollback (`ExecRaises`; `workflows/executor.py:189` maps
  `KnowledgeError` to the retryable `knowledge_unavailable`, and
  `src/backend/tests/test_workflow_retries.py:143` tests the retry with a `KnowledgeError` that
  `search` raises for blank queries only). `RunningCanGoOn` says that a later request can
  still go on.
* A failed execution of an approved step (`workflows/executor.py:286-292`) and an approval that
  expired or no longer matches record no event, though
  `src/backend/tests/test_workflow_audit.py:50` says that every lifecycle path writes evidence.
  `EvidenceMatchesState` excepts exactly the first. `resume` of a pending workflow commits
  "running" before any event is there.
* The agent graph builds its `ConnectorExecutor` without a session (`agents/graph.py:29`), so its
  `_audit` returns at once: connector calls of a chat leave no `IntegrationAuditEvent`.
* A chat holds the authentication session's connection while it opens a second one, and both
  while the provider is asked: as many chats as the pool has connections wait for each other until
  the pool times out (`agents/runtime.py:39`). A websocket holds its connection until the client
  goes (`api/routes/chat.py:191`). `PoolAdvances` says that below that number nothing stops.
* A search may answer with a document that was deleted while the query was embedded
  (`services/knowledge.py:172`), and a search for `document_ids=[]` searches all documents.
* After a rollback `services/knowledge.py:126` reads an expired attribute and raises: the document
  stays in processing. A stop between commit and unlink of a deletion leaves the file
  (`services/knowledge.py:150`). Both are `hurt` in the model.
* Answers of the middleware itself (413, 429) and unhandled errors are not counted by the
  metrics of `main.py`.
* When the EXPIRE of a counter fails, or the process stops right before it, the
  counter never goes away and the client is refused for ever (`utils/rate_limit.py:19`). `CountersExpire` excepts
  exactly that counter (`stuck`): it shows that nothing else leaves one without a time to live.
* A message with "email" and "About" but no "about" raises an IndexError in
  `integrations/router.py:18`, which ends the chat.
* A write whose input is invalid is answered `connector_input_invalid`, not
  `approval_required` (`src/README.md:95` says always).
* Approved writes other than `create_draft` cannot succeed: the connectors' `execute`
  has no branch for them, so the workflow fails after the approval.
* "calculated costs" is planned as a calculation and not delegated to an agent who may calculate when there
  is a document in the message or in what was retrieved: the call is refused (`agents/planner.py:60` against
  `agents/supervisor.py:83`). `CalculationIsServed` says exactly when.
* An event or repository question that also asks for a calculation loses the
  calculator's result from the prompt: the connector's replaces it. The current time is
  refused to every agent but `general`, so whenever something was retrieved.
* The messages that `ContextBuilder` selects are never read by a node of the graph.
* Two refreshes of one token at the same moment both succeed, each with a successor; a
  lost answer to a refresh leaves the client with a token that has been used.
* A stream uses the memory and stores nothing.

## Proofs

**The engine.** `WorkflowGateProofs`, `WorkflowStepsProofs` and `WorkflowRecordProofs`, checked by `tlapm` for
every number of steps, requests, retries and every typing of the steps allowed by
`EngineAssumption` (a non-empty workflow; consequential steps are connector steps;
unavailable ones are connector or knowledge steps).

* `TypeCorrect`: `Spec => []TypeOK`. `TypeOK` is inductive; one step per action.
* `GateInvariant`: `Spec => []GateInv`. `ConsequentialAtMostOnce` and
  `ActedOnlyOnApproval` are not inductive: whether a call may happen depends on
  where every other request is. `GateInv` adds
  - a request that decides an approval holds its row `FOR UPDATE` and it is pending
    (`HoldsItsApproval`), hence no two decide the same one (`Apart`);
  - a request on its way to the connector has an approval that nobody has used
    (`HasUnusedApproval`), and is the only one, for it gave that approval itself;
  - a cancellation holds the workflow `FOR UPDATE`, and what it found pending has not
    been approved or rejected since (`HoldsTheWorkflow`): to commit, a decision must
    insert an event, whose foreign key needs `KEY SHARE` on the workflow row.
  The proof classifies what an action does to approvals, executions and locks
  (a few effect lemmas), shows once per effect that `GateInv` is preserved, and
  assigns each action to an effect.
* `ExecutedAtMostOnce`, `ExecutedIsApproved`: conjuncts of `GateInv`.
* `DecisionsStay`: `Spec => DecisionsAreFinal`, an action property from `GateInv`.
* `EngineImplementsGate`: `Spec => ImplementsPromise`. Initial states map to initial
  states and each action to `Ask`, `Decide`, `Void`, `Execute` or a stutter; `GateInv`
  is what makes each of them enabled.

* `StepsInvariant` (`WorkflowStepsProofs`) rests on both. What a row says of a step reaches
  a session by a read and the database by a commit, so that the invariant must speak of
  every copy at once: committed, loaded and flushed. `StepsInv` says of each that a completed
  consequential step was called; that a request past its checks works on a step it may work
  on; and that nothing from an unavailable step on is asked for. A lemma about the flow of
  statuses (`HandleFlow`) states once how the actions copy them.
* `CompletedIsExecuted` (`CompletedWasCalled`), `RedactedStaysUncalled` (`RedactedNeverCalled`,
  which TLC checks for one request at a time and the theorem for any interleaving) and
  `UnavailableStops` (a step whose operation left the registry stops the run before anything is
  asked or executed; `UnavailableStopsTheRun`, for which no run has a step to spare) follow.
* `OrderInvariant` adds what a session with an old copy may still write. What it has flushed and
  not committed of a step is a completion or a cancellation (`Session`), so that a commit opens or
  decides a gate only where it means to. Approvals are asked for in the order of the steps
  (`AskedInOrder`): a run that comes to a step found the earlier ones completed, which by `StepsInv`
  means executed, and by `GateInv` approved; so no two are pending at once (`OnePending`). A
  cancellation that commits has found every pending approval (`FoundAll`): from its `FOR UPDATE` on,
  the insertion of a gate waits for the workflow row. One lemma per committing action shows that the
  committed rows and the approvals stay together.
* `WaitsAtOneGate` (`WaitingAtOneGate`) and `NothingLeftPending` (`CancelledLeavesNothingPending`)
  follow: a workflow cancelled under a running run may be revived by it, but it always waits at
  exactly one step, and never is cancelled with an approval left to be given.

**The audit trail.** `TrailMatchesRows` (`WorkflowRecordProofs`): `TrailSpec => []EvidenceMatchesState`,
for any interleaving and any lost sessions, with the one exception that the property itself makes: the failure
of an approved step, for which the code records nothing. Every step of `TrailNext` is one of `Next`
(`TrailNextIsNext`), so the engine's invariants are at hand. They do not suffice: a trail that agrees with
the rows is disturbed by any commit that writes a column without the event that goes with it. `Noted` says
that what a session has flushed of a step's completion, or of a cancellation, it has noted too, and that
the events of gates, decisions and executions are inserted by the statement that commits them; `RecordInv`
says what sessions have written (`Wrote`), that the request on its way to the connector, or back from it,
has an approval of its own whose step nobody has completed (`Acts`, `ActApart`). The latter makes the
record of an execution one.

**Requests that come one at a time.** The properties of `sequential` are theorems under the hypothesis
`OneAtATime == \A q, r \in Requests : q = r`: one slot, any number of requests through it one after the
other, any number of steps. It is a hypothesis and not an assumption of a module, because the code does
not provide it: the runs `late_write` and `stale_check` show that two of the properties fail
without it. The inductive invariant `InTurn` adds to the ones above `TurnInv`:

- the completed steps are the first `current_step` ones, in the database (`CommittedInTurn`) and in every
  copy that a request has loaded completely (`ClimbedAt`), where a run may be ahead of the database by
  steps that are no gates;
- a session has an old copy of a row only where it has written that row itself (`Sync`, `KnownAt`);
- what it has found the workflow's status to be at each statement (`StatusAt`);
- approvals are asked for up to the step that is next, and none of a pending workflow (`AskedUpTo`,
  `PendingIsNew`).

* Wherever sessions are lost: `ProgressStaysRecorded` (`ProgressIsRecorded`), `PendingOnlyWhileWaiting`
  (`PendingWhileWaiting`), `EndedStaysEnded` (`TerminalIsFinal`), `LapsedIsOnlyCancelled`
  (`LapsedOnlyCancels`), `ActsOnCommitted` (`ActsOnCommittedState`: what the connector reads from the
  session's copies is what is committed, if nobody else is at work).
* Also wherever sessions are lost: `RunningGoesOn` (`RunningCanGoOn`), whose invariant `GoesOn` says that a running
  workflow whose next step has an approval request is in the hands of the request that approved it, or that
  request was lost (`lost`), and that one whose last step is completed is in the hands of the run that finishes
  it, or a session was lost.

**Retries.** `TriesStayBounded` (`TriesAreBounded`) needs none of these hypotheses: requests may interleave, sessions be
lost and searches raise. `TriesInv` says that no copy of a count, committed, loaded or flushed, exceeds the retries of
its step (`CountsKept`), although others write it meanwhile; and that a request's tries of the step it works on are at
most one more than the count in its copy, of the steps after it none (`Tried`), since it came to the step with no try of it.

**Accounts and tokens.** `AuthSessionsProofs`, for any emails, usernames, requests in
flight and number of tokens (`AuthAssumption` says only that `Nobody` is no email and
that the bounds have their types).

* `SessionInvariant`: `Spec => []SessionInv`. The three properties speak of committed rows
  and are not inductive: what a commit writes was decided several statements before it.
  `SessionInv` adds what a request in flight will write, and why it may:
  - the number of a request is no stored token's and no other request's (`Started`,
    `Apart`), so that a new row has no successors;
  - an account that is inserted and not committed clashes with no committed one and with
    no other such one (`InsertsNew`, `Apart`): the unique indexes, not the look-up in
    `create_user`, are what accounts are unique for;
  - a token is issued to a user who has an account or is being inserted (`HasOwner`);
  - a request that replaces a token found it live, so that it is live still or was
    revoked after the request began (`BeganInTime`). It need not be live still: `Lookup`
    takes no lock.
  A step that commits nothing disturbs no other request (`LocalStep`); the commit has
  lemmas of its own for the rows, the other requests and the chains of tokens.
* `AccountsAreUnique`, `RotationsAreAtomic`, `UsedTokensStayUsed`: conjuncts of
  `SessionInv`, which the run `auth` also checks. `TypeOK` of `AuthSessions` is one too.

**Request path.** `RequestPathProofs`, for any pool, limit, kinds of route and number of
attempts.

* `PoolNeverStops` (`PoolAdvances`): while fewer requests than the pool's capacity are at the
  stage that waits for a second connection, a connection is free or a request that needs none
  can go on. `PathInv` ties `first` and `second` to the place of the request; the theorem
  counts the holders of connections with the library's facts about cardinalities.
* `CountersAreDropped` (`CountersExpire`), from `CounterInv`: a counter without a time to live
  has a request behind it that will set one, or one that was stopped (`stuck`).

**Conversation memory.** `ConversationMemoryProofs`, for any users, page size, number of
requests and fields. `MemoryInv` consists of the types, of what a request in flight knows about the
conversation it has looked up (`RequestOf`), of the distinctness of the messages that are stored,
being stored and held as copies (`Distinct`), and of the origin of every copy of a page (`Stored`).

* `TurnsStayInOrder` (`TurnsInOrder`), `OnlyOwnersAreServed` (`OwnersOnly`), `DeletedIsGone`
  (`DeletedStaysGone`), `CommittedIsRecalled` (`RecallsCommitted`) are invariants that follow from it;
  `EditsStayApart` (`EditsKeepApart`) is an action property.

**Knowledge base.** `KnowledgeProofs`, for any documents, users, pages, and any lost session or failing
statement. `IngestInv` says of every upload, at each of its statements, what its row, its chunks
and its file are.

* `ReadyIsWhole` (`ReadyIsComplete`), `SearchIsOfOneMoment` (`SearchesSeeWhole`), `FilesAreRemembered`
  (`NoFileForgotten`), `DocumentsSettle` (`SettledStays`).
* `ChunkerKeepsPassages` (`TextChunksProofs`), for *every* text, chunk size and overlap: each chunk is
  within the size, and a passage at most one character longer than the overlap is whole in one chunk:
  what the edge of one window cuts, the next window has. Windows start at multiples of
  the size less the overlap; the proof takes the least one that reaches the end of the passage (it
  exists, since the natural numbers are well-founded), and shows that it begins early enough.

**The agent turn.** `AgentTurnProofs`, for any messages that satisfy `MessageAssumption` (of any number
of cues, where `agent` has up to three), any settings, histories, sizes and limits (`TurnAssumption`).

* `ContextStaysRecent` (`ContextIsRecent`): what `ContextBuilder` selects is the longest recent stretch of
  messages within both limits. The history is cut to `MaxMessages` before it is measured; the proof
  shows that a stretch of the cut history is one of the whole (`LastOfAppended`), and takes
  the least number of messages that does not fit (the natural numbers are well-founded).
* `CalculationsAreServed` (`CalculationIsServed`) from `ServingInv`, which follows a message whose calculation
  the planner will plan from node to node: the agent that is selected is allowed the calculator exactly if the
  supervisor saw a calculation, or nothing in particular (`SomebodyCalculates`), the planner plans it, the executor calls
  or refuses it.
* `GatesStayAgreed` (`GatesAgree`): no operation of the registry is both a read and something else, and what
  is executed without an approval is a read.

**Only model-checked.** Everything about liveness: `EveryRequestEnds`, `ApprovedIsConsumed`, `UploadsSettle`,
`DeletionsEnd` and `RequestsEnd`, temporal properties under fairness, are out of the prover's reach. All
invariants and action properties of the passing runs are theorems. Two of the runs that
expect a violation are the other side of a theorem: without `OneAtATime`, `TerminalIsFinal` and
`ActsOnCommittedState` fail.

## Not modelled

* The validation of a submitted plan and its dependencies (`WorkflowService._validate`):
  the engine starts from a created workflow, and what the validation lets pass is what
  `EngineAssumption` allows. Positions are dense and dependencies point
  backwards, so the dependency check in `run` never fails and is left out.
* Result payloads, idempotency keys, titles, archives, listings and other reads, token counts, the
  stream of audit events a client may follow.
* What redaction, hashing, JSON Web Tokens and the calculator compute; the roles, both of
  which are admitted everywhere but for `/auth/admin`; the check of access tokens.
* The ranking of a knowledge search, the extraction of text, the values of embeddings.
* What an LLM provider answers and how a stream is formatted: of `llm/` only the attempts, their
  timeouts and what they hold meanwhile are in `RequestPath`. The choice of a provider is
  one dictionary look-up.
* Logging, metrics, health checks, settings: no state that a request depends on. Migrations run
  before the program. The frontend is a client: whatever it sends, in whatever order, `Post`, `Send`,
  `Upload` and the other arrivals allow; what it shows (an answer that arrives after the user
  has gone on to another conversation, say) is not modelled.

## Plan

Done, in this order: the engine and its gate; the gate's theorems; memory; knowledge;
limiter; authentication and its theorems; connectors and the agent turn; the request path
(limiter, authentication, pool and provider attempts in one module) and its theorems; searches,
edits and the audit trail; theorems about steps, the order of gates, memory, knowledge and the chunker;
theorems about the trail, requests one at a time and the agent turn.

Next:

1. Creation of a workflow: `_validate` and `_validate_dependencies` as operators, checked
   against a reference definition over all small plans, and composed with the engine so
   that the dependency check of `run` is a property instead of an assumption.
2. Which of the sequential properties survive which interleavings: `ProgressIsRecorded` with at most one
   run at a time, decisions and cancellations beside it.
3. The reader of the audit stream (`/workflows/{id}/events`) on top of `WorkflowTrail`.

## How to run

    tlc -workers 2 -config MCWorkflowEngine_concurrent.cfg MCWorkflowEngine
    tlc -workers 2 -config MCWorkflowTrail_liveness.cfg MCWorkflowTrail

and likewise for each row of the table of runs: a configuration is named after its `MC` module and the
run. `liveness` and `memory` take up to a few minutes, the others seconds.

    for m in WorkflowGate WorkflowSteps WorkflowRecord RequestPath \
             ConversationMemory Knowledge AuthSessions AgentTurn
    do tlapm ${m}Proofs.tla; done
