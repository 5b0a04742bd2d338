----------------------------- MODULE RequestPath -----------------------------
(***************************************************************************)
(* The way of a request through the server: the rate limiter of the        *)
(* middleware, the authentication dependency with the request's database   *)
(* session, the handler with its commits and its calls of an LLM provider, *)
(* and the connections all of them draw from one pool.                     *)
(*                                                                         *)
(* A session takes a connection for its first statement and gives it back  *)
(* when its transaction ends.  What handlers compute is left out; the      *)
(* modules of the components say what they do with their sessions.         *)
(***************************************************************************)
EXTENDS Naturals, FiniteSets

CONSTANTS
  Limit,         \* requests a client may make in a window
  Requests,      \* slots for requests that are in flight at the same time
  Capacity,      \* connections of the pool, the overflow included
  Attempts,      \* how often a provider is asked
  MaxWork,       \* bound: commits and provider calls of an ordinary handler
  LateExit       \* are dependencies left after a streamed answer?

ASSUME PathAssumption ==
  /\ Limit \in Nat \ {0}
  /\ IsFiniteSet(Requests)
  /\ Capacity \in Nat \ {0}
  /\ Attempts \in Nat \ {0}
  /\ MaxWork \in Nat
  /\ LateExit \in BOOLEAN

VARIABLES
  count, expires, pc, got, stuck,  \* of the rate limiter
  route,   \* request -> the kind of its route
  at,      \* request -> the step it is about to take
  first,   \* request -> has the session it was given a connection?
  second,  \* request -> has the session it has opened itself one?
  work,    \* request -> commits and calls its handler still makes
  tries    \* request -> failed attempts of the provider call it makes

limiter == <<count, expires, pc, got, stuck>>
pool == <<first, second>>
vars == <<limiter, route, at, pool, work, tries>>

Limiter == INSTANCE RateLimiter

-----------------------------------------------------------------------------
(* Routes and the pool.                                                    *)

\* The routes of the services, the agent's chat and stream, the websocket, the
\* LLM routes, which use no session, and readiness.
Routes == {"service", "chat", "stream", "socket", "llm", "ready"}

\* The first step behind the middleware.
Entry(k) == CASE k = "llm" -> "ask" [] k = "ready" -> "probe" [] OTHER -> "auth"

\* Steps that need a connection, and what comes after them.
AfterTaking ==
  [auth |-> "verify", again |-> "handle", probe |-> "ping",
   open |-> "find", reopen |-> "search", resave |-> "save"]

Waiting == DOMAIN AfterTaking

\* Steps of the session a chat or a stream has opened itself.
Nested == {"open", "reopen", "resave"}

\* Connections that are checked out.
Used == Cardinality({r \in Requests : first[r]}) + Cardinality({r \in Requests : second[r]})

Goto(r, label) == at' = [at EXCEPT ![r] = label]

\* The request is answered or raises: its sessions commit or roll back, and
\* are closed.
End(r) ==
  /\ Goto(r, "out")
  /\ first' = [first EXCEPT ![r] = FALSE]
  /\ second' = [second EXCEPT ![r] = FALSE]
  /\ work' = [work EXCEPT ![r] = 0]
  /\ tries' = [tries EXCEPT ![r] = 0]
  /\ route' = [route EXCEPT ![r] = "none"]

Release(r) == second' = [second EXCEPT ![r] = FALSE]

\* A statement of a session without a connection.
Take(r) ==
  /\ at[r] \in Waiting
  /\ Used < Capacity
  /\ IF at[r] \in Nested
       THEN second' = [second EXCEPT ![r] = TRUE] /\ UNCHANGED first
       ELSE first' = [first EXCEPT ![r] = TRUE] /\ UNCHANGED second
  /\ Goto(r, AfterTaking[at[r]])
  /\ UNCHANGED <<limiter, route, work, tries>>

\* Mutant of TimeOut: the pool waits as long as it takes.
WaitOn(r) ==
  /\ at[r] \in Waiting
  /\ Used = Capacity
  /\ UNCHANGED vars

\* No connection within the pool's timeout: the statement raises.
TimeOut(r) ==
  /\ at[r] \in Waiting
  /\ Used = Capacity
  /\ End(r)
  /\ UNCHANGED limiter

-----------------------------------------------------------------------------
(* The middleware and the authentication dependency.                       *)

\* Some paths of the services are limited: auth, workflows, approvals, knowledge.
Arrive(r) ==
  /\ at[r] = "out"
  /\ \E k \in Routes :
       /\ route' = [route EXCEPT ![r] = k]
       /\ \/ k = "service" /\ Limiter!Arrive(r) /\ Goto(r, "limiter")
          \/ UNCHANGED limiter /\ Goto(r, Entry(k))
  /\ UNCHANGED <<pool, work, tries>>

\* A refused request is answered before any dependency runs.
Limited(r) ==
  /\ at[r] = "limiter"
  /\ \/ /\ Limiter!Handle(r)
        /\ UNCHANGED <<route, at, pool, work, tries>>
     \/ /\ Limiter!Depart(r)
        /\ IF pc[r] = "served"
             THEN Goto(r, Entry(route[r])) /\ UNCHANGED <<route, pool, work, tries>>
             ELSE End(r)

\* No token, or one that is not an access token: no statement is issued.
Anonymous(r) ==
  /\ at[r] = "auth"
  /\ End(r)
  /\ UNCHANGED limiter

\* The user's row has been read, which begins a transaction.  The handler of a
\* websocket issues no more statements.  A stream's answer is produced after its
\* handler has returned.
Verify(r) ==
  /\ at[r] = "verify"
  /\ \/ End(r)
     \/ /\ route[r] = "service"
        /\ \E n \in 0..MaxWork : work' = [work EXCEPT ![r] = n]
        /\ Goto(r, "handle")
        /\ UNCHANGED <<route, pool, tries>>
     \/ /\ route[r] = "socket"
        /\ Goto(r, "talk")
        /\ UNCHANGED <<route, pool, work, tries>>
     \/ /\ route[r] \in {"chat", "stream"}
        /\ first' = IF route[r] = "chat" \/ LateExit
                      THEN first ELSE [first EXCEPT ![r] = FALSE]
        /\ Goto(r, "open")
        /\ UNCHANGED <<route, second, work, tries>>
  /\ UNCHANGED limiter

-----------------------------------------------------------------------------
(* Ordinary handlers.                                                      *)

\* Mutant of Commit: the next transaction is one of a second session.
CommitAndKeep(r) ==
  /\ at[r] = "handle" /\ work[r] > 0
  /\ work' = [work EXCEPT ![r] = @ - 1]
  /\ Goto(r, "again")
  /\ UNCHANGED <<limiter, route, pool, tries>>

\* A commit in the middle of the handler; more statements follow.
Commit(r) ==
  /\ at[r] = "handle" /\ work[r] > 0
  /\ work' = [work EXCEPT ![r] = @ - 1]
  /\ first' = [first EXCEPT ![r] = FALSE]
  /\ Goto(r, "again")
  /\ UNCHANGED <<limiter, route, second, tries>>

\* An embedding or a health check, within a transaction.
Consult(r) ==
  /\ at[r] = "handle" /\ work[r] > 0
  /\ work' = [work EXCEPT ![r] = @ - 1]
  /\ Goto(r, "embed")
  /\ UNCHANGED <<limiter, route, pool, tries>>

\* Readiness needs a connection and a ping, other handlers return or raise.
Return(r) ==
  /\ at[r] \in {"handle", "ping"}
  /\ End(r)
  /\ UNCHANGED limiter

-----------------------------------------------------------------------------
(* Providers.                                                              *)

\* An embedding tries two endpoints.
AttemptsOf(r) == IF at[r] = "embed" THEN 2 * Attempts ELSE Attempts

\* An attempt fails or times out; after the last one the call raises.
Fails(r) ==
  /\ at[r] \in {"embed", "think", "ask"}
  /\ IF tries[r] + 1 < AttemptsOf(r)
       THEN tries' = [tries EXCEPT ![r] = @ + 1] /\ UNCHANGED <<route, at, pool, work>>
       ELSE End(r)
  /\ UNCHANGED limiter

\* The first endpoint answers without a vector.
Unusable(r) ==
  /\ at[r] = "embed" /\ tries[r] < Attempts
  /\ tries' = [tries EXCEPT ![r] = Attempts]
  /\ UNCHANGED <<limiter, route, at, pool, work>>

\* A vector, for the handler or for the chat's prompt.
Embedded(r) ==
  /\ at[r] = "embed"
  /\ tries' = [tries EXCEPT ![r] = 0]
  /\ Goto(r, IF route[r] = "chat" THEN "think" ELSE "handle")
  /\ UNCHANGED <<limiter, route, pool, work>>

\* The answer of an LLM route.
Asked(r) ==
  /\ at[r] = "ask"
  /\ End(r)
  /\ UNCHANGED limiter

-----------------------------------------------------------------------------
(* The agent's chat and stream, and the websocket.                         *)

\* The conversation is found, or created with a commit, or cannot be created.
\* A chat then reads history and chunks; for a page in Redis and a blank query it
\* needs no statement.  A stream needs none at all.
Find(r) ==
  /\ at[r] = "find"
  /\ \/ /\ Goto(r, IF route[r] = "chat" THEN "search" ELSE "tell")
        /\ UNCHANGED <<route, pool, work, tries>>
     \/ /\ Release(r)
        /\ \E label \in IF route[r] = "chat" THEN {"reopen", "think"} ELSE {"tell"} :
             Goto(r, label)
        /\ UNCHANGED <<route, first, work, tries>>
     \/ End(r)
  /\ UNCHANGED limiter

\* The history and the chunks have been read; without chunks nothing is embedded.
Search(r) ==
  /\ at[r] = "search"
  /\ Goto(r, "think") \/ Goto(r, "embed")
  /\ UNCHANGED <<limiter, route, pool, work, tries>>

\* The graph answers: two messages to save, or three with a tool's result.
Thought(r) ==
  /\ at[r] = "think"
  /\ \E n \in {2, 3} : work' = [work EXCEPT ![r] = n]
  /\ tries' = [tries EXCEPT ![r] = 0]
  /\ Goto(r, IF second[r] THEN "save" ELSE "resave")
  /\ UNCHANGED <<limiter, route, pool>>

\* agent_timeout has passed, or the graph raises.
Deadline(r) ==
  /\ at[r] = "think"
  /\ End(r)
  /\ UNCHANGED limiter

\* A message is inserted and committed, or its conversation has gone.
Save(r) ==
  /\ at[r] = "save"
  /\ \/ /\ work[r] > 1
        /\ work' = [work EXCEPT ![r] = @ - 1]
        /\ Release(r)
        /\ Goto(r, "resave")
        /\ UNCHANGED <<route, first, tries>>
     \/ End(r)
  /\ UNCHANGED limiter

\* The provider's stream ends, or the client has gone.
Told(r) ==
  /\ at[r] = "tell"
  /\ End(r)
  /\ UNCHANGED limiter

\* The websocket echoes until the client disconnects.
HangUp(r) ==
  /\ at[r] = "talk"
  /\ End(r)
  /\ UNCHANGED limiter

WindowEnds == Limiter!WindowEnds /\ UNCHANGED <<route, at, pool, work, tries>>

-----------------------------------------------------------------------------
Init ==
  /\ Limiter!Init
  /\ route = [r \in Requests |-> "none"]
  /\ at = [r \in Requests |-> "out"]
  /\ first = [r \in Requests |-> FALSE]
  /\ second = [r \in Requests |-> FALSE]
  /\ work = [r \in Requests |-> 0]
  /\ tries = [r \in Requests |-> 0]

Handle(r) ==
  \/ Take(r) \/ TimeOut(r) \/ Limited(r) \/ Anonymous(r) \/ Verify(r)
  \/ Commit(r) \/ Consult(r) \/ Return(r)
  \/ Fails(r) \/ Unusable(r) \/ Embedded(r) \/ Asked(r)
  \/ Find(r) \/ Search(r) \/ Thought(r) \/ Deadline(r) \/ Save(r) \/ Told(r)

Next ==
  \/ \E r \in Requests : Arrive(r) \/ Handle(r) \/ HangUp(r)
  \/ WindowEnds

Spec == Init /\ [][Next]_vars

\* The event loop runs every ready handler, commands, attempts and waits have
\* timeouts, and time passes.  Clients need not send or hang up.
Fairness ==
  /\ \A r \in Requests : WF_vars(Handle(r))
  /\ WF_vars(WindowEnds)

FairSpec == Spec /\ Fairness

-----------------------------------------------------------------------------
Labels ==
  Waiting \cup {"out", "limiter", "verify", "handle", "ping", "embed", "ask",
                "find", "search", "think", "save", "tell", "talk"}

\* Every variable of the path ranges over what the handlers give it.
TypeOK ==
  /\ route \in [Requests -> Routes \cup {"none"}]
  /\ at \in [Requests -> Labels]
  /\ first \in [Requests -> BOOLEAN]
  /\ second \in [Requests -> BOOLEAN]
  /\ work \in [Requests -> Nat]
  /\ tries \in [Requests -> Nat]

-----------------------------------------------------------------------------
\* A request that needs a second connection to go on and to return the first.
WaitsNested(r) == at[r] \in Nested /\ first[r]

\* The pool waits for itself only behind chats and streams, and only if there
\* are as many of them as it has connections: otherwise a connection is free, or
\* the request that has one goes on without another.
PoolAdvances ==
  Cardinality({r \in Requests : WaitsNested(r)}) < Capacity =>
    \/ Used < Capacity
    \/ \E r \in Requests : (first[r] \/ second[r]) /\ at[r] \notin Waiting

\* Every request but a websocket is answered, whatever providers do and however
\* many connections websockets and chats hold.
RequestsEnd ==
  \A r \in Requests :
    (at[r] # "out" /\ route[r] # "socket") ~> (at[r] = "out")

\* The limiter is the one of RateLimiter among all other traffic: a counter
\* without a time to live is about to get one, unless its EXPIRE has failed.
CountersExpire == Limiter!CountersExpire
=============================================================================
