----------------------------- MODULE RateLimiter -----------------------------
(***************************************************************************)
(* The rate limiter of the HTTP middleware, for one client and one group   *)
(* of paths: a counter in Redis that should live for one window.  Each     *)
(* command is an action; handlers run concurrently.  A server that stops   *)
(* between two commands leaves what a failure of the second one leaves.    *)
(***************************************************************************)
EXTENDS Naturals

CONSTANTS
  Limit,       \* requests allowed in a window
  Requests     \* slots for requests that are in flight at the same time

VARIABLES
  count,    \* the counter, 0 when there is no key; it saturates at Limit + 1
  expires,  \* the key has a time to live
  pc,       \* request -> the command it is about to issue, or its answer
  got,      \* request -> what INCR answered
  stuck     \* history: the EXPIRE of the key that exists has failed

vars == <<count, expires, pc, got, stuck>>

Goto(r, label) == pc' = [pc EXCEPT ![r] = label]

\* A request for one of the limited paths.
Arrive(r) ==
  /\ pc[r] = "idle"
  /\ Goto(r, "incr")
  /\ UNCHANGED <<count, expires, got, stuck>>

\* Larger counts are told apart by nobody.
Incremented(n) == IF n > Limit THEN n ELSE n + 1

Incr(r) ==
  /\ pc[r] = "incr"
  /\ count' = Incremented(count)
  /\ got' = [got EXCEPT ![r] = count']
  /\ Goto(r, IF count' = 1 THEN "expire" ELSE "ttl")
  /\ UNCHANGED <<expires, stuck>>

\* Mutant of Expire: the time to live is set for the second request.
ExpireOfNobody(r) ==
  /\ pc[r] = "expire"
  /\ Goto(r, "ttl")
  /\ UNCHANGED <<count, expires, got, stuck>>

\* The first request of a window starts it.
Expire(r) ==
  /\ pc[r] = "expire"
  /\ expires' = (count > 0)
  /\ Goto(r, "ttl")
  /\ UNCHANGED <<count, got, stuck>>

\* The answer, with the time to live as Retry-After.
Ttl(r) ==
  /\ pc[r] = "ttl"
  /\ Goto(r, IF got[r] <= Limit THEN "served" ELSE "refused")
  /\ UNCHANGED <<count, expires, got, stuck>>

\* A RedisError lets the request through, and the command has no effect.  (A
\* command that had one and lost its reply is a failure of the next command.)
FailOpen(r) ==
  /\ pc[r] \in {"incr", "expire", "ttl"}
  /\ Goto(r, "served")
  /\ stuck' = (stuck \/ (pc[r] = "expire" /\ ~ expires))
  /\ UNCHANGED <<count, expires, got>>

\* The middleware goes on with the answer.
Depart(r) ==
  /\ pc[r] \in {"served", "refused"}
  /\ Goto(r, "idle")
  /\ got' = [got EXCEPT ![r] = 0]
  /\ UNCHANGED <<count, expires, stuck>>

\* The window ends and Redis drops the key.
WindowEnds ==
  /\ expires
  /\ count' = 0
  /\ expires' = FALSE
  /\ UNCHANGED <<pc, got, stuck>>

-----------------------------------------------------------------------------
Init ==
  /\ count = 0
  /\ expires = FALSE
  /\ pc = [r \in Requests |-> "idle"]
  /\ got = [r \in Requests |-> 0]
  /\ stuck = FALSE

Handle(r) == Incr(r) \/ Expire(r) \/ Ttl(r) \/ FailOpen(r)

Next ==
  \/ \E r \in Requests : Arrive(r) \/ Handle(r) \/ Depart(r)
  \/ WindowEnds

Spec == Init /\ [][Next]_vars

-----------------------------------------------------------------------------
\* A counter without a time to live is about to get one, unless its EXPIRE has
\* failed: which requests run at the same time, and which of them fail at their
\* other commands, makes no difference.
CountersExpire ==
  count > 0 /\ ~ expires => stuck \/ \E r \in Requests : pc[r] = "expire"
=============================================================================
