-------------------------- MODULE RequestPathProofs --------------------------
(***************************************************************************)
(* Proofs about RequestPath, for any number of requests and connections:   *)
(* the pool waits for itself only behind as many chats and streams as it   *)
(* has connections, and the rate limiter keeps no counter for ever.        *)
(***************************************************************************)
EXTENDS RequestPath, FiniteSetTheorems, TLAPS

\* The steps at which a request can hold a connection: not before it has taken
\* one, not while it waits for the only one it needs, not afterwards.  Only a
\* chat embeds while it holds two.
Holding(r) ==
  /\ first[r] => at[r] \notin {"out", "limiter", "auth", "again", "probe", "ask"}
  /\ second[r] => at[r] \in {"find", "search", "embed", "think", "save", "tell"}
  /\ at[r] \in {"search", "reopen"} \/ (at[r] = "embed" /\ second[r]) => route[r] = "chat"

PathInv == TypeOK /\ \A r \in Requests : Holding(r)

\* The steps that wait for a connection, and the steps they lead to.
LEMMA WaitingSteps ==
  /\ Waiting = {"auth", "again", "probe", "open", "reopen", "resave"}
  /\ \A l \in {"auth", "again", "probe"} : AfterTaking[l] \in {"verify", "handle", "ping"}
  /\ AfterTaking["open"] = "find" /\ AfterTaking["reopen"] = "search"
  /\ AfterTaking["resave"] = "save"
BY DEF Waiting, AfterTaking

\* No request holds a connection at first.
LEMMA StartsEmpty == Init => PathInv
BY DEF Init, PathInv, TypeOK, Holding, Labels

\* What a step of request r leaves alone, but for its bookkeeping.
Others(r) ==
  \A q \in Requests \ {r} :
    at'[q] = at[q] /\ first'[q] = first[q] /\ second'[q] = second[q] /\ route'[q] = route[q]

\* It is enough to look at the request that takes the step.
LEMMA OneMoves ==
  ASSUME PathInv, NEW r \in Requests, TypeOK', Others(r), Holding(r)'
  PROVE  PathInv'
<1>1. ASSUME NEW q \in Requests \ {r} PROVE Holding(q)'
  BY <1>1 DEF PathInv, Others, Holding
<1> QED
  BY <1>1 DEF PathInv

\* A request that ends holds nothing, whatever step it was at.
LEMMA EndsEmpty ==
  ASSUME PathInv, NEW r \in Requests, End(r)
  PROVE  PathInv'
<1>1. TypeOK'
  BY DEF PathInv, TypeOK, End, Goto, Labels
<1>2. Others(r) /\ Holding(r)'
  BY DEF PathInv, TypeOK, End, Goto, Others, Holding
<1> QED
  BY <1>1, <1>2, OneMoves

\* A connection is taken by a request that was waiting for it.
LEMMA TakeHolds ==
  ASSUME PathInv, NEW r \in Requests, Take(r)
  PROVE  PathInv'
<1>1. AfterTaking[at[r]] \in Labels
  BY WaitingSteps DEF Take, Labels
<1>2. TypeOK'
  BY <1>1 DEF PathInv, TypeOK, Take, Goto
<1>3. Others(r)
  BY DEF PathInv, TypeOK, Take, Goto, Others
<1>4. Holding(r)'
  BY WaitingSteps DEF PathInv, TypeOK, Take, Goto, Holding, Nested
<1> QED
  BY <1>2, <1>3, <1>4, OneMoves

\* A step that does not end the request, and takes no connection: where it goes,
\* what it gives back, what it counts.
Move(r) ==
  /\ \E l \in Labels : Goto(r, l)
  /\ first' = first \/ first' = [first EXCEPT ![r] = FALSE]
  /\ second' = second \/ Release(r)
  /\ work' \in [Requests -> Nat] /\ tries' \in [Requests -> Nat]
  /\ route' = route \/ \E k \in Routes : route' = [route EXCEPT ![r] = k]

\* A step that gives and takes what its label says preserves the invariant.
LEMMA MovesKeep ==
  ASSUME PathInv, NEW r \in Requests, Move(r), Holding(r)'
  PROVE  PathInv'
<1>. USE DEF PathInv, TypeOK, Move, Goto, Release
<1>1. TypeOK'
  <2>1. at' \in [Requests -> Labels]
    OBVIOUS
  <2>2. route' \in [Requests -> Routes \cup {"none"}]
    OBVIOUS
  <2>3. first' \in [Requests -> BOOLEAN] /\ second' \in [Requests -> BOOLEAN]
    OBVIOUS
  <2>. QED
    BY <2>1, <2>2, <2>3
<1>2. Others(r)
  BY DEF Others
<1> QED
  BY <1>1, <1>2, OneMoves

\* Steps of the middleware,
LEMMA Enter ==
  ASSUME PathInv, NEW r \in Requests, Arrive(r) \/ Limited(r), ~ End(r)
  PROVE  PathInv'
<1> USE DEF PathInv, TypeOK, Goto
<1>1. CASE Arrive(r)
  <2>1. Move(r)
    BY <1>1, WaitingSteps DEF Arrive, Move, Entry, Labels, pool
  <2>2. Holding(r)'
    BY <1>1 DEF Arrive, Entry, Holding, pool
  <2> QED
    BY <2>1, <2>2, MovesKeep
<1>2. CASE Limited(r) /\ UNCHANGED <<route, at, pool, work, tries>>
  BY <1>2 DEF Holding, pool
<1>3. CASE Limited(r) /\ Goto(r, Entry(route[r])) /\ UNCHANGED <<route, pool, work, tries>>
  <2>1. Move(r)
    BY <1>3, WaitingSteps DEF Move, Entry, Labels, pool
  <2>2. Holding(r)'
    BY <1>3 DEF Limited, Entry, Holding, pool
  <2> QED
    BY <2>1, <2>2, MovesKeep
<1> QED
  BY <1>1, <1>2, <1>3 DEF Limited

\* of the services and their providers,
LEMMA Serve ==
  ASSUME PathInv, NEW r \in Requests,
         Verify(r) \/ Commit(r) \/ Consult(r) \/ Fails(r) \/ Unusable(r) \/ Embedded(r),
         ~ End(r)
  PROVE  PathInv'
<1> USE PathAssumption DEF PathInv, TypeOK, Goto
<1>1. CASE Verify(r)
  <2>1. work' \in [Requests -> Nat]
    BY <1>1 DEF Verify
  <2>2. Move(r)
    BY <1>1, <2>1, WaitingSteps DEF Verify, Move, Labels, pool
  <2>3. Holding(r)'
    BY <1>1 DEF Verify, Holding, pool
  <2> QED
    BY <2>2, <2>3, MovesKeep
<1>2. CASE Commit(r) \/ Consult(r)
  <2>1. work' \in [Requests -> Nat]
    BY <1>2 DEF Commit, Consult
  <2>2. Move(r)
    BY <1>2, <2>1, WaitingSteps DEF Commit, Consult, Move, Labels, pool
  <2>3. Holding(r)'
    BY <1>2 DEF Commit, Consult, Holding, pool
  <2> QED
    BY <2>2, <2>3, MovesKeep
<1>3. CASE Fails(r) \/ Unusable(r)
  <2>1. UNCHANGED <<route, at, pool, work>> /\ tries' \in [Requests -> Nat]
    BY <1>3 DEF Fails, Unusable
  <2> QED
    BY <2>1 DEF Holding, pool
<1>4. CASE Embedded(r)
  <2>1. Move(r)
    BY <1>4 DEF Embedded, Move, Labels, pool
  <2>2. Holding(r)'
    BY <1>4 DEF Embedded, Holding, pool
  <2> QED
    BY <2>1, <2>2, MovesKeep
<1> QED
  BY <1>1, <1>2, <1>3, <1>4

\* and of chats and streams, that do not end the request.
LEMMA Chat ==
  ASSUME PathInv, NEW r \in Requests,
         Find(r) \/ Search(r) \/ Thought(r) \/ Save(r), ~ End(r)
  PROVE  PathInv'
<1> USE DEF PathInv, TypeOK, Goto
<1>1. CASE Find(r)
  <2>1. Move(r)
    BY <1>1, WaitingSteps DEF Find, Move, Labels, pool
  <2>2. Holding(r)'
    BY <1>1 DEF Find, Release, Holding, pool
  <2> QED
    BY <2>1, <2>2, MovesKeep
<1>2. CASE Search(r)
  <2>1. Move(r)
    BY <1>2 DEF Search, Move, Labels, pool
  <2>2. Holding(r)'
    BY <1>2 DEF Search, Holding, pool
  <2> QED
    BY <2>1, <2>2, MovesKeep
<1>3. CASE Thought(r)
  <2>1. work' \in [Requests -> Nat]
    BY <1>3 DEF Thought
  <2>2. Move(r)
    BY <1>3, <2>1, WaitingSteps DEF Thought, Move, Labels, pool
  <2>3. Holding(r)'
    BY <1>3 DEF Thought, Holding, pool
  <2> QED
    BY <2>2, <2>3, MovesKeep
<1>4. CASE Save(r)
  <2>1. work' \in [Requests -> Nat]
    BY <1>4 DEF Save
  <2>2. Move(r)
    BY <1>4, <2>1, WaitingSteps DEF Save, Move, Labels
  <2>3. Holding(r)'
    BY <1>4 DEF Save, Release, Holding
  <2> QED
    BY <2>2, <2>3, MovesKeep
<1> QED
  BY <1>1, <1>2, <1>3, <1>4

\* Every step preserves the invariant.
LEMMA PathStep == PathInv /\ [Next]_vars => PathInv'
<1> SUFFICES ASSUME PathInv, [Next]_vars PROVE PathInv'
  OBVIOUS
<1>1. CASE UNCHANGED vars \/ WindowEnds
  BY <1>1 DEF vars, pool, WindowEnds, PathInv, TypeOK, Holding
<1>2. ASSUME NEW r \in Requests, Arrive(r) \/ Handle(r) \/ HangUp(r) PROVE PathInv'
  <2>1. CASE End(r)
    BY <2>1, EndsEmpty
  <2>2. CASE Take(r)
    BY <2>2, TakeHolds
  <2>3. CASE ~ End(r) /\ ~ Take(r)
    BY <1>2, <2>3, Enter, Serve, Chat
    DEF Handle, HangUp, TimeOut, Anonymous, Return, Asked, Deadline, Told
  <2> QED
    BY <2>1, <2>2, <2>3
<1> QED
  BY <1>1, <1>2 DEF Next

-----------------------------------------------------------------------------
\* If every connection is out and everyone who has one waits for another, then
\* those who wait are chats and streams, one for each connection.
LEMMA HoldersAreNested == PathInv => PoolAdvances
<1> SUFFICES ASSUME PathInv, ~ (Used < Capacity),
                    \A r \in Requests : first[r] \/ second[r] => at[r] \in Waiting
             PROVE  ~ (Cardinality({r \in Requests : WaitsNested(r)}) < Capacity)
  BY DEF PoolAdvances
<1> DEFINE F == {r \in Requests : first[r]}
           S == {r \in Requests : second[r]}
           W == {r \in Requests : WaitsNested(r)}
<1>1. S = {}
  BY WaitingSteps DEF PathInv, Holding
<1>2. F \subseteq W
  BY WaitingSteps DEF PathInv, Holding, WaitsNested, Nested
<1>3. IsFiniteSet(W)
  BY PathAssumption, FS_Subset
<1>4. Cardinality(F) <= Cardinality(W) /\ Cardinality(F) \in Nat /\ Cardinality(W) \in Nat
  BY <1>2, <1>3, FS_Subset, FS_CardinalityType
<1>5. Cardinality(S) = 0
  BY <1>1, FS_EmptySet
<1>6. Used = Cardinality(F)
  BY <1>4, <1>5 DEF Used
<1> QED
  BY <1>4, <1>6, PathAssumption

\* Fewer chats and streams than connections never bring the pool to a stop, for
\* a pool of any size and any number of requests.
THEOREM PoolNeverStops == Spec => []PoolAdvances
<1>1. Spec => []PathInv
  BY StartsEmpty, PathStep, PTL DEF Spec
<1> QED
  BY <1>1, HoldersAreNested, PTL

-----------------------------------------------------------------------------
\* What the limiter's counter needs of its commands.
CounterInv ==
  /\ count \in Nat
  /\ pc \in [Requests -> {"idle", "incr", "expire", "ttl", "served", "refused"}]
  /\ Limiter!CountersExpire

\* Every step of the rate limiter preserves its invariant.
LEMMA CounterStep ==
  ASSUME CounterInv, [Limiter!Next]_limiter
  PROVE  CounterInv'
<1> USE PathAssumption DEF CounterInv, Limiter!CountersExpire
<1>1. CASE UNCHANGED limiter
  BY <1>1 DEF limiter
<1>2. CASE Limiter!WindowEnds
  BY <1>2 DEF Limiter!WindowEnds
<1>3. ASSUME NEW r \in Requests, Limiter!Arrive(r) \/ Limiter!Ttl(r) \/ Limiter!Depart(r)
      PROVE  CounterInv'
  BY <1>3 DEF Limiter!Arrive, Limiter!Ttl, Limiter!Depart, Limiter!Goto
<1>4. ASSUME NEW r \in Requests, Limiter!Incr(r) PROVE CounterInv'
  BY <1>4 DEF Limiter!Incr, Limiter!Incremented, Limiter!Goto
<1>5. ASSUME NEW r \in Requests, Limiter!Expire(r) PROVE CounterInv'
  BY <1>5 DEF Limiter!Expire, Limiter!Goto
<1>6. ASSUME NEW r \in Requests, Limiter!FailOpen(r) PROVE CounterInv'
  BY <1>6 DEF Limiter!FailOpen, Limiter!Goto
<1> QED
  BY <1>1, <1>2, <1>3, <1>4, <1>5, <1>6 DEF Limiter!Next, Limiter!Handle

\* Every step of a request is a step of the limiter, or none of its business.
LEMMA PathKeepsLimiter == [Next]_vars => [Limiter!Next]_limiter
<1> SUFFICES ASSUME [Next]_vars PROVE [Limiter!Next]_limiter
  OBVIOUS
<1>1. CASE UNCHANGED vars
  BY <1>1 DEF vars, limiter
<1>2. CASE WindowEnds
  BY <1>2 DEF WindowEnds, Limiter!Next
<1>3. ASSUME NEW r \in Requests, Arrive(r) \/ Limited(r) PROVE [Limiter!Next]_limiter
  BY <1>3 DEF Arrive, Limited, Limiter!Next
<1>4. ASSUME NEW r \in Requests, HangUp(r) \/ Handle(r), ~ Limited(r)
      PROVE  UNCHANGED limiter
  BY <1>4 DEF Handle, HangUp, Take, TimeOut, Anonymous, Verify, Commit, Consult, Return,
              Fails, Unusable, Embedded, Asked, Find, Search, Thought, Deadline, Save, Told
<1> QED
  BY <1>1, <1>2, <1>3, <1>4 DEF Next, Handle

\* Among all other traffic, a counter without a time to live is about to get
\* one, unless its EXPIRE has failed.
THEOREM CountersAreDropped == Spec => []CountersExpire
<1>1. Init => CounterInv
  BY DEF Init, Limiter!Init, CounterInv, Limiter!CountersExpire
<1>2. CounterInv /\ [Next]_vars => CounterInv'
  BY CounterStep, PathKeepsLimiter
<1>3. CounterInv => CountersExpire
  BY DEF CounterInv, CountersExpire
<1> QED
  BY <1>1, <1>2, <1>3, PTL DEF Spec

=============================================================================
