---------------------- MODULE ConversationMemoryProofs ----------------------
(***************************************************************************)
(* Theorems about ConversationMemory, for any users, requests and page     *)
(* size, with every failure.                                               *)
(***************************************************************************)
EXTENDS ConversationMemory, TLAPS

\* A request in one of these has found the conversation to be its user's.
Past ==
  {"recall", "list", "fill", "search", "think", "write", "commit", "drop",
   "patch", "delete"}

\* A chat in one of these may know messages.
Recalled == {"fill", "search", "think"}

\* A chat in one of these has not come to its messages.
Asking == {"get", "create", "recall", "list", "fill", "search", "think"}

\* A chat or a post in one of these saves its messages.
Saving == {"save", "write", "commit", "drop"}

Unsaved(r) == \A m \in messages : m.turn # turn[r]

\* Whose request it is, when it was sent, what it knows.
Known(r) ==
  /\ pc[r] # "idle" => by[r] \in Users /\ turn[r] \in 1..begun
  /\ pc[r] \in Past => by[r] = owner
  /\ pc[r] \in Past /\ deleted => turn[r] <= diedAt
  /\ history[r] # {} => pc[r] \in Recalled /\ history[r] \subseteq messages

\* What it has flushed.
Flushed(r) ==
  pc[r] = "commit" =>
    /\ own[r] \in Message
    /\ own[r].turn = turn[r] /\ own[r].by = by[r] /\ own[r].kind = kind[r]
    /\ own[r].role = Head(todo[r])
    /\ own[r].at <= clock
    /\ \A m \in messages : m.turn = turn[r] => m.at < own[r].at

\* How far it has come with its messages.
Progress(r) ==
  /\ pc[r] \in Asking => Unsaved(r)
  /\ pc[r] \in {"save", "write", "commit"} => todo[r] # <<>>
  /\ pc[r] \in Saving =>
       \/ Unsaved(r) /\ (todo[r] \in Saves \/ kind[r] = "post")
       \/ /\ todo[r] \in {<<"tool", "assistant">>, <<"assistant">>, <<>>}
          /\ \E q \in messages : q.turn = turn[r] /\ q.role = "user"
          /\ todo[r] # <<>> =>
               \A m \in messages : m.turn = turn[r] => m.role # "assistant"

\* No two requests have the same number.
Distinct ==
  \A r, q \in Requests :
    pc[r] # "idle" /\ pc[q] # "idle" /\ turn[r] = turn[q] => r = q

\* What is stored.
Stored ==
  /\ \A m \in messages :
       /\ m.turn <= begun /\ m.at <= clock /\ m.by = owner
       /\ deleted => m.turn <= diedAt
  /\ cache # NoEntry => cache \subseteq messages
  /\ deleted => owner # Nobody
  /\ TurnsInOrder

RequestOf(r) == Known(r) /\ Flushed(r) /\ Progress(r)

MemoryInv ==
  /\ TypeOK
  /\ \A r \in Requests : RequestOf(r)
  /\ Distinct
  /\ Stored

-----------------------------------------------------------------------------
\* The invariant holds before the first request.
LEMMA MemoryInit == Init => MemoryInv
<1> SUFFICES ASSUME Init PROVE MemoryInv
  OBVIOUS
<1>1. TypeOK
  <2>1. Initial \in [Fields -> Values] /\ Unset \in [Fields -> Values \cup {"unset"}]
    BY DEF Initial, Unset, Fields, Values
  <2>2. pc \in [Requests -> Labels] /\ kind \in [Requests -> Kinds]
    BY DEF Init, Labels, Kinds
  <2>3. /\ by \in [Requests -> Users \cup {Nobody}]
        /\ turn \in [Requests -> 0..MaxRequests]
        /\ todo \in [Requests -> Seq(Roles)]
        /\ own \in [Requests -> Message \cup {NoMessage}]
        /\ history \in [Requests -> SUBSET Message]
    BY MemoryAssumption DEF Init
  <2>4. /\ ask \in [Requests -> [Fields -> Values \cup {"unset"}]]
        /\ seen \in [Requests -> [Fields -> Values]]
        /\ fields \in [Fields -> Values]
    BY <2>1 DEF Init
  <2>5. owner = Nobody /\ deleted = FALSE /\ diedAt = 0 /\ messages = {} /\ clock = 0
        /\ cache = NoEntry /\ begun = 0
    BY DEF Init
  <2>6. deleted \in BOOLEAN
    BY <2>5
  <2>7. /\ owner \in Users \cup {Nobody} /\ diedAt \in 0..MaxRequests
        /\ messages \subseteq Message /\ clock \in Nat /\ begun \in 0..MaxRequests
    BY <2>5, MemoryAssumption
  <2> QED
    BY <2>2, <2>3, <2>4, <2>5, <2>6, <2>7 DEF TypeOK
<1>2. \A r \in Requests : RequestOf(r)
  BY DEF Init, RequestOf, Known, Flushed, Progress, Past, Recalled, Asking, Saving
<1>3. Distinct /\ Stored
  BY DEF Init, Distinct, Stored, TurnsInOrder
<1> QED
  BY <1>1, <1>2, <1>3 DEF MemoryInv

-----------------------------------------------------------------------------
(* Types.                                                                  *)

\* A request that has left keeps the types of its variables.
LEMMA LeaveTypes ==
  ASSUME TypeOK, NEW r \in Requests, Leave(r)
  PROVE  /\ pc' \in [Requests -> Labels]
         /\ kind' \in [Requests -> Kinds]
         /\ by' \in [Requests -> Users \cup {Nobody}]
         /\ turn' \in [Requests -> 0..MaxRequests]
         /\ todo' \in [Requests -> Seq(Roles)]
         /\ own' \in [Requests -> Message \cup {NoMessage}]
         /\ history' \in [Requests -> SUBSET Message]
         /\ ask' \in [Requests -> [Fields -> Values \cup {"unset"}]]
         /\ seen' \in [Requests -> [Fields -> Values]]
BY DEF TypeOK, Leave, Labels, Unset, Initial, Fields, Values
\* The same for what goes on.
LEMMA GotoTypes ==
  ASSUME TypeOK, NEW r \in Requests, NEW label \in Labels, Goto(r, label)
  PROVE  /\ pc' \in [Requests -> Labels]
         /\ UNCHANGED <<kind, by, turn, todo, own, history, ask, seen>>
BY DEF TypeOK, Goto, edit

\* A step's effect on what all requests share.
TypedGlobals ==
  /\ owner' \in Users \cup {Nobody}
  /\ deleted' \in BOOLEAN
  /\ fields' \in [Fields -> Values]
  /\ diedAt' \in 0..MaxRequests
  /\ messages' \subseteq Message
  /\ clock' \in Nat
  /\ cache' = NoEntry \/ cache' \subseteq Message
  /\ begun' \in 0..MaxRequests

TypedLocals ==
  /\ pc' \in [Requests -> Labels]
  /\ kind' \in [Requests -> Kinds]
  /\ by' \in [Requests -> Users \cup {Nobody}]
  /\ turn' \in [Requests -> 0..MaxRequests]
  /\ todo' \in [Requests -> Seq(Roles)]
  /\ own' \in [Requests -> Message \cup {NoMessage}]
  /\ history' \in [Requests -> SUBSET Message]
  /\ ask' \in [Requests -> [Fields -> Values \cup {"unset"}]]
  /\ seen' \in [Requests -> [Fields -> Values]]

\* So does a step that changes at most the page in Redis.
LEMMA SameGlobals ==
  ASSUME TypeOK, UNCHANGED <<owner, deleted, fields, diedAt, messages, clock, begun>>,
         cache' = NoEntry \/ cache' \subseteq Message
  PROVE  TypedGlobals
BY DEF TypeOK, TypedGlobals

\* An arriving request has its types.
LEMMA SendTypes ==
  ASSUME TypeOK, NEW r \in Requests, Send(r)
  PROVE  TypedGlobals /\ TypedLocals
<1>1. PICK k \in Kinds, label \in Labels, roles \in Seq(Roles),
           values \in [Fields -> Values \cup {"unset"}] : Arrive(r, k, label, roles, values)
  <2>1. Unset \in [Fields -> Values \cup {"unset"}] /\ <<>> \in Seq(Roles)
    BY DEF Unset
  <2>2. \A role \in Roles : <<role>> \in Seq(Roles)
    OBVIOUS
  <2>3. /\ {"chat", "stream", "post", "patch", "delete"} \subseteq Kinds
        /\ {"get", "save", "patch_get", "delete_get"} \subseteq Labels
    BY DEF Kinds, Labels
  <2>4. CASE Chat(r)
    BY <2>1, <2>3, <2>4 DEF Chat
  <2>5. CASE Stream(r)
    BY <2>1, <2>3, <2>5 DEF Stream
  <2>6. CASE Post(r)
    BY <2>1, <2>2, <2>3, <2>6 DEF Post
  <2>7. CASE Patch(r)
    BY <2>1, <2>3, <2>7 DEF Patch
  <2>8. CASE Delete(r)
    BY <2>1, <2>3, <2>8 DEF Delete
  <2> QED
    BY <2>4, <2>5, <2>6, <2>7, <2>8 DEF Send
<1>2. begun' \in 0..MaxRequests
  BY <1>1, MemoryAssumption DEF Arrive, TypeOK
<1>3. TypedGlobals
  BY <1>1, <1>2 DEF Arrive, TypedGlobals, TypeOK, conversation, stored
<1>4. /\ pc' \in [Requests -> Labels]
      /\ kind' \in [Requests -> Kinds]
      /\ by' \in [Requests -> Users \cup {Nobody}]
      /\ turn' \in [Requests -> 0..MaxRequests]
      /\ todo' \in [Requests -> Seq(Roles)]
      /\ ask' \in [Requests -> [Fields -> Values \cup {"unset"}]]
  BY <1>1, <1>2 DEF Arrive, TypeOK
<1> QED
  BY <1>1, <1>3, <1>4 DEF Arrive, TypedLocals, TypeOK
\* Two actions end in one of these two ways.
LEMMA LocalsFromLeaveOrGoto ==
  ASSUME TypeOK, NEW r \in Requests, NEW label \in Labels,
         Leave(r) \/ Goto(r, label)
  PROVE  TypedLocals
<1>1. CASE Leave(r)
  <2>1. UNCHANGED <<kind, by, turn>>
    BY <1>1 DEF Leave
  <2> QED
    BY <1>1, <2>1, LeaveTypes DEF TypedLocals, TypeOK
<1>2. CASE Goto(r, label)
  BY <1>2, GotoTypes DEF TypedLocals, TypeOK
<1> QED
  BY <1>1, <1>2

\* Every statement keeps them.
LEMMA HandleTypes ==
  ASSUME TypeOK, NEW r \in Requests, RequestOf(r), Handle(r) \/ LoseSession(r)
  PROVE  TypedGlobals /\ TypedLocals
<1> USE DEF conversation, stored
<1>0. Labels =
        {"idle", "get", "create", "recall", "list", "fill", "search", "think",
         "save", "write", "commit", "drop", "patch_get", "patch", "delete_get", "delete"}
  BY DEF Labels
<1>1. CASE Get(r)
  <2>1. Leave(r) \/ Goto(r, "recall") \/ Goto(r, "create")
    BY <1>1 DEF Get, Opened
  <2>2. TypedLocals
    BY <2>1, <1>0, LocalsFromLeaveOrGoto
  <2> QED
    BY <1>1, <2>2 DEF Get, TypeOK, TypedGlobals
<1>2. CASE Create(r)
  <2>1. Leave(r) \/ Goto(r, "recall")
    BY <1>2 DEF Create, Opened
  <2>2. TypedLocals
    BY <2>1, <1>0, LocalsFromLeaveOrGoto
  <2>3. owner' \in Users \cup {Nobody}
    BY <1>2 DEF Create, TypeOK
  <2> QED
    BY <1>2, <2>2, <2>3 DEF Create, TypeOK, TypedGlobals
<1>3. CASE Recall(r)
  <2>1. TypedGlobals
    BY <1>3 DEF Recall, TypeOK, TypedGlobals
  <2>2. CASE Goto(r, "list")
    BY <2>1, <2>2, <1>0, LocalsFromLeaveOrGoto
  <2>3. CASE /\ cache # NoEntry
             /\ history' = [history EXCEPT ![r] = cache]
             /\ pc' = [pc EXCEPT ![r] = "search"]
             /\ UNCHANGED <<kind, by, turn, todo, own, edit>>
    BY <2>1, <2>3, <1>0 DEF TypedLocals, TypeOK, edit
  <2> QED
    BY <1>3, <2>2, <2>3 DEF Recall
<1>4. CASE List(r)
  <2>1. Page \in SUBSET Message
    BY DEF Page, TypeOK
  <2>2. history' \in [Requests -> SUBSET Message]
    BY <1>4, <2>1 DEF List, TypeOK
  <2> QED
    BY <1>4, <1>0, <2>2 DEF List, TypedGlobals, TypedLocals, TypeOK, edit
<1>5. CASE Fill(r)
  <2>1. cache' = history[r] \/ cache' = cache
    BY <1>5 DEF Fill
  <2>2. cache' = NoEntry \/ cache' \subseteq Message
    BY <2>1 DEF TypeOK
  <2>3. TypedLocals
    BY <1>5, <1>0, LocalsFromLeaveOrGoto DEF Fill
  <2> QED
    BY <1>5, <2>2, <2>3 DEF Fill, TypedGlobals, TypeOK
<1>6. CASE Search(r)
  <2>1. TypedLocals
    BY <1>6, <1>0, LocalsFromLeaveOrGoto DEF Search
  <2> QED
    BY <1>6, <2>1 DEF Search, TypedGlobals, TypeOK
<1>7. CASE Think(r)
  <2>1. TypedGlobals
    BY <1>7 DEF Think, TypedGlobals, TypeOK
  <2>2. CASE Leave(r)
    BY <2>1, <2>2, <1>0, LocalsFromLeaveOrGoto
  <2>3. ASSUME NEW roles \in Saves,
               /\ todo' = [todo EXCEPT ![r] = roles]
               /\ history' = [history EXCEPT ![r] = {}]
               /\ pc' = [pc EXCEPT ![r] = "save"]
               /\ UNCHANGED <<kind, by, turn, own, edit>>
        PROVE  TypedLocals
    <3>1. roles \in Seq(Roles)
      <4>1. {"user", "tool", "assistant"} \subseteq Roles
        BY DEF Roles
      <4>2. <<"user", "assistant">> \in Seq(Roles)
        BY <4>1
      <4>3. <<"user", "tool", "assistant">> \in Seq(Roles)
        BY <4>1
      <4> QED
        BY <4>2, <4>3 DEF Saves
    <3> QED
      BY <2>3, <3>1, <1>0 DEF TypedLocals, TypeOK, edit
  <2> QED
    BY <1>7, <2>1, <2>2, <2>3 DEF Think
<1>8. CASE Save(r)
  <2>1. TypedLocals
    BY <1>8, <1>0, LocalsFromLeaveOrGoto DEF Save
  <2> QED
    BY <1>8, <2>1 DEF Save, TypedGlobals, TypeOK
<1>9. CASE Write(r)
  <2>1. turn[r] \in 1..MaxRequests /\ by[r] \in Users /\ kind[r] \in Kinds
    BY <1>9, MemoryAssumption DEF Write, RequestOf, Known, TypeOK
  <2>2. Head(todo[r]) \in Roles
    BY <1>9 DEF Write, RequestOf, Progress, TypeOK
  <2>3. Draft(r) \in Message
    BY <2>1, <2>2 DEF Draft, Message, TypeOK
  <2>4. own' \in [Requests -> Message \cup {NoMessage}]
    BY <1>9, <2>3 DEF Write, TypeOK
  <2> QED
    BY <1>9, <1>0, <2>4 DEF Write, TypedGlobals, TypedLocals, TypeOK, edit
<1>10. CASE Commit(r)
  <2>1. messages' \subseteq Message
    BY <1>10 DEF Commit, RequestOf, Flushed, TypeOK
  <2>2. TypedGlobals
    BY <1>10, <2>1 DEF Commit, TypedGlobals, TypeOK
  <2>3. CASE Leave(r)
    BY <2>2, <2>3, <1>0, LocalsFromLeaveOrGoto
  <2>4. CASE /\ own' = [own EXCEPT ![r] = NoMessage]
             /\ todo' = [todo EXCEPT ![r] = Tail(@)]
             /\ pc' = [pc EXCEPT ![r] = "drop"]
             /\ UNCHANGED <<kind, by, turn, history, edit>>
    <3>1. todo[r] \in Seq(Roles) /\ todo[r] # <<>>
      BY <1>10 DEF Commit, RequestOf, Progress, TypeOK
    <3>2. Tail(todo[r]) \in Seq(Roles)
      BY <3>1
    <3> QED
      BY <2>2, <2>4, <3>2, <1>0 DEF TypedLocals, TypeOK, edit
  <2> QED
    BY <1>10, <2>3, <2>4 DEF Commit
<1>11. CASE Drop(r)
  <2>1. TypedLocals
    BY <1>11, <1>0, LocalsFromLeaveOrGoto DEF Drop
  <2> QED
    BY <1>11, <2>1 DEF Drop, TypedGlobals, TypeOK
<1>12. CASE PatchGet(r)
  <2>1. TypedGlobals
    BY <1>12 DEF PatchGet, TypedGlobals, TypeOK
  <2>2. CASE Leave(r)
    BY <2>1, <2>2, <1>0, LocalsFromLeaveOrGoto
  <2>3. CASE /\ seen' = [seen EXCEPT ![r] = fields]
             /\ pc' = [pc EXCEPT ![r] = "patch"]
             /\ UNCHANGED <<kind, by, turn, todo, own, history, ask>>
    BY <2>1, <2>3, <1>0 DEF TypedLocals, TypeOK
  <2> QED
    BY <1>12, <2>2, <2>3 DEF PatchGet
<1>13. CASE PatchCommit(r)
  <2>1. fields' \in [Fields -> Values]
    BY <1>13 DEF PatchCommit, TypeOK
  <2>2. TypedLocals
    BY <1>13, <1>0, LocalsFromLeaveOrGoto DEF PatchCommit
  <2> QED
    BY <1>13, <2>1, <2>2 DEF PatchCommit, TypedGlobals, TypeOK
<1>14. CASE DeleteGet(r)
  <2>1. TypedLocals
    BY <1>14, <1>0, LocalsFromLeaveOrGoto DEF DeleteGet
  <2> QED
    BY <1>14, <2>1 DEF DeleteGet, TypedGlobals, TypeOK
<1>15. CASE DeleteCommit(r)
  <2>1. TypedLocals
    BY <1>15, <1>0, LocalsFromLeaveOrGoto DEF DeleteCommit
  <2>2. deleted' \in BOOLEAN
    BY <1>15 DEF DeleteCommit
  <2>3. diedAt' \in 0..MaxRequests
    BY <1>15 DEF DeleteCommit, TypeOK
  <2> QED
    BY <1>15, <2>1, <2>2, <2>3 DEF DeleteCommit, TypedGlobals, TypeOK
<1>16. CASE LoseSession(r)
  <2>1. TypedLocals
    BY <1>16, <1>0, LocalsFromLeaveOrGoto DEF LoseSession
  <2> QED
    BY <1>16, <2>1 DEF LoseSession, TypedGlobals, TypeOK
<1> QED
  BY <1>1, <1>2, <1>3, <1>4, <1>5, <1>6, <1>7, <1>8, <1>9, <1>10, <1>11, <1>12, <1>13,
     <1>14, <1>15, <1>16 DEF Handle
-----------------------------------------------------------------------------
(* A step of one request and the others.                                   *)

OnlyOf(r) ==
  \A q \in Requests \ {r} :
    /\ pc'[q] = pc[q] /\ kind'[q] = kind[q] /\ by'[q] = by[q] /\ turn'[q] = turn[q]
    /\ todo'[q] = todo[q] /\ own'[q] = own[q] /\ history'[q] = history[q]

\* A request changes its own variables only.
LEMMA StepsAreLocal ==
  ASSUME TypeOK, NEW r \in Requests, Send(r) \/ Handle(r) \/ LoseSession(r)
  PROVE  OnlyOf(r)
<1> USE DEF OnlyOf
<1>1. Leave(r) => OnlyOf(r)
  BY DEF Leave, TypeOK
<1>2. ASSUME NEW label, Goto(r, label) PROVE OnlyOf(r)
  BY <1>2 DEF Goto, TypeOK
<1>3. ASSUME NEW k, NEW label, NEW roles, NEW values, Arrive(r, k, label, roles, values)
      PROVE  OnlyOf(r)
  BY <1>3 DEF Arrive, TypeOK
<1>4. Send(r) => OnlyOf(r)
  BY <1>3 DEF Send, Chat, Stream, Post, Patch, Delete
<1>5. Get(r) \/ Create(r) \/ Search(r) \/ Save(r) \/ Fill(r) \/ Drop(r) => OnlyOf(r)
  BY <1>1, <1>2 DEF Get, Create, Opened, Search, Save, Fill, Drop
<1>6. PatchCommit(r) \/ DeleteGet(r) \/ DeleteCommit(r) \/ LoseSession(r) => OnlyOf(r)
  BY <1>1, <1>2 DEF PatchCommit, DeleteGet, DeleteCommit, LoseSession
<1>7. Recall(r) => OnlyOf(r)
  BY <1>2 DEF Recall, TypeOK
<1>8. List(r) => OnlyOf(r)
  BY DEF List, TypeOK
<1>9. Think(r) => OnlyOf(r)
  BY <1>1 DEF Think, TypeOK
<1>10. Write(r) => OnlyOf(r)
  BY DEF Write, TypeOK
<1>11. Commit(r) => OnlyOf(r)
  BY <1>1 DEF Commit, TypeOK
<1>12. PatchGet(r) => OnlyOf(r)
  BY <1>1 DEF PatchGet, TypeOK
<1> QED
  BY <1>4, <1>5, <1>6, <1>7, <1>8, <1>9, <1>10, <1>11, <1>12 DEF Handle

\* What is stored only grows, by messages of the request that takes the step.
Grows(r) ==
  /\ owner' = owner \/ (owner = Nobody /\ owner' \in Users)
  /\ deleted => deleted' /\ diedAt' = diedAt
  /\ ~ deleted /\ deleted' => diedAt' = begun'
  /\ messages \subseteq messages'
  /\ \A m \in messages' \ messages : pc[r] # "idle" /\ m.turn = turn[r]
  /\ begun <= begun' /\ clock <= clock'

\* Messages are only added, by their own request, and time does not run back.
LEMMA StepsGrow ==
  ASSUME MemoryInv, NEW r \in Requests, Send(r) \/ Handle(r) \/ LoseSession(r)
  PROVE  Grows(r)
<1> USE DEF Grows, conversation, stored, MemoryInv, TypeOK
<1>1. Send(r) => Grows(r)
  BY DEF Send, Chat, Stream, Post, Patch, Delete, Arrive
<1>2. Get(r) \/ Search(r) \/ Save(r) \/ Fill(r) \/ Drop(r) \/ Recall(r) \/ List(r)
        \/ Think(r) => Grows(r)
  BY DEF Get, Search, Save, Fill, Drop, Recall, List, Think
<1>3. Create(r) => Grows(r)
  BY DEF Create, RequestOf, Known
<1>4. Write(r) => Grows(r)
  BY DEF Write
<1>5. Commit(r) => Grows(r)
  BY DEF Commit, RequestOf, Flushed
<1>6. PatchGet(r) \/ PatchCommit(r) \/ DeleteGet(r) \/ LoseSession(r) => Grows(r)
  BY DEF PatchGet, PatchCommit, DeleteGet, LoseSession
<1>7. DeleteCommit(r) => Grows(r)
  BY DEF DeleteCommit
<1> QED
  BY <1>1, <1>2, <1>3, <1>4, <1>5, <1>6, <1>7 DEF Handle

\* What is known of another request stays true.
LEMMA OthersKeep ==
  ASSUME MemoryInv, TypeOK', NEW r \in Requests, OnlyOf(r), Grows(r),
         NEW q \in Requests \ {r}
  PROVE  RequestOf(q)'
<1>1. /\ pc'[q] = pc[q] /\ kind'[q] = kind[q] /\ by'[q] = by[q] /\ turn'[q] = turn[q]
      /\ todo'[q] = todo[q] /\ own'[q] = own[q] /\ history'[q] = history[q]
  BY DEF OnlyOf
<1>2. pc[q] # "idle" => \A m \in messages' : m.turn = turn[q] => m \in messages
  BY DEF MemoryInv, Distinct, Grows
<1>3. RequestOf(q)
  BY DEF MemoryInv
<1>4. begun \in Nat /\ begun' \in Nat /\ clock \in Nat /\ clock' \in Nat /\ Nobody \notin Users
  BY MemoryAssumption DEF MemoryInv, TypeOK
<1>5. Known(q)'
  BY <1>1, <1>3, <1>4 DEF RequestOf, Known, Grows, Past, Recalled
<1>6. Flushed(q)'
  BY <1>1, <1>2, <1>3, <1>4 DEF RequestOf, Flushed, Grows, Message
<1>7. Progress(q)'
  BY <1>1, <1>2, <1>3 DEF RequestOf, Progress, Grows, Unsaved, Asking, Saving
<1> QED
  BY <1>5, <1>6, <1>7 DEF RequestOf
-----------------------------------------------------------------------------
(* A step of one request and itself.                                       *)

\* Nothing is claimed of a request that has left.
LEMMA LeaveEnds ==
  ASSUME TypeOK, NEW r \in Requests, Leave(r)
  PROVE  RequestOf(r)'
<1>1. pc'[r] = "idle" /\ history'[r] = {}
  BY DEF Leave, TypeOK
<1> QED
  BY <1>1 DEF RequestOf, Known, Flushed, Progress, Past, Recalled, Asking, Saving

\* A request that goes on, when nothing but the page in Redis has changed.
LEMMA GotoKeeps ==
  ASSUME MemoryInv, NEW r \in Requests, NEW label, Goto(r, label),
         UNCHANGED <<owner, deleted, diedAt, messages, clock, begun>>,
         label # "idle", label # "commit", pc[r] # "idle",
         label \in Past => by[r] = owner /\ (deleted => turn[r] <= diedAt),
         history[r] # {} => label \in Recalled,
         label \in Asking => Unsaved(r),
         label \in {"save", "write"} => todo[r] # <<>>,
         label \in Saving => pc[r] \in Saving
  PROVE  RequestOf(r)'
<1>1. /\ pc'[r] = label
      /\ UNCHANGED <<kind, by, turn, todo, own, history>>
  BY DEF Goto, MemoryInv, TypeOK
<1>2. RequestOf(r)
  BY DEF MemoryInv
<1>3. Known(r)'
  BY <1>1, <1>2 DEF RequestOf, Known
<1>4. Flushed(r)'
  BY <1>1 DEF Flushed
<1>5. Progress(r)'
  BY <1>1, <1>2 DEF RequestOf, Progress, Unsaved, Saving, Asking
<1> QED
  BY <1>3, <1>4, <1>5 DEF RequestOf

\* A conversation that a request finds is its user's, and alive.
LEMMA FoundIsOwn ==
  ASSUME MemoryInv, NEW r \in Requests, Found(r)
  PROVE  by[r] = owner /\ ~ deleted
BY DEF Found

\* A new request satisfies the invariant.
LEMMA SendKeeps ==
  ASSUME MemoryInv, NEW r \in Requests, Send(r)
  PROVE  RequestOf(r)' /\ Distinct' /\ Stored'
<1>1. PICK k \in Kinds, label \in {"get", "save", "patch_get", "delete_get"},
           roles \in Seq(Roles), values \in [Fields -> Values \cup {"unset"}] :
        /\ Arrive(r, k, label, roles, values)
        /\ label = "save" => k = "post" /\ roles # <<>>
  <2>1. \A role \in Roles : <<role>> \in Seq(Roles) /\ <<role>> # <<>>
    OBVIOUS
  <2>2. <<>> \in Seq(Roles) /\ Unset \in [Fields -> Values \cup {"unset"}]
    BY DEF Unset
  <2> QED
    BY <2>1, <2>2 DEF Send, Chat, Stream, Post, Patch, Delete, Kinds
<1>2. /\ begun' = begun + 1 /\ begun \in Nat
      /\ pc[r] = "idle" /\ pc'[r] = label /\ turn'[r] = begun + 1 /\ by'[r] \in Users
      /\ kind'[r] = k /\ todo'[r] = roles
      /\ UNCHANGED <<owner, deleted, diedAt, messages, clock, cache, own, history>>
  BY <1>1, MemoryAssumption DEF Arrive, MemoryInv, TypeOK, conversation, stored
<1>3. \A m \in messages : m.turn # begun + 1
  BY <1>2 DEF MemoryInv, Stored, TypeOK, Message
<1>4. history[r] = {}
  BY <1>2 DEF MemoryInv, RequestOf, Known, Past, Recalled
<1>5. Known(r)' /\ Flushed(r)'
  BY <1>2, <1>4 DEF Known, Flushed, Past, Recalled
<1>6. Progress(r)'
  BY <1>1, <1>2, <1>3 DEF Progress, Unsaved, Asking, Saving
<1>7. Distinct'
  <2>1. \A q \in Requests : pc[q] # "idle" => turn[q] \in 1..begun
    BY DEF MemoryInv, RequestOf, Known
  <2>2. OnlyOf(r)
    BY StepsAreLocal DEF MemoryInv
  <2> QED
    BY <1>2, <2>1, <2>2 DEF Distinct, OnlyOf, MemoryInv
<1>8. Stored'
  BY <1>2 DEF MemoryInv, Stored, TurnsInOrder, TypeOK, Message
<1> QED
  BY <1>5, <1>6, <1>7, <1>8 DEF RequestOf

\* Requests in flight keep numbers of their own.
LEMMA DistinctKept ==
  ASSUME MemoryInv, NEW r \in Requests, OnlyOf(r), turn' = turn, pc[r] # "idle"
  PROVE  Distinct'
BY DEF MemoryInv, Distinct, OnlyOf

\* No statement of a request changes its number, and only an arriving one is idle.
LEMMA HandleKeepsTurn ==
  ASSUME MemoryInv, NEW r \in Requests, Handle(r) \/ LoseSession(r)
  PROVE  turn' = turn /\ pc[r] # "idle" /\ begun' = begun
BY DEF Handle, Get, Create, Recall, List, Fill, Search, Think, Save, Write, Commit, Drop,
       PatchGet, PatchCommit, DeleteGet, DeleteCommit, LoseSession, Leave, Goto, Opened
\* A step that stores no message.
LEMMA StoredKept ==
  ASSUME MemoryInv, TypeOK', NEW r \in Requests, Grows(r), begun' = begun,
         messages' = messages,
         cache' # NoEntry => cache' = cache \/ cache' \subseteq messages,
         deleted' => owner' # Nobody
  PROVE  Stored'
<1>1. \A m \in messages : m.by \in Users /\ m.turn \in Nat /\ m.at \in Nat
  BY DEF MemoryInv, TypeOK, Message
<1>2. \A m \in messages : m.turn <= begun /\ m.at <= clock /\ m.by = owner
  BY DEF MemoryInv, Stored
<1>3. owner' = owner \/ messages = {}
  BY <1>1, <1>2, MemoryAssumption DEF Grows
<1>4. begun \in Nat /\ clock \in Nat /\ clock <= clock'
  BY MemoryAssumption DEF MemoryInv, TypeOK, Grows
<1>5. \A m \in messages : m.at <= clock' /\ m.by = owner'
  <2> SUFFICES ASSUME NEW m \in messages PROVE m.at <= clock' /\ m.by = owner'
    OBVIOUS
  <2>1. m.at <= clock /\ m.at \in Nat /\ clock' \in Nat
    BY <1>1, <1>2 DEF TypeOK
  <2>2. m.at <= clock'
    BY <1>4, <2>1
  <2>3. m.by = owner'
    BY <1>2, <1>3
  <2> QED
    BY <2>2, <2>3
<1>6. \A m \in messages : deleted' => m.turn <= diedAt'
  BY <1>2 DEF Grows, MemoryInv, Stored
<1>7. TurnsInOrder'
  BY DEF MemoryInv, Stored, TurnsInOrder
<1>8. cache' # NoEntry => cache' \subseteq messages
  BY DEF MemoryInv, Stored
<1> QED
  BY <1>2, <1>5, <1>6, <1>7, <1>8 DEF Stored

\* What is left of a chat's messages when one is saved.
LEMMA Tails ==
  /\ Tail(<<"user", "assistant">>) = <<"assistant">>
  /\ Tail(<<"user", "tool", "assistant">>) = <<"tool", "assistant">>
  /\ Tail(<<"tool", "assistant">>) = <<"assistant">>
  /\ Tail(<<"assistant">>) = <<>>
OBVIOUS

\* The Commit of a message.
LEMMA CommitKeeps ==
  ASSUME MemoryInv, NEW r \in Requests, Commit(r)
  PROVE  RequestOf(r)' /\ Stored'
<1> DEFINE new == own[r]
<1>1. /\ messages' = messages \cup {new}
      /\ UNCHANGED <<owner, deleted, diedAt, clock, cache, begun>>
      /\ pc[r] = "commit"
  BY DEF Commit, conversation
<1>2. /\ new \in Message /\ new.turn = turn[r] /\ new.by = by[r] /\ new.kind = kind[r]
      /\ new.role = Head(todo[r]) /\ new.at <= clock
      /\ \A m \in messages : m.turn = turn[r] => m.at < new.at
  BY <1>1 DEF MemoryInv, RequestOf, Flushed
<1>3. /\ by[r] = owner /\ by[r] \in Users /\ turn[r] \in 1..begun
      /\ deleted => turn[r] <= diedAt
  BY <1>1 DEF MemoryInv, RequestOf, Known, Past, Recalled
<1>4. \/ Unsaved(r) /\ (todo[r] \in Saves \/ kind[r] = "post")
      \/ /\ todo[r] \in {<<"tool", "assistant">>, <<"assistant">>}
         /\ \E q \in messages : q.turn = turn[r] /\ q.role = "user"
         /\ \A m \in messages : m.turn = turn[r] => m.role # "assistant"
  BY <1>1 DEF MemoryInv, RequestOf, Progress, Saving
<1>5. \A m \in messages \cup {new} : m.at \in Nat
  BY <1>2 DEF MemoryInv, TypeOK, Message
<1>6. TurnsInOrder'
  <2> SUFFICES ASSUME NEW m \in messages \cup {new}, m.kind = "chat"
               PROVE  /\ m.role # "user" =>
                           \E q \in messages \cup {new} :
                             q.turn = m.turn /\ q.role = "user" /\ q.at < m.at
                      /\ m.role = "assistant" =>
                           \A q \in messages \cup {new} : q.turn = m.turn => q.at <= m.at
    BY <1>1 DEF TurnsInOrder
  <2>1. CASE m = new
    <3>1. todo[r] \in Saves => Head(todo[r]) = "user"
      BY DEF Saves
    <3>2. CASE Unsaved(r)
      <4>1. \A q \in messages \cup {new} : q.turn = m.turn => q = new
        BY <1>2, <2>1, <3>2 DEF Unsaved
      <4>2. todo[r] \in Saves
        BY <1>2, <1>4, <2>1, <3>2 DEF Unsaved
      <4>3. m.role = "user"
        BY <1>2, <2>1, <3>1, <4>2
      <4> QED
        BY <4>3
    <3>3. CASE ~ Unsaved(r)
      <4>1. PICK q \in messages : q.turn = turn[r] /\ q.role = "user"
        BY <1>4, <3>3
      <4>2. q.turn = m.turn /\ q.at < m.at
        BY <1>2, <2>1, <4>1
      <4>3. \A p \in messages \cup {new} : p.turn = m.turn => p.at <= m.at
        BY <1>2, <1>5, <2>1
      <4> QED
        BY <4>1, <4>2, <4>3
    <3> QED
      BY <3>2, <3>3
  <2>2. CASE m \in messages
    <3>1. /\ m.role # "user" =>
               \E q \in messages : q.turn = m.turn /\ q.role = "user" /\ q.at < m.at
          /\ m.role = "assistant" =>
               \A q \in messages : q.turn = m.turn => q.at <= m.at
      BY <2>2 DEF MemoryInv, Stored, TurnsInOrder
    <3>2. m.role = "assistant" => m.turn # turn[r]
      BY <1>4, <2>2 DEF Unsaved
    <3> QED
      BY <1>2, <3>1, <3>2
  <2> QED
    BY <2>1, <2>2
<1>7. Stored'
  BY <1>1, <1>2, <1>3, <1>6 DEF MemoryInv, Stored
<1>8. RequestOf(r)'
  <2>1. CASE Leave(r)
    BY <2>1, LeaveEnds DEF MemoryInv
  <2>2. CASE /\ kind[r] # "post"
             /\ own' = [own EXCEPT ![r] = NoMessage]
             /\ todo' = [todo EXCEPT ![r] = Tail(@)]
             /\ pc' = [pc EXCEPT ![r] = "drop"]
             /\ UNCHANGED <<kind, by, turn, history, edit>>
    <3>1. /\ pc'[r] = "drop" /\ todo'[r] = Tail(todo[r])
          /\ by'[r] = by[r] /\ turn'[r] = turn[r] /\ history'[r] = history[r]
          /\ kind' = kind
      BY <2>2 DEF MemoryInv, TypeOK
    <3>2. Known(r)'
      BY <1>1, <1>3, <3>1 DEF Known, Past, Recalled, MemoryInv, RequestOf
    <3>3. Flushed(r)'
      BY <3>1 DEF Flushed
    <3>4. Progress(r)'
      <4>1. CASE Unsaved(r) /\ todo[r] \in Saves
        <5>1. Tail(todo[r]) \in {<<"tool", "assistant">>, <<"assistant">>}
          BY <4>1, Tails DEF Saves
        <5>2. new.role = "user"
          BY <1>2, <4>1 DEF Saves
        <5>3. \A m \in messages \cup {new} : m.turn = turn[r] => m = new
          BY <4>1 DEF Unsaved
        <5> QED
          BY <1>1, <1>2, <3>1, <5>1, <5>2, <5>3 DEF Progress, Asking, Saving
      <4>2. CASE ~ Unsaved(r)
        <5>1. Tail(todo[r]) \in {<<"assistant">>, <<>>}
          BY <1>4, <4>2, Tails
        <5>2. Tail(todo[r]) # <<>> => new.role = "tool"
          <6>1. todo[r] = <<"tool", "assistant">> => Head(todo[r]) = "tool"
            OBVIOUS
          <6> QED
            BY <1>2, <1>4, <4>2, <6>1, Tails
        <5>3. PICK q \in messages : q.turn = turn[r] /\ q.role = "user"
          BY <1>4, <4>2
        <5>4. \A m \in messages : m.turn = turn[r] => m.role # "assistant"
          BY <1>4, <4>2
        <5>5. q \in messages' /\ q.turn = turn'[r] /\ q.role = "user"
          BY <1>1, <3>1, <5>3
        <5>6. todo'[r] # <<>> =>
                \A m \in messages' : m.turn = turn'[r] => m.role # "assistant"
          BY <1>1, <3>1, <5>2, <5>4
        <5>7. todo'[r] \in {<<"tool", "assistant">>, <<"assistant">>, <<>>}
          BY <3>1, <5>1
        <5>8. \E m \in messages' : m.turn = turn'[r] /\ m.role = "user"
          BY <5>5
        <5>9. pc'[r] \notin Asking \cup {"save", "write", "commit"}
          BY <3>1 DEF Asking
        <5> QED
          BY <5>6, <5>7, <5>8, <5>9 DEF Progress
      <4> QED
        BY <1>4, <2>2, <4>1, <4>2 DEF Unsaved
    <3> QED
      BY <3>2, <3>3, <3>4 DEF RequestOf
  <2> QED
    BY <2>1, <2>2 DEF Commit
<1> QED
  BY <1>7, <1>8

\* Every statement keeps what is known of its request and of what is stored.
LEMMA HandleKeeps ==
  ASSUME MemoryInv, TypeOK', NEW r \in Requests, Grows(r), Handle(r) \/ LoseSession(r)
  PROVE  RequestOf(r)' /\ Stored'
<1>0. RequestOf(r) /\ TypeOK /\ begun' = begun
  BY HandleKeepsTurn DEF MemoryInv
<1> USE DEF conversation, stored
\* Statements that read, or end the request.
<1>1. ASSUME UNCHANGED <<owner, deleted, diedAt, messages, cache>>
      PROVE  Stored'
  BY <1>0, <1>1, StoredKept DEF MemoryInv, Stored
<1>2. CASE Get(r)
  <2>1. CASE Leave(r)
    BY <1>1, <1>2, <2>1, LeaveEnds DEF MemoryInv, Get
  <2>2. /\ pc[r] = "get" /\ history[r] = {} /\ Unsaved(r)
        /\ UNCHANGED <<owner, deleted, diedAt, messages, clock, cache>>
    BY <1>0, <1>2 DEF Get, RequestOf, Known, Progress, Recalled, Asking
  <2>3. CASE Found(r) /\ Goto(r, "recall")
    BY <1>0, <1>1, <2>2, <2>3, FoundIsOwn, GotoKeeps DEF Past, Recalled, Asking, Saving
  <2>4. CASE Goto(r, "create")
    BY <1>0, <1>1, <2>2, <2>4, GotoKeeps DEF Past, Recalled, Asking, Saving
  <2> QED
    BY <1>2, <2>1, <2>3, <2>4 DEF Get, Opened
<1>3. CASE Create(r)
  <2>1. pc[r] = "create" /\ history[r] = {} /\ Unsaved(r) /\ by[r] \in Users
    BY <1>0, <1>3 DEF Create, RequestOf, Known, Progress, Past, Recalled, Asking
  <2>2. CASE owner = Nobody
    <3>1. ~ deleted /\ owner' = by[r] /\ UNCHANGED <<deleted, diedAt, messages, clock, cache>>
      BY <1>3, <2>2 DEF Create, MemoryInv, Stored
    <3>2. Stored'
      BY <1>0, <3>1, StoredKept
    <3>3. CASE Leave(r)
      BY <1>0, <3>2, <3>3, LeaveEnds
    <3>4. CASE Goto(r, "recall")
      <4>1. /\ pc'[r] = "recall"
            /\ UNCHANGED <<kind, by, turn, todo, own, history>>
        BY <1>0, <3>4 DEF Goto, TypeOK
      <4>2. RequestOf(r)'
        BY <1>0, <2>1, <3>1, <4>1
           DEF RequestOf, Known, Flushed, Progress, Unsaved, Past, Recalled, Asking, Saving
      <4> QED
        BY <3>2, <4>2
    <3> QED
      BY <1>3, <2>2, <3>3, <3>4 DEF Create, Opened
  <2>3. CASE owner # Nobody
    BY <1>0, <1>1, <1>3, <2>3, LeaveEnds DEF Create
  <2> QED
    BY <2>2, <2>3
<1>4. CASE Recall(r)
  <2>1. /\ pc[r] = "recall" /\ by[r] = owner /\ (deleted => turn[r] <= diedAt) /\ Unsaved(r)
        /\ by[r] \in Users /\ turn[r] \in 1..begun /\ history[r] = {}
    BY <1>0, <1>4 DEF Recall, RequestOf, Known, Progress, Past, Recalled, Asking
  <2>2. UNCHANGED <<owner, deleted, diedAt, messages, clock, cache, begun>> /\ Stored'
    BY <1>1, <1>4 DEF Recall
  <2>3. CASE Goto(r, "list")
    BY <1>0, <2>1, <2>2, <2>3, GotoKeeps DEF Past, Recalled, Asking, Saving
  <2>4. CASE /\ cache # NoEntry
             /\ history' = [history EXCEPT ![r] = cache]
             /\ pc' = [pc EXCEPT ![r] = "search"]
             /\ UNCHANGED <<kind, by, turn, todo, own, edit>>
    <3>1. /\ pc'[r] = "search" /\ history'[r] \subseteq messages
          /\ UNCHANGED <<kind, by, turn, todo, own>>
      BY <1>0, <2>4 DEF TypeOK, MemoryInv, Stored
    <3>2. RequestOf(r)'
      BY <2>1, <2>2, <3>1
         DEF RequestOf, Known, Flushed, Progress, Unsaved, Past, Recalled, Asking, Saving
    <3> QED
      BY <2>2, <3>2
  <2> QED
    BY <1>4, <2>3, <2>4 DEF Recall
<1>5. CASE List(r)
  <2>1. /\ pc[r] = "list" /\ by[r] = owner /\ (deleted => turn[r] <= diedAt) /\ Unsaved(r)
        /\ by[r] \in Users /\ turn[r] \in 1..begun
    BY <1>0, <1>5 DEF List, RequestOf, Known, Progress, Past, Recalled, Asking
  <2>2. UNCHANGED <<owner, deleted, diedAt, messages, clock, cache, begun>> /\ Stored'
    BY <1>1, <1>5 DEF List
  <2>3. /\ pc'[r] = "fill" /\ history'[r] \subseteq messages
        /\ UNCHANGED <<kind, by, turn, todo, own>>
    BY <1>0, <1>5 DEF List, Page, TypeOK
  <2>4. RequestOf(r)'
    BY <2>1, <2>2, <2>3
       DEF RequestOf, Known, Flushed, Progress, Unsaved, Past, Recalled, Asking, Saving
  <2> QED
    BY <2>2, <2>4
<1>6. CASE Fill(r)
  <2>1. /\ pc[r] = "fill" /\ by[r] = owner /\ (deleted => turn[r] <= diedAt) /\ Unsaved(r)
        /\ history[r] \subseteq messages
    BY <1>0, <1>6 DEF Fill, RequestOf, Known, Progress, Past, Recalled, Asking
  <2>2. /\ UNCHANGED <<owner, deleted, diedAt, messages, clock, begun>>
        /\ Goto(r, "search") /\ cache' \in {cache, history[r]}
    BY <1>6 DEF Fill
  <2>3. Stored'
    BY <2>1, <2>2, StoredKept DEF MemoryInv, Stored
  <2> QED
    BY <2>1, <2>2, <2>3, GotoKeeps DEF Past, Recalled, Asking, Saving
<1>7. CASE Search(r)
  <2>1. /\ pc[r] = "search" /\ by[r] = owner /\ (deleted => turn[r] <= diedAt) /\ Unsaved(r)
    BY <1>0, <1>7 DEF Search, RequestOf, Known, Progress, Past, Recalled, Asking
  <2>2. UNCHANGED <<owner, deleted, diedAt, messages, clock, cache, begun>> /\ Stored'
    BY <1>1, <1>7 DEF Search
  <2>3. CASE Leave(r)
    BY <1>0, <2>2, <2>3, LeaveEnds
  <2>4. CASE Goto(r, "think")
    BY <2>1, <2>2, <2>4, GotoKeeps DEF Past, Recalled, Asking, Saving
  <2> QED
    BY <1>7, <2>3, <2>4 DEF Search
<1>8. CASE Think(r)
  <2>1. pc[r] = "think" /\ Unsaved(r) /\ by[r] \in Users /\ turn[r] \in 1..begun
    BY <1>0, <1>8 DEF Think, RequestOf, Known, Progress, Asking
  <2>2. UNCHANGED <<owner, deleted, diedAt, messages, clock, cache, begun>> /\ Stored'
    BY <1>1, <1>8 DEF Think
  <2>3. CASE Leave(r)
    BY <1>0, <2>2, <2>3, LeaveEnds
  <2>4. ASSUME NEW roles \in Saves,
               /\ todo' = [todo EXCEPT ![r] = roles]
               /\ history' = [history EXCEPT ![r] = {}]
               /\ pc' = [pc EXCEPT ![r] = "save"]
               /\ UNCHANGED <<kind, by, turn, own, edit>>
        PROVE  RequestOf(r)'
    <3>1. /\ pc'[r] = "save" /\ history'[r] = {} /\ todo'[r] = roles /\ roles # <<>>
          /\ UNCHANGED <<kind, by, turn>>
      <4>1. roles # <<>>
        BY DEF Saves
      <4> QED
        BY <1>0, <2>4, <4>1 DEF TypeOK
    <3> QED
      BY <2>1, <2>2, <3>1
         DEF RequestOf, Known, Flushed, Progress, Unsaved, Past, Recalled, Asking, Saving
  <2> QED
    BY <1>8, <2>2, <2>3, <2>4 DEF Think
<1>9. CASE Save(r)
  <2>1. pc[r] = "save" /\ history[r] = {} /\ todo[r] # <<>>
    BY <1>0, <1>9 DEF Save, RequestOf, Known, Progress, Past, Recalled
  <2>2. UNCHANGED <<owner, deleted, diedAt, messages, clock, cache, begun>> /\ Stored'
    BY <1>1, <1>9 DEF Save
  <2>3. CASE Leave(r)
    BY <1>0, <2>2, <2>3, LeaveEnds
  <2>4. CASE Found(r) /\ Goto(r, "write")
    BY <2>1, <2>2, <2>4, FoundIsOwn, GotoKeeps DEF Past, Recalled, Asking, Saving
  <2> QED
    BY <1>9, <2>3, <2>4 DEF Save
<1>10. CASE Write(r)
  <2>1. /\ pc[r] = "write" /\ todo[r] # <<>> /\ clock \in Nat
        /\ clock' = clock + 1 /\ UNCHANGED <<owner, deleted, diedAt, messages, cache, begun>>
        /\ UNCHANGED <<kind, by, turn, todo, history>>
        /\ pc'[r] = "commit" /\ own'[r] = Draft(r)
    BY <1>0, <1>10 DEF Write, RequestOf, Progress, TypeOK
  <2>2. Known(r)'
    BY <1>0, <2>1 DEF RequestOf, Known, Past, Recalled
  <2>3. Draft(r) \in Message
    <3>1. turn[r] \in 1..MaxRequests /\ by[r] \in Users /\ kind[r] \in Kinds
      BY <1>0, <2>1, MemoryAssumption DEF RequestOf, Known, TypeOK
    <3>2. Head(todo[r]) \in Roles
      BY <1>0, <2>1 DEF TypeOK
    <3> QED
      BY <2>1, <3>1, <3>2 DEF Draft, Message
  <2>4. \A m \in messages : m.at < clock + 1
    BY <1>0, <2>1 DEF MemoryInv, Stored, TypeOK, Message
  <2>5. Flushed(r)'
    BY <2>1, <2>3, <2>4 DEF Flushed, Draft
  <2>6. Progress(r)'
    BY <1>0, <2>1 DEF RequestOf, Progress, Unsaved, Asking, Saving
  <2>7. Stored'
    BY <1>1, <2>1
  <2> QED
    BY <2>2, <2>5, <2>6, <2>7 DEF RequestOf
<1>11. CASE Drop(r)
  <2>1. /\ pc[r] = "drop" /\ UNCHANGED <<owner, deleted, diedAt, messages, clock, begun>>
        /\ cache' \in {cache, NoEntry}
    BY <1>11 DEF Drop
  <2>2. Stored'
    BY <2>1, StoredKept DEF MemoryInv, Stored
  <2>3. CASE Leave(r)
    BY <1>0, <2>2, <2>3, LeaveEnds
  <2>4. CASE todo[r] # <<>> /\ Goto(r, "save")
    <3>1. history[r] = {}
      BY <1>0, <2>1 DEF RequestOf, Known, Recalled
    <3> QED
      BY <2>1, <2>2, <2>4, <3>1, GotoKeeps DEF Past, Recalled, Asking, Saving
  <2> QED
    BY <1>11, <2>3, <2>4 DEF Drop
<1>12. CASE PatchGet(r)
  <2>1. pc[r] = "patch_get"
    BY <1>12 DEF PatchGet
  <2>2. UNCHANGED <<owner, deleted, diedAt, messages, clock, cache, begun>> /\ Stored'
    BY <1>1, <1>12 DEF PatchGet
  <2>3. CASE Leave(r)
    BY <1>0, <2>2, <2>3, LeaveEnds
  <2>4. CASE /\ Found(r)
             /\ seen' = [seen EXCEPT ![r] = fields]
             /\ pc' = [pc EXCEPT ![r] = "patch"]
             /\ UNCHANGED <<kind, by, turn, todo, own, history, ask>>
    <3>1. pc'[r] = "patch" /\ by[r] = owner /\ ~ deleted /\ history[r] = {}
      BY <1>0, <2>1, <2>4, FoundIsOwn DEF TypeOK, RequestOf, Known, Recalled
    <3>2. RequestOf(r)'
      BY <1>0, <2>1, <2>2, <2>4, <3>1
         DEF RequestOf, Known, Flushed, Progress, Past, Recalled, Asking, Saving
    <3> QED
      BY <2>2, <3>2
  <2> QED
    BY <1>12, <2>3, <2>4 DEF PatchGet
<1>13. CASE PatchCommit(r)
  <2>1. Leave(r) /\ Stored'
    BY <1>1, <1>13 DEF PatchCommit
  <2> QED
    BY <1>0, <2>1, LeaveEnds
<1>14. CASE DeleteGet(r)
  <2>1. pc[r] = "delete_get" /\ history[r] = {}
    BY <1>0, <1>14 DEF DeleteGet, RequestOf, Known, Recalled
  <2>2. UNCHANGED <<owner, deleted, diedAt, messages, clock, cache, begun>> /\ Stored'
    BY <1>1, <1>14 DEF DeleteGet
  <2>3. CASE Leave(r)
    BY <1>0, <2>2, <2>3, LeaveEnds
  <2>4. CASE Found(r) /\ Goto(r, "delete")
    BY <2>1, <2>2, <2>4, FoundIsOwn, GotoKeeps DEF Past, Recalled, Asking, Saving
  <2> QED
    BY <1>14, <2>3, <2>4 DEF DeleteGet
<1>15. CASE DeleteCommit(r)
  <2>1. Leave(r) /\ UNCHANGED <<owner, messages, cache>>
    BY <1>15 DEF DeleteCommit
  <2>2. by[r] = owner /\ by[r] \in Users
    BY <1>0, <1>15 DEF DeleteCommit, RequestOf, Known, Past
  <2>3. Stored'
    BY <1>0, <2>1, <2>2, StoredKept, MemoryAssumption DEF MemoryInv, Stored
  <2> QED
    BY <1>0, <2>1, <2>3, LeaveEnds
<1>16. CASE LoseSession(r)
  <2>1. Leave(r) /\ Stored'
    BY <1>1, <1>16 DEF LoseSession
  <2> QED
    BY <1>0, <2>1, LeaveEnds
<1>17. CASE Commit(r)
  BY <1>17, CommitKeeps
<1> QED
  BY <1>2, <1>3, <1>4, <1>5, <1>6, <1>7, <1>8, <1>9, <1>10, <1>11, <1>12, <1>13, <1>14,
     <1>15, <1>16, <1>17 DEF Handle

-----------------------------------------------------------------------------
\* What no request of a chat, a post or an edit does.
LEMMA OutsideKeeps ==
  ASSUME MemoryInv, Open \/ ExpirePage \/ UNCHANGED vars
  PROVE  MemoryInv'
<1> USE DEF MemoryInv
<1>1. UNCHANGED <<requestVars, messages, clock, deleted, diedAt, fields, begun>>
  BY DEF Open, ExpirePage, vars, conversation, stored
<1>2. owner' = owner \/ (owner = Nobody /\ owner' \in Users)
  BY DEF Open, ExpirePage, vars, conversation, stored
<1>3. cache' = cache \/ cache' = NoEntry
  BY DEF Open, ExpirePage, vars, conversation, stored
<1> USE DEF requestVars, edit
<1>4. TypeOK'
  BY <1>1, <1>2, <1>3 DEF TypeOK
<1>5. \A r \in Requests : RequestOf(r)'
  BY <1>1, <1>2, MemoryAssumption
     DEF RequestOf, Known, Flushed, Progress, Unsaved, Past, Recalled
<1>6. Distinct'
  BY <1>1 DEF Distinct
<1>7. \A m \in messages : m.by \in Users
  BY DEF TypeOK, Message
<1>8. Stored'
  BY <1>1, <1>2, <1>3, <1>7, MemoryAssumption DEF Stored, TurnsInOrder
<1> QED
  BY <1>4, <1>5, <1>6, <1>8

\* Every step preserves the invariant.
LEMMA MemoryKept == MemoryInv /\ [Next]_vars => MemoryInv'
<1> SUFFICES ASSUME MemoryInv, [Next]_vars PROVE MemoryInv'
  OBVIOUS
<1>1. ASSUME NEW r \in Requests, Send(r) \/ Handle(r) \/ LoseSession(r)
      PROVE  MemoryInv'
  <2>1. TypedGlobals /\ TypedLocals
    BY <1>1, SendTypes, HandleTypes DEF MemoryInv
  <2>2. TypeOK'
    BY <2>1 DEF TypedGlobals, TypedLocals, TypeOK
  <2>3. OnlyOf(r) /\ Grows(r)
    BY <1>1, StepsAreLocal, StepsGrow DEF MemoryInv
  <2>4. \A q \in Requests \ {r} : RequestOf(q)'
    BY <2>2, <2>3, OthersKeep
  <2>5. RequestOf(r)' /\ Distinct' /\ Stored'
    <3>1. CASE Send(r)
      BY <3>1, SendKeeps
    <3>2. CASE Handle(r) \/ LoseSession(r)
      <4>1. turn' = turn /\ pc[r] # "idle"
        BY <3>2, HandleKeepsTurn
      <4>2. Distinct'
        BY <2>3, <4>1, DistinctKept
      <4> QED
        BY <2>2, <2>3, <3>2, <4>2, HandleKeeps
    <3> QED
      BY <1>1, <3>1, <3>2
  <2> QED
    BY <2>2, <2>4, <2>5 DEF MemoryInv
<1>2. CASE AllAnswered
  BY <1>2, OutsideKeeps DEF AllAnswered
<1> QED
  BY <1>1, <1>2, OutsideKeeps DEF Next

\* The invariant about what requests know, what is stored and what the page in
\* Redis holds.
THEOREM MemoryInvariant == Spec => []MemoryInv
<1> QED
  BY MemoryInit, MemoryKept, PTL DEF Spec

\* Questions come before tool results, and those before answers, in whatever order
\* chats and posts of several requests are saved.
THEOREM TurnsStayInOrder == Spec => []TurnsInOrder
<1>1. MemoryInv => TurnsInOrder
  BY DEF MemoryInv, Stored
<1> QED
  BY <1>1, MemoryInvariant, PTL

\* A page in Redis and a check made long before it is relied on serve no other user.
THEOREM OnlyOwnersAreServed == Spec => []OwnersOnly
<1>1. MemoryInv => OwnersOnly
  BY DEF MemoryInv, Stored, RequestOf, Known, Past, Recalled, OwnersOnly
<1> QED
  BY <1>1, MemoryInvariant, PTL

\* No request sent after a deletion recalls or stores a message.
THEOREM DeletedIsGone == Spec => []DeletedStaysGone
<1>1. MemoryInv => DeletedStaysGone
  BY DEF MemoryInv, Stored, RequestOf, Known, Past, Recalled, DeletedStaysGone
<1> QED
  BY <1>1, MemoryInvariant, PTL

\* What was not committed is in no page and no answer.
THEOREM CommittedIsRecalled == Spec => []RecallsCommitted
<1>1. MemoryInv => RecallsCommitted
  BY DEF MemoryInv, Stored, RequestOf, Known, RecallsCommitted
<1> QED
  BY <1>1, MemoryInvariant, PTL

\* A field changes by an edit that names it, to what that edit names.
THEOREM EditsStayApart == Spec => EditsKeepApart
<1> DEFINE Edited == \A f \in Fields : fields'[f] # fields[f] =>
             \E r \in Requests : pc[r] = "patch" /\ pc'[r] = "idle" /\ fields'[f] = ask[r][f]
<1>1. MemoryInv /\ [Next]_vars => Edited
  <2> SUFFICES ASSUME MemoryInv, [Next]_vars PROVE Edited
    OBVIOUS
  <2>1. ASSUME NEW r \in Requests, PatchCommit(r) PROVE Edited
    <3>1. pc[r] = "patch" /\ pc'[r] = "idle"
      BY <2>1 DEF PatchCommit, Leave, MemoryInv, TypeOK
    <3>2. \A f \in Fields : fields'[f] \in {fields[f], ask[r][f]}
      BY <2>1 DEF PatchCommit
    <3> QED
      BY <3>1, <3>2
  <2>2. ASSUME NEW r \in Requests, Send(r) \/ LoseSession(r) PROVE fields' = fields
    BY <2>2 DEF Send, Chat, Stream, Post, Patch, Delete, Arrive, LoseSession, conversation
  <2>3. ASSUME NEW r \in Requests, Handle(r), ~ PatchCommit(r) PROVE fields' = fields
    BY <2>3 DEF Handle, Get, Create, Recall, List, Fill, Search, Think, Save, Write, Commit,
                Drop, PatchGet, DeleteGet, DeleteCommit, conversation
  <2>4. Open \/ ExpirePage \/ UNCHANGED vars => fields' = fields
    BY DEF Open, ExpirePage, vars, conversation
  <2> QED
    BY <2>1, <2>2, <2>3, <2>4 DEF Next, AllAnswered
<1> QED
  BY <1>1, MemoryInvariant, PTL DEF Spec, EditsKeepApart
=============================================================================
