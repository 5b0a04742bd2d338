------------------------- MODULE ConversationMemory -------------------------
(***************************************************************************)
(* The memory of one conversation: its row, its messages in PostgreSQL,    *)
(* the cached page of them in Redis, and the requests that use them: agent *)
(* chats and streams, messages posted through the chat API, edits and      *)
(* deletions.                                                              *)
(*                                                                         *)
(* An action is one awaited statement with the Python code around it.      *)
(* Messages are listed by created_at, which a message gets when its INSERT *)
(* is flushed; a list of messages is modelled as the set of its members.   *)
(***************************************************************************)
EXTENDS Naturals, Sequences, FiniteSets

CONSTANTS
  Users,
  Nobody,       \* owner of a conversation that was never created
  NoEntry,      \* Redis holds no page for the conversation
  NoMessage,    \* a session has not flushed a message
  Limit,        \* memory_recent_messages
  Requests,     \* slots for requests that are in flight at the same time
  MaxRequests,  \* bound: requests ever made
  SearchFails,  \* may the embedding of a query fail?
  Posts,        \* do clients use POST /chat/messages?
  Edits,        \* do clients use PATCH and POST /chat/conversations?
  RedisFails,   \* may Redis fail a command?
  Faults        \* may sessions be lost?

ASSUME MemoryAssumption ==
  /\ Nobody \notin Users
  /\ Limit \in Nat \ {0}
  /\ MaxRequests \in Nat
  /\ {SearchFails, Posts, Edits, RedisFails, Faults} \subseteq BOOLEAN

VARIABLES
  owner,     \* user_id of the conversation's row
  deleted,   \* its is_deleted
  fields,    \* its title and is_archived
  messages,  \* committed messages
  clock,     \* created_at of the last message flushed
  cache,     \* the page in Redis
  pc,        \* request -> the statement it is about to issue
  kind,      \* request -> what it is
  by,        \* request -> the user who sent it
  turn,      \* request -> its number
  todo,      \* request -> roles of the messages it still has to save
  own,       \* request -> the message it has flushed and not committed
  history,   \* request -> the messages it has recalled
  ask,       \* request -> the fields it sets
  seen,      \* request -> the fields as its session has loaded them
  begun,     \* number of requests made
  diedAt     \* history: number of requests made when it was deleted

conversation == <<owner, deleted, fields, diedAt>>
stored == <<messages, clock>>
edit == <<ask, seen>>
requestVars == <<pc, kind, by, turn, todo, own, history, edit>>
vars == <<conversation, stored, cache, requestVars, begun>>

Kinds == {"chat", "stream", "post", "patch", "delete"}
Roles == {"user", "assistant", "system", "tool"}
Message ==
  [at : Nat, turn : 1..MaxRequests, kind : Kinds, role : Roles, by : Users]

\* What can be edited: two values stand for all titles.
Fields == {"title", "is_archived"}
Values == {"initial", "other"}
Unset == [f \in Fields |-> "unset"]
Initial == [f \in Fields |-> "initial"]

-----------------------------------------------------------------------------
(* Queries.                                                                *)

\* Mutant of Found: the owner of the row is not compared.
FoundForAnyone(r) == owner # Nobody /\ ~ deleted

\* Mutant of Found: a soft-deleted row is found.
FoundWhenDeleted(r) == owner = by[r]

\* ConversationRepository.get_by_id finds the conversation.
Found(r) == owner = by[r] /\ ~ deleted

\* The first page of the messages, oldest first.
Page ==
  {m \in messages : Cardinality({q \in messages : q.at <= m.at}) <= Limit}

-----------------------------------------------------------------------------
(* Requests.                                                               *)

\* The request ends; its session rolls back what it has not committed.
Leave(r) ==
  /\ pc' = [pc EXCEPT ![r] = "idle"]
  /\ todo' = [todo EXCEPT ![r] = <<>>]
  /\ own' = [own EXCEPT ![r] = NoMessage]
  /\ history' = [history EXCEPT ![r] = {}]
  /\ ask' = [ask EXCEPT ![r] = Unset]
  /\ seen' = [seen EXCEPT ![r] = Initial]
  /\ UNCHANGED <<kind, by, turn>>

\* The request goes on with its next statement.
Goto(r, label) ==
  /\ pc' = [pc EXCEPT ![r] = label]
  /\ UNCHANGED <<kind, by, turn, todo, own, history, edit>>

\* A client sends a request: k is its kind, roles what it will save, values what
\* it will set.
Arrive(r, k, label, roles, values) ==
  /\ pc[r] = "idle"
  /\ begun < MaxRequests
  /\ begun' = begun + 1
  /\ \E u \in Users : by' = [by EXCEPT ![r] = u]
  /\ turn' = [turn EXCEPT ![r] = begun']
  /\ kind' = [kind EXCEPT ![r] = k]
  /\ pc' = [pc EXCEPT ![r] = label]
  /\ todo' = [todo EXCEPT ![r] = roles]
  /\ ask' = [ask EXCEPT ![r] = values]
  /\ UNCHANGED <<conversation, stored, cache, own, history, seen>>

Chat(r) == Arrive(r, "chat", "get", <<>>, Unset)

Stream(r) == Arrive(r, "stream", "get", <<>>, Unset)

\* The role of a posted message is the client's choice.
Post(r) == Posts /\ \E role \in Roles : Arrive(r, "post", "save", <<role>>, Unset)

Delete(r) == Arrive(r, "delete", "delete_get", <<>>, Unset)

\* A field can be left out of a PATCH, or be null, which is the same.
Patch(r) ==
  /\ Edits
  /\ \E values \in [Fields -> Values \cup {"unset"}] :
       values # Unset /\ Arrive(r, "patch", "patch_get", <<>>, values)

\* POST /chat/conversations: the id is drawn by the server, and no other request
\* can name it before.
Open ==
  /\ Edits
  /\ begun = 0 /\ owner = Nobody
  /\ \E u \in Users : owner' = u
  /\ UNCHANGED <<deleted, fields, diedAt, stored, cache, requestVars, begun>>

-----------------------------------------------------------------------------
(* An agent chat, up to its answer.                                        *)

\* A stream needs the conversation only to exist; a chat recalls it.
Opened(r) == IF kind[r] = "chat" THEN Goto(r, "recall") ELSE Leave(r)

Get(r) ==
  /\ pc[r] = "get"
  /\ IF Found(r) THEN Opened(r) ELSE Goto(r, "create")
  /\ UNCHANGED <<conversation, stored, cache, begun>>

\* The id is the client's and the primary key of all users' rows, deleted ones
\* included: the INSERT fails if there is one.
Create(r) ==
  /\ pc[r] = "create"
  /\ IF owner = Nobody
       THEN owner' = by[r] /\ Opened(r)
       ELSE UNCHANGED owner /\ Leave(r)
  /\ UNCHANGED <<deleted, fields, diedAt, stored, cache, begun>>

\* A page in Redis answers, whoever asks; an error counts as a miss.
Recall(r) ==
  /\ pc[r] = "recall"
  /\ \/ /\ cache # NoEntry
        /\ history' = [history EXCEPT ![r] = cache]
        /\ pc' = [pc EXCEPT ![r] = "search"]
        /\ UNCHANGED <<kind, by, turn, todo, own, edit>>
     \/ /\ cache = NoEntry \/ RedisFails
        /\ Goto(r, "list")
  /\ UNCHANGED <<conversation, stored, cache, begun>>

List(r) ==
  /\ pc[r] = "list"
  /\ history' = [history EXCEPT ![r] = IF Found(r) THEN Page ELSE {}]
  /\ pc' = [pc EXCEPT ![r] = "fill"]
  /\ UNCHANGED <<conversation, stored, cache, begun, kind, by, turn, todo, own,
                 edit>>

Fill(r) ==
  /\ pc[r] = "fill"
  /\ \/ cache' = history[r]
     \/ RedisFails /\ UNCHANGED cache
  /\ Goto(r, "search")
  /\ UNCHANGED <<conversation, stored, begun>>

\* The documents are searched.  A blank query or an empty knowledge base is no
\* obstacle; an EmbeddingError is not a KnowledgeError and ends the request.
Search(r) ==
  /\ pc[r] = "search"
  /\ \/ Goto(r, "think")
     \/ SearchFails /\ Leave(r)
  /\ UNCHANGED <<conversation, stored, cache, begun>>

\* Mutant of Saves: the answer is saved before the question.
SavesAnswerFirst == {<<"assistant", "user">>, <<"assistant", "user", "tool">>}

\* What a chat saves, with or without a tool result.
Saves == {<<"user", "assistant">>, <<"user", "tool", "assistant">>}

\* The agent graph answers, or fails or times out.
Think(r) ==
  /\ pc[r] = "think"
  /\ \/ /\ \E roles \in Saves : todo' = [todo EXCEPT ![r] = roles]
        /\ history' = [history EXCEPT ![r] = {}]
        /\ pc' = [pc EXCEPT ![r] = "save"]
        /\ UNCHANGED <<kind, by, turn, own, edit>>
     \/ Leave(r)
  /\ UNCHANGED <<conversation, stored, cache, begun>>

-----------------------------------------------------------------------------
(* Saving a message: a chat's three, and a posted one.                     *)

Save(r) ==
  /\ pc[r] = "save"
  /\ IF Found(r) THEN Goto(r, "write") ELSE Leave(r)
  /\ UNCHANGED <<conversation, stored, cache, begun>>

\* The message as the flush writes it.
Draft(r) ==
  [at |-> clock + 1, turn |-> turn[r], kind |-> kind[r],
   role |-> Head(todo[r]), by |-> by[r]]

\* Mutant of Write: the message is appended to the cached page at once.
WriteThrough(r) ==
  /\ pc[r] = "write"
  /\ own' = [own EXCEPT ![r] = Draft(r)]
  /\ clock' = clock + 1
  /\ cache' = IF cache = NoEntry THEN NoEntry ELSE cache \cup {Draft(r)}
  /\ pc' = [pc EXCEPT ![r] = "commit"]
  /\ UNCHANGED <<conversation, messages, begun, kind, by, turn, todo, history,
                 edit>>

\* The flush of the INSERT.
Write(r) ==
  /\ pc[r] = "write"
  /\ own' = [own EXCEPT ![r] = Draft(r)]
  /\ clock' = clock + 1
  /\ pc' = [pc EXCEPT ![r] = "commit"]
  /\ UNCHANGED <<conversation, messages, cache, begun, kind, by, turn, todo,
                 history, edit>>

\* A posted message is answered after its commit (the second commit, of the
\* conversation's updated_at, changes nothing modelled here).
Commit(r) ==
  /\ pc[r] = "commit"
  /\ messages' = messages \cup {own[r]}
  /\ IF kind[r] = "post"
       THEN Leave(r)
       ELSE /\ own' = [own EXCEPT ![r] = NoMessage]
            /\ todo' = [todo EXCEPT ![r] = Tail(@)]
            /\ pc' = [pc EXCEPT ![r] = "drop"]
            /\ UNCHANGED <<kind, by, turn, history, edit>>
  /\ UNCHANGED <<conversation, clock, cache, begun>>

\* Mutant of Drop: the page is left for its time to live to end.
DropNothing(r) ==
  /\ pc[r] = "drop"
  /\ IF todo[r] = <<>> THEN Leave(r) ELSE Goto(r, "save")
  /\ UNCHANGED <<conversation, stored, cache, begun>>

\* save_message drops the page; an error is only logged.
Drop(r) ==
  /\ pc[r] = "drop"
  /\ \/ cache' = NoEntry
     \/ RedisFails /\ UNCHANGED cache
  /\ IF todo[r] = <<>> THEN Leave(r) ELSE Goto(r, "save")
  /\ UNCHANGED <<conversation, stored, begun>>

-----------------------------------------------------------------------------
(* Editing the conversation's row.                                         *)

PatchGet(r) ==
  /\ pc[r] = "patch_get"
  /\ IF Found(r)
       THEN /\ seen' = [seen EXCEPT ![r] = fields]
            /\ pc' = [pc EXCEPT ![r] = "patch"]
            /\ UNCHANGED <<kind, by, turn, todo, own, history, ask>>
       ELSE Leave(r)
  /\ UNCHANGED <<conversation, stored, cache, begun>>

\* Mutant of PatchCommit: the whole row is written as it was loaded.
PatchCommitRow(r) ==
  /\ pc[r] = "patch"
  /\ fields' = [f \in Fields |->
                  IF ask[r][f] = "unset" THEN seen[r][f] ELSE ask[r][f]]
  /\ Leave(r)
  /\ UNCHANGED <<owner, deleted, diedAt, stored, cache, begun>>

\* The UPDATE names the columns whose value differs from the one loaded; that the
\* row has been marked as deleted meanwhile makes no difference to it.
PatchCommit(r) ==
  /\ pc[r] = "patch"
  /\ fields' = [f \in Fields |->
                  IF ask[r][f] \in {"unset", seen[r][f]} THEN fields[f] ELSE ask[r][f]]
  /\ Leave(r)
  /\ UNCHANGED <<owner, deleted, diedAt, stored, cache, begun>>

-----------------------------------------------------------------------------
(* Deletion, and what happens by itself.                                   *)

DeleteGet(r) ==
  /\ pc[r] = "delete_get"
  /\ IF Found(r) THEN Goto(r, "delete") ELSE Leave(r)
  /\ UNCHANGED <<conversation, stored, cache, begun>>

\* The row stays, marked as deleted; the page in Redis stays too.
DeleteCommit(r) ==
  /\ pc[r] = "delete"
  /\ deleted' = TRUE
  /\ diedAt' = IF deleted THEN diedAt ELSE begun
  /\ Leave(r)
  /\ UNCHANGED <<owner, fields, stored, cache, begun>>

\* memory_redis_ttl_seconds have passed since the page was written.
ExpirePage ==
  /\ cache # NoEntry
  /\ cache' = NoEntry
  /\ UNCHANGED <<conversation, stored, requestVars, begun>>

LoseSession(r) ==
  /\ Faults
  /\ pc[r] # "idle"
  /\ Leave(r)
  /\ UNCHANGED <<conversation, stored, cache, begun>>

\* Every request that may be made has been answered.
AllAnswered ==
  /\ begun = MaxRequests
  /\ \A r \in Requests : pc[r] = "idle"
  /\ UNCHANGED vars

-----------------------------------------------------------------------------
Init ==
  /\ owner = Nobody
  /\ deleted = FALSE
  /\ fields = Initial
  /\ diedAt = 0
  /\ messages = {}
  /\ clock = 0
  /\ cache = NoEntry
  /\ pc = [r \in Requests |-> "idle"]
  /\ kind = [r \in Requests |-> "chat"]
  /\ by = [r \in Requests |-> Nobody]
  /\ turn = [r \in Requests |-> 0]
  /\ todo = [r \in Requests |-> <<>>]
  /\ own = [r \in Requests |-> NoMessage]
  /\ history = [r \in Requests |-> {}]
  /\ ask = [r \in Requests |-> Unset]
  /\ seen = [r \in Requests |-> Initial]
  /\ begun = 0

Send(r) == Chat(r) \/ Stream(r) \/ Post(r) \/ Patch(r) \/ Delete(r)

Handle(r) ==
  \/ Get(r) \/ Create(r) \/ Recall(r) \/ List(r) \/ Fill(r) \/ Search(r)
  \/ Think(r) \/ Save(r) \/ Write(r) \/ Commit(r) \/ Drop(r)
  \/ PatchGet(r) \/ PatchCommit(r) \/ DeleteGet(r) \/ DeleteCommit(r)

Next ==
  \/ \E r \in Requests : Send(r) \/ Handle(r) \/ LoseSession(r)
  \/ Open \/ ExpirePage
  \/ AllAnswered

Spec == Init /\ [][Next]_vars

-----------------------------------------------------------------------------
Labels ==
  {"idle", "get", "create", "recall", "list", "fill", "search", "think",
   "save", "write", "commit", "drop", "patch_get", "patch", "delete_get", "delete"}

\* Every variable ranges over the values the columns and the handlers allow.
TypeOK ==
  /\ owner \in Users \cup {Nobody}
  /\ deleted \in BOOLEAN
  /\ fields \in [Fields -> Values]
  /\ diedAt \in 0..MaxRequests
  /\ messages \subseteq Message
  /\ clock \in Nat
  /\ cache = NoEntry \/ cache \subseteq Message
  /\ pc \in [Requests -> Labels]
  /\ kind \in [Requests -> Kinds]
  /\ by \in [Requests -> Users \cup {Nobody}]
  /\ turn \in [Requests -> 0..MaxRequests]
  /\ todo \in [Requests -> Seq(Roles)]
  /\ own \in [Requests -> Message \cup {NoMessage}]
  /\ history \in [Requests -> SUBSET Message]
  /\ ask \in [Requests -> [Fields -> Values \cup {"unset"}]]
  /\ seen \in [Requests -> [Fields -> Values]]
  /\ begun \in 0..MaxRequests

-----------------------------------------------------------------------------
(* What holds however requests interleave, whatever is lost.               *)

\* What a chat stores comes in order: its question first, its answer last.
TurnsInOrder ==
  \A m \in messages : m.kind = "chat" =>
    /\ m.role # "user" =>
         \E q \in messages : q.turn = m.turn /\ q.role = "user" /\ q.at < m.at
    /\ m.role = "assistant" =>
         \A q \in messages : q.turn = m.turn => q.at <= m.at

\* Only the owner's messages are stored, and only the owner recalls them, though
\* the page in Redis does not say whose it is.
OwnersOnly ==
  /\ \A m \in messages : m.by = owner
  /\ \A r \in Requests : history[r] # {} => by[r] = owner

\* A request made after the conversation was deleted recalls nothing and stores
\* nothing, though its messages and the page in Redis are still there.
DeletedStaysGone ==
  deleted =>
    /\ \A m \in messages : m.turn <= diedAt
    /\ \A r \in Requests : history[r] # {} => turn[r] <= diedAt

\* A recalled or cached message was committed: no answer is built on what was
\* rolled back.
RecallsCommitted ==
  /\ cache # NoEntry => cache \subseteq messages
  /\ \A r \in Requests : history[r] \subseteq messages

\* An edit changes the fields it names to what it names, and no other: it does
\* not take back what another edit has committed since it read the row.
EditsKeepApart ==
  [][\A f \in Fields : fields'[f] # fields[f] =>
       \E r \in Requests : pc[r] = "patch" /\ pc'[r] = "idle" /\ fields'[f] = ask[r][f]]_vars

-----------------------------------------------------------------------------
(* What holds as long as chats come one at a time and Redis answers.       *)

\* Between requests the page in Redis is the page a query would return.
CacheIsCurrent ==
  (\A r \in Requests : pc[r] = "idle") => cache \in {NoEntry, Page}
=============================================================================
