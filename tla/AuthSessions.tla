---------------------------- MODULE AuthSessions ----------------------------
(***************************************************************************)
(* Accounts and refresh tokens: registration, login and the rotation of a  *)
(* refresh token, with the transaction each request runs in.               *)
(*                                                                         *)
(* An action is one statement with the Python code around it.  Every       *)
(* request issues at most one refresh token, which has the number of the   *)
(* request (jti and hash are unique).  The session is committed when the   *)
(* dependency get_db_session is left: before the answer is sent, or after  *)
(* it, as the releases of FastAPI that pyproject.toml admits differ.       *)
(***************************************************************************)
EXTENDS Naturals, FiniteSets

CONSTANTS
  Emails,
  Names,        \* usernames
  Nobody,       \* no email
  Requests,     \* slots for requests that are in flight at the same time
  MaxRequests,  \* bound: requests ever made, and so tokens ever issued
  Faults        \* may sessions be lost?

ASSUME AuthAssumption ==
  /\ Nobody \notin Emails
  /\ MaxRequests \in Nat
  /\ Faults \in BOOLEAN

VARIABLES
  users,   \* committed accounts
  tokens,  \* number of a committed refresh token -> its row
  given,   \* tokens that clients have received
  pc,      \* request -> the statement it is about to issue
  kind,    \* request -> what it is
  asked,   \* request -> the account it names
  shown,   \* request -> the refresh token it presents, or 0
  owner,   \* request -> the user it has found or inserted
  number,  \* request -> its number
  begun    \* number of requests made

requestVars == <<pc, kind, asked, shown, owner, number>>
vars == <<users, tokens, given, requestVars, begun>>

Account == [email : Emails, name : Names]
Nothing == [email |-> Nobody, name |-> Nobody]
Token == 1..MaxRequests

\* A row of refresh_tokens.  replaced_by is replaced_by_token_hash; revoked is
\* 0 for no revoked_at, else how many requests had been made by then (of the
\* first time, should it be written again); parent is history.
RefreshToken ==
  [owner : Emails, replaced_by : 0..MaxRequests, revoked : 0..MaxRequests,
   parent : 0..MaxRequests]

Live(t) == t \in DOMAIN tokens /\ tokens[t].revoked = 0

-----------------------------------------------------------------------------
(* Requests.                                                               *)

Goto(r, label) ==
  /\ pc' = [pc EXCEPT ![r] = label]
  /\ UNCHANGED <<kind, asked, shown, number>>

\* The request ends; its session rolls back what it has not committed.
Leave(r) ==
  /\ pc' = [pc EXCEPT ![r] = "idle"]
  /\ kind' = [kind EXCEPT ![r] = "none"]
  /\ asked' = [asked EXCEPT ![r] = Nothing]
  /\ shown' = [shown EXCEPT ![r] = 0]
  /\ owner' = [owner EXCEPT ![r] = Nobody]
  /\ number' = [number EXCEPT ![r] = 0]

Arrive(r, k, label, account, token) ==
  /\ pc[r] = "idle"
  /\ begun < MaxRequests
  /\ begun' = begun + 1
  /\ pc' = [pc EXCEPT ![r] = label]
  /\ kind' = [kind EXCEPT ![r] = k]
  /\ asked' = [asked EXCEPT ![r] = account]
  /\ shown' = [shown EXCEPT ![r] = token]
  /\ number' = [number EXCEPT ![r] = begun']
  /\ UNCHANGED <<users, tokens, given, owner>>

Register(r) == \E a \in Account : Arrive(r, "register", "select", a, 0)

Login(r) == \E a \in Account : Arrive(r, "login", "authenticate", a, 0)

\* A client presents a token it was given; it may do so twice, or at once.
Refresh(r) == \E t \in given : Arrive(r, "refresh", "lookup", Nothing, t)

-----------------------------------------------------------------------------
(* create_user and authenticate_user.                                      *)

\* The email is looked up; the username is not.
Select(r) ==
  /\ pc[r] = "select"
  /\ IF \E u \in users : u.email = asked[r].email
       THEN Leave(r)
       ELSE Goto(r, "insert") /\ UNCHANGED owner
  /\ UNCHANGED <<users, tokens, given, begun>>

\* The unique indexes on email and username.
Clash(a, b) == a.email = b.email \/ a.name = b.name

\* The request has inserted an account and not committed it.
Inserted(r) == kind[r] = "register" /\ pc[r] \in {"store", "end", "answered"}

\* Mutant of Insert: there are no unique indexes.
InsertUnindexed(r) ==
  /\ pc[r] = "insert"
  /\ Goto(r, "store")
  /\ owner' = [owner EXCEPT ![r] = asked[r].email]
  /\ UNCHANGED <<users, tokens, given, begun>>

\* The INSERT waits for one it clashes with, and fails if that one has been
\* committed.
Insert(r) ==
  /\ pc[r] = "insert"
  /\ \A q \in Requests : Inserted(q) => ~ Clash(asked[q], asked[r])
  /\ IF \E u \in users : Clash(u, asked[r])
       THEN Leave(r)
       ELSE /\ Goto(r, "store")
            /\ owner' = [owner EXCEPT ![r] = asked[r].email]
  /\ UNCHANGED <<users, tokens, given, begun>>

\* The email is looked up and the password compared, which may fail.
Authenticate(r) ==
  /\ pc[r] = "authenticate"
  /\ \/ /\ asked[r].email \in {u.email : u \in users}
        /\ owner' = [owner EXCEPT ![r] = asked[r].email]
        /\ Goto(r, "store")
     \/ Leave(r)
  /\ UNCHANGED <<users, tokens, given, begun>>

\* store_refresh_token: the flush of the row.
Store(r) ==
  /\ pc[r] = "store"
  /\ Goto(r, "end")
  /\ UNCHANGED <<users, tokens, given, begun, owner>>

-----------------------------------------------------------------------------
(* rotate_refresh_token.                                                   *)

\* Mutant of Lookup: a revoked token is as good as any.
LookupRevoked(r) ==
  /\ pc[r] = "lookup"
  /\ IF shown[r] \in DOMAIN tokens
       THEN /\ Goto(r, "rotate")
            /\ owner' = [owner EXCEPT ![r] = tokens[shown[r]].owner]
       ELSE Leave(r)
  /\ UNCHANGED <<users, tokens, given, begun>>

\* The row is read, without a lock.  A token that has expired or does not
\* decode is refused too.  The user of a row exists: users are never deleted.
Lookup(r) ==
  /\ pc[r] = "lookup"
  /\ \/ /\ Live(shown[r])
        /\ Goto(r, "rotate")
        /\ owner' = [owner EXCEPT ![r] = tokens[shown[r]].owner]
     \/ Leave(r)
  /\ UNCHANGED <<users, tokens, given, begun>>

\* The row with number t after its UPDATE by request r.
Revoked(t, r) ==
  [tokens[t] EXCEPT !.replaced_by = number[r],
                    !.revoked = IF @ = 0 THEN begun ELSE @]

\* Mutant of Rotate: revoke_refresh_token commits, as the other services do.
RotateInTwo(r) ==
  /\ pc[r] = "rotate"
  /\ tokens' = [tokens EXCEPT ![shown[r]] = Revoked(shown[r], r)]
  /\ Goto(r, "end")
  /\ UNCHANGED <<users, given, begun, owner>>

\* The flush: the UPDATE of the row as it was read, which waits for another
\* one, and the INSERT of the new token.
Rotate(r) ==
  /\ pc[r] = "rotate"
  /\ \A q \in Requests :
       pc[q] \in {"end", "answered"} => shown[q] # shown[r]
  /\ Goto(r, "end")
  /\ UNCHANGED <<users, tokens, given, begun, owner>>

-----------------------------------------------------------------------------
(* The end of a request.                                                   *)

\* The answer is sent before the session is committed.
Answer(r) ==
  /\ pc[r] = "end"
  /\ given' = given \cup {number[r]}
  /\ Goto(r, "answered")
  /\ UNCHANGED <<users, tokens, begun, owner>>

\* The row of a token that request r has issued.
Issued(r) ==
  [owner |-> owner[r], replaced_by |-> 0, revoked |-> 0, parent |-> shown[r]]

\* The session is committed; the answer that follows may get lost.
Commit(r) ==
  /\ pc[r] \in {"end", "answered"}
  /\ users' = users \cup (IF Inserted(r) THEN {asked[r]} ELSE {})
  /\ tokens' = [t \in DOMAIN tokens \cup {number[r]} |->
                  IF t = number[r] THEN Issued(r)
                  ELSE IF t = shown[r] THEN Revoked(t, r) ELSE tokens[t]]
  /\ \/ given' = given \cup {number[r]}
     \/ Faults /\ UNCHANGED given
  /\ Leave(r)
  /\ UNCHANGED begun

\* The client goes away, the database refuses or the server stops.
LoseSession(r) ==
  /\ Faults
  /\ pc[r] # "idle"
  /\ Leave(r)
  /\ UNCHANGED <<users, tokens, given, begun>>

\* Every request that may be made has been answered.
AllAnswered ==
  /\ begun = MaxRequests
  /\ \A r \in Requests : pc[r] = "idle"
  /\ UNCHANGED vars

-----------------------------------------------------------------------------
Init ==
  /\ users = {}
  /\ tokens = [t \in {} |-> 0]
  /\ given = {}
  /\ pc = [r \in Requests |-> "idle"]
  /\ kind = [r \in Requests |-> "none"]
  /\ asked = [r \in Requests |-> Nothing]
  /\ shown = [r \in Requests |-> 0]
  /\ owner = [r \in Requests |-> Nobody]
  /\ number = [r \in Requests |-> 0]
  /\ begun = 0

Send(r) == Register(r) \/ Login(r) \/ Refresh(r)

Handle(r) ==
  \/ Select(r) \/ Insert(r) \/ Authenticate(r) \/ Store(r)
  \/ Lookup(r) \/ Rotate(r) \/ Answer(r) \/ Commit(r)

Next ==
  \/ \E r \in Requests : Send(r) \/ Handle(r) \/ LoseSession(r)
  \/ AllAnswered

Spec == Init /\ [][Next]_vars

-----------------------------------------------------------------------------
\* Every variable ranges over the values the columns and the handlers allow.
TypeOK ==
  /\ users \subseteq Account
  /\ DOMAIN tokens \subseteq Token
  /\ \A t \in DOMAIN tokens : tokens[t] \in RefreshToken
  /\ given \subseteq Token
  /\ pc \in [Requests -> {"idle", "select", "insert", "authenticate", "store",
                          "lookup", "rotate", "end", "answered"}]
  /\ kind \in [Requests -> {"none", "register", "login", "refresh"}]
  /\ asked \in [Requests -> Account \cup {Nothing}]
  /\ shown \in [Requests -> 0..MaxRequests]
  /\ owner \in [Requests -> Emails \cup {Nobody}]
  /\ number \in [Requests -> 0..MaxRequests]
  /\ begun \in 0..MaxRequests

-----------------------------------------------------------------------------
(* What holds however requests interleave, whatever is lost.               *)

\* An email and a username belong to one account, though registrations look
\* for the email only and long before they insert; and a token belongs to one.
OneAccountEach ==
  /\ \A u, v \in users : Clash(u, v) => u = v
  /\ \A t \in DOMAIN tokens : \E u \in users : u.email = tokens[t].owner

\* A token is revoked if and only if a successor of it can be used or has been,
\* and the successor that its row names is one: no crash between the two takes
\* a session away or leaves two generations of it alive.
RotationIsAtomic ==
  \A t \in DOMAIN tokens :
    LET successors == {n \in DOMAIN tokens : tokens[n].parent = t}
    IN  /\ Live(t) => successors = {} /\ tokens[t].replaced_by = 0
        /\ ~ Live(t) => tokens[t].replaced_by \in successors
        /\ \A n \in successors : tokens[n].owner = tokens[t].owner

\* Two refreshes at the same time can both be given a successor of a token;
\* one that begins when the token has been revoked is not.
UsedIsUsedUp ==
  \A n \in DOMAIN tokens :
    tokens[n].parent # 0 => n <= tokens[tokens[n].parent].revoked

-----------------------------------------------------------------------------
(* The inductive invariant behind those properties.                        *)

Issuing   == {"store", "rotate", "end", "answered"}
Replacing == {"rotate", "end", "answered"}

\* What a request is follows from where it is; its number is nobody's token.
Started(r) ==
  /\ pc[r] # "idle" => number[r] \in (1..begun) \ DOMAIN tokens
  /\ pc[r] \in {"select", "insert"} => kind[r] = "register"
  /\ pc[r] = "authenticate" => kind[r] = "login"
  /\ pc[r] \in {"lookup", "rotate"} => kind[r] = "refresh"
  /\ pc[r] \in {"select", "insert", "authenticate"} \/ Inserted(r) =>
       asked[r] \in Account
  /\ pc[r] \in {"select", "insert", "authenticate", "store"} => shown[r] = 0

\* A token is issued to a user, or to the one who is being inserted.
HasOwner(r) ==
  pc[r] \in Issuing =>
    /\ owner[r] \in Emails
    /\ \/ \E u \in users : u.email = owner[r]
       \/ Inserted(r) /\ asked[r].email = owner[r]

\* A request that replaces a token began before the token was revoked.
BeganInTime(r) ==
  pc[r] \in Replacing /\ shown[r] # 0 =>
    /\ shown[r] \in DOMAIN tokens
    /\ tokens[shown[r]].owner = owner[r]
    /\ Live(shown[r]) \/ number[r] <= tokens[shown[r]].revoked

\* What is being inserted clashes with no account.
InsertsNew(r) == Inserted(r) => \A u \in users : ~ Clash(u, asked[r])

Apart(q, r) ==
  /\ pc[q] # "idle" /\ pc[r] # "idle" => number[q] # number[r]
  /\ Inserted(q) /\ Inserted(r) => ~ Clash(asked[q], asked[r])

SessionInv ==
  /\ TypeOK
  /\ \A r \in Requests : Started(r)
  /\ \A r \in Requests : HasOwner(r)
  /\ \A r \in Requests : BeganInTime(r)
  /\ \A r \in Requests : InsertsNew(r)
  /\ \A q, r \in Requests : q # r => Apart(q, r)
  /\ \A n \in DOMAIN tokens :
       n \in 1..begun /\ tokens[n].parent \in DOMAIN tokens \cup {0}
  /\ OneAccountEach
  /\ RotationIsAtomic
  /\ UsedIsUsedUp
=============================================================================
