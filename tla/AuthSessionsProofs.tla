------------------------- MODULE AuthSessionsProofs -------------------------
(***************************************************************************)
(* Proofs about AuthSessions: SessionInv is inductive, and accounts,       *)
(* rotation and used tokens are as they should be for any number of        *)
(* emails, usernames, requests and tokens.                                 *)
(***************************************************************************)
EXTENDS AuthSessions, TLAPS

\* A step of request r that writes no committed row.
Frame(r) ==
  /\ users' = users /\ tokens' = tokens
  /\ begun' \in Nat /\ begun <= begun'
  /\ \A q \in Requests \ {r} :
       /\ pc'[q] = pc[q] /\ kind'[q] = kind[q] /\ asked'[q] = asked[q]
       /\ shown'[q] = shown[q] /\ owner'[q] = owner[q] /\ number'[q] = number[q]

\* What SessionInv says of request r.
Fits(r) ==
  /\ Started(r) /\ HasOwner(r) /\ BeganInTime(r) /\ InsertsNew(r)
  /\ \A q \in Requests \ {r} : Apart(q, r) /\ Apart(r, q)

\* The initial state of the service, without accounts, tokens and requests.
LEMMA StartsRight == Init => SessionInv
<1> SUFFICES ASSUME Init PROVE SessionInv
  OBVIOUS
<1> USE AuthAssumption DEF Init
<1>1. TypeOK
  BY DEF TypeOK, Token, RefreshToken, Account, Nothing
<1>2. \A r \in Requests :
        /\ Started(r) /\ HasOwner(r) /\ BeganInTime(r) /\ InsertsNew(r)
        /\ \A q \in Requests : Apart(q, r)
  BY DEF Started, HasOwner, BeganInTime, InsertsNew, Apart, Inserted, Issuing, Replacing
<1>3. OneAccountEach /\ RotationIsAtomic /\ UsedIsUsedUp
  BY DEF OneAccountEach, RotationIsAtomic, UsedIsUsedUp
<1> QED
  BY <1>1, <1>2, <1>3 DEF SessionInv

-----------------------------------------------------------------------------
(* Steps that commit nothing.                                              *)

\* Requests do not disturb each other, and the rows stay as they are.
LEMMA LocalStep ==
  ASSUME NEW r \in Requests, SessionInv, Frame(r), TypeOK', Fits(r)'
  PROVE  SessionInv'
<1>1. \A q \in Requests \ {r} :
        Started(q)' /\ HasOwner(q)' /\ BeganInTime(q)' /\ InsertsNew(q)'
  <2> SUFFICES ASSUME NEW q \in Requests \ {r}
               PROVE  Started(q)' /\ HasOwner(q)' /\ BeganInTime(q)' /\ InsertsNew(q)'
    OBVIOUS
  <2>1. Started(q) /\ HasOwner(q) /\ BeganInTime(q) /\ InsertsNew(q)
    BY DEF SessionInv
  <2>2. begun \in Nat
    BY AuthAssumption DEF SessionInv, TypeOK
  <2>3. Started(q)'
    BY <2>1, <2>2 DEF Frame, Started, Inserted
  <2>4. HasOwner(q)'
    BY <2>1 DEF Frame, HasOwner, Inserted
  <2>5. BeganInTime(q)'
    BY <2>1 DEF Frame, BeganInTime, Live
  <2>6. InsertsNew(q)'
    BY <2>1 DEF Frame, InsertsNew, Inserted, Clash
  <2> QED
    BY <2>3, <2>4, <2>5, <2>6
<1>2. \A p, q \in Requests : p # q => Apart(p, q)'
  <2> SUFFICES ASSUME NEW p \in Requests, NEW q \in Requests, p # q
               PROVE  Apart(p, q)'
    OBVIOUS
  <2>1. CASE p = r \/ q = r
    BY <2>1 DEF Fits
  <2>2. CASE p # r /\ q # r
    <3>1. Apart(p, q)
      BY DEF SessionInv
    <3> QED
      BY <2>2, <3>1 DEF Frame, Apart, Inserted, Clash
  <2> QED
    BY <2>1, <2>2
<1>3. \A n \in DOMAIN tokens' :
        n \in 1..begun' /\ tokens'[n].parent \in DOMAIN tokens' \cup {0}
  BY AuthAssumption DEF SessionInv, TypeOK, Frame
<1>4. OneAccountEach' /\ RotationIsAtomic' /\ UsedIsUsedUp'
  BY DEF SessionInv, Frame, OneAccountEach, RotationIsAtomic, UsedIsUsedUp, Clash, Live
<1> QED
  BY <1>1, <1>2, <1>3, <1>4 DEF SessionInv, Fits

\* A request that leaves, its session rolled back.
LEMMA LeaveStep ==
  ASSUME NEW r \in Requests, SessionInv, Leave(r), UNCHANGED <<users, tokens, given, begun>>
  PROVE  SessionInv'
<1> USE DEF Leave
<1>1. TypeOK
  BY DEF SessionInv
<1>2. TypeOK'
  BY <1>1, AuthAssumption DEF TypeOK
<1>3. Frame(r)
  BY <1>1, AuthAssumption DEF TypeOK, Frame
<1>4. pc'[r] = "idle"
  BY <1>1 DEF TypeOK
<1>5. Fits(r)'
  BY <1>4 DEF Fits, Started, HasOwner, BeganInTime, InsertsNew, Apart, Inserted, Issuing, Replacing
<1> QED
  BY <1>2, <1>3, <1>5, LocalStep

\* A client sends a request, which has a number of its own.
LEMMA SendStep ==
  ASSUME NEW r \in Requests, SessionInv, Send(r)
  PROVE  SessionInv'
<1>1. PICK k \in {"register", "login", "refresh"}, label \in {"select", "authenticate", "lookup"},
           account \in Account \cup {Nothing}, token \in 0..MaxRequests :
        /\ Arrive(r, k, label, account, token)
        /\ label = "select" => k = "register"
        /\ label = "authenticate" => k = "login"
        /\ label = "lookup" => k = "refresh"
        /\ label # "lookup" => token = 0 /\ account \in Account
  <2>1. CASE Register(r)
    BY <2>1, AuthAssumption DEF Register
  <2>2. CASE Login(r)
    BY <2>2, AuthAssumption DEF Login
  <2>3. CASE Refresh(r)
    BY <2>3 DEF Refresh, SessionInv, TypeOK, Token
  <2> QED
    BY <2>1, <2>2, <2>3 DEF Send
<1> USE DEF Arrive
<1>2. TypeOK
  BY DEF SessionInv
<1>3. begun \in Nat /\ begun' = begun + 1 /\ begun' <= MaxRequests
  BY <1>1, <1>2, AuthAssumption DEF TypeOK
<1>4. TypeOK'
  BY <1>1, <1>2, <1>3, AuthAssumption DEF TypeOK
<1>5. Frame(r)
  BY <1>1, <1>2, <1>3 DEF TypeOK, Frame
<1>6. /\ pc'[r] = label /\ kind'[r] = k /\ asked'[r] = account
      /\ shown'[r] = token /\ number'[r] = begun'
  BY <1>1, <1>2 DEF TypeOK
<1>7. begun' \notin DOMAIN tokens
  BY <1>3 DEF SessionInv
<1>8. \A q \in Requests \ {r} : number[q] # begun' \/ pc[q] = "idle"
  BY <1>3 DEF SessionInv, Started
<1>9. Started(r)' /\ HasOwner(r)' /\ BeganInTime(r)' /\ InsertsNew(r)' /\ ~ Inserted(r)'
  BY <1>1, <1>3, <1>6, <1>7
  DEF Started, HasOwner, BeganInTime, InsertsNew, Inserted, Issuing, Replacing
<1>10. \A q \in Requests \ {r} : Apart(q, r)' /\ Apart(r, q)'
  BY <1>5, <1>6, <1>8, <1>9 DEF Frame, Apart
<1> QED
  BY <1>4, <1>5, <1>9, <1>10, LocalStep DEF Fits

-----------------------------------------------------------------------------
(* The statements of a request.  Goto changes nothing but where it is.     *)

\* The email is not taken: no account is inserted yet.
LEMMA SelectStep ==
  ASSUME NEW r \in Requests, SessionInv, Select(r)
  PROVE  SessionInv'
<1> USE DEF Goto
<1>1. CASE Leave(r)
  BY <1>1, LeaveStep DEF Select
<1>2. CASE ~ Leave(r)
  <2>1. TypeOK /\ Started(r)
    BY DEF SessionInv
  <2>2. TypeOK'
    BY <1>2, <2>1 DEF Select, TypeOK
  <2>3. Frame(r) /\ pc'[r] = "insert"
    BY <1>2, <2>1, AuthAssumption DEF Select, TypeOK, Frame
  <2>4. Fits(r)'
    <3>1. Started(r)'
      BY <1>2, <2>1, <2>3 DEF Select, Started, Inserted
    <3>2. HasOwner(r)' /\ BeganInTime(r)' /\ InsertsNew(r)'
      BY <2>3 DEF HasOwner, BeganInTime, InsertsNew, Inserted, Issuing, Replacing
    <3>3. \A q \in Requests \ {r} : Apart(q, r)' /\ Apart(r, q)'
      <4>1. \A q \in Requests \ {r} : Apart(q, r) /\ Apart(r, q)
        BY DEF SessionInv
      <4> QED
        BY <1>2, <2>3, <4>1 DEF Select, Frame, Apart, Inserted
    <3> QED
      BY <3>1, <3>2, <3>3 DEF Fits
  <2> QED
    BY <2>2, <2>3, <2>4, LocalStep
<1> QED
  BY <1>1, <1>2

\* The unique indexes let an account in that clashes with no other one,
\* committed or not.
LEMMA InsertStep ==
  ASSUME NEW r \in Requests, SessionInv, Insert(r)
  PROVE  SessionInv'
<1> USE DEF Goto
<1>1. CASE Leave(r)
  BY <1>1, LeaveStep DEF Insert
<1>2. CASE ~ Leave(r)
  <2>1. TypeOK /\ Started(r)
    BY DEF SessionInv
  <2>2. asked[r] \in Account /\ asked[r].email \in Emails /\ pc[r] = "insert"
    BY <2>1 DEF Insert, Started, Account
  <2>3. TypeOK'
    BY <1>2, <2>1, <2>2 DEF Insert, TypeOK
  <2>4. Frame(r) /\ pc'[r] = "store" /\ owner'[r] = asked[r].email
    BY <1>2, <2>1, AuthAssumption DEF Insert, TypeOK, Frame
  <2>5. Fits(r)'
    <3>1. Started(r)'
      BY <1>2, <2>1, <2>2, <2>4 DEF Insert, Started, Inserted
    <3>2. HasOwner(r)'
      BY <1>2, <2>1, <2>2, <2>4 DEF Insert, HasOwner, Started, Inserted
    <3>3. BeganInTime(r)'
      BY <2>4 DEF BeganInTime, Replacing
    <3>4. InsertsNew(r)'
      BY <1>2 DEF Insert, InsertsNew
    <3>5. \A q \in Requests \ {r} : Apart(q, r)' /\ Apart(r, q)'
      <4>1. \A q \in Requests \ {r} : Apart(q, r) /\ Apart(r, q)
        BY DEF SessionInv
      <4>2. \A q \in Requests \ {r} : Inserted(q)' => ~ Clash(asked[q], asked[r])
        BY <2>4 DEF Insert, Frame, Inserted
      <4> QED
        BY <1>2, <2>2, <2>4, <4>1, <4>2 DEF Insert, Frame, Apart, Clash
    <3> QED
      BY <3>1, <3>2, <3>3, <3>4, <3>5 DEF Fits
  <2> QED
    BY <2>3, <2>4, <2>5, LocalStep
<1> QED
  BY <1>1, <1>2

\* Whoever logs in has an account.
LEMMA AuthenticateStep ==
  ASSUME NEW r \in Requests, SessionInv, Authenticate(r)
  PROVE  SessionInv'
<1> USE DEF Goto
<1>1. CASE Leave(r)
  BY <1>1, LeaveStep DEF Authenticate
<1>2. CASE ~ Leave(r)
  <2>1. TypeOK /\ Started(r)
    BY DEF SessionInv
  <2>2. PICK u \in users : u.email = asked[r].email
    BY <1>2 DEF Authenticate
  <2>3. asked[r].email \in Emails
    BY <2>1, <2>2 DEF TypeOK, Account
  <2>4. TypeOK'
    BY <1>2, <2>1, <2>3 DEF Authenticate, TypeOK
  <2>5. Frame(r) /\ pc'[r] = "store" /\ owner'[r] = asked[r].email /\ kind'[r] = "login"
    BY <1>2, <2>1, AuthAssumption DEF Authenticate, TypeOK, Frame, Started
  <2>6. Fits(r)'
    <3>1. Started(r)'
      BY <1>2, <2>1, <2>5 DEF Authenticate, Started, Inserted
    <3>2. HasOwner(r)'
      BY <1>2, <2>2, <2>3, <2>5 DEF Authenticate, HasOwner
    <3>3. BeganInTime(r)' /\ InsertsNew(r)'
      BY <2>5 DEF BeganInTime, InsertsNew, Inserted, Replacing
    <3>4. \A q \in Requests \ {r} : Apart(q, r)' /\ Apart(r, q)'
      <4>1. \A q \in Requests \ {r} : Apart(q, r) /\ Apart(r, q)
        BY DEF SessionInv
      <4> QED
        BY <1>2, <2>5, <4>1 DEF Authenticate, Frame, Apart, Inserted
    <3> QED
      BY <3>1, <3>2, <3>3, <3>4 DEF Fits
  <2> QED
    BY <2>4, <2>5, <2>6, LocalStep
<1> QED
  BY <1>1, <1>2

\* The row of a new token: its user has an account or is being inserted.
LEMMA StoreStep ==
  ASSUME NEW r \in Requests, SessionInv, Store(r)
  PROVE  SessionInv'
<1> USE DEF Store, Goto
<1>1. TypeOK /\ Started(r) /\ HasOwner(r) /\ InsertsNew(r)
  BY DEF SessionInv
<1>2. TypeOK'
  BY <1>1 DEF TypeOK
<1>3. Frame(r) /\ pc'[r] = "end"
  BY <1>1, AuthAssumption DEF TypeOK, Frame
<1>4. Fits(r)'
  <2>1. Started(r)'
    BY <1>1, <1>3 DEF Started, Inserted
  <2>2. HasOwner(r)' /\ InsertsNew(r)'
    BY <1>1, <1>3 DEF HasOwner, InsertsNew, Inserted, Issuing, Clash
  <2>3. BeganInTime(r)'
    BY <1>1 DEF BeganInTime, Started
  <2>4. \A q \in Requests \ {r} : Apart(q, r)' /\ Apart(r, q)'
    <3>1. \A q \in Requests \ {r} : Apart(q, r) /\ Apart(r, q)
      BY DEF SessionInv
    <3> QED
      BY <1>3, <3>1 DEF Frame, Apart, Inserted, Clash
  <2> QED
    BY <2>1, <2>2, <2>3, <2>4 DEF Fits
<1> QED
  BY <1>2, <1>3, <1>4, LocalStep

\* A token that is not revoked has an owner, and its successor will too.
LEMMA LookupStep ==
  ASSUME NEW r \in Requests, SessionInv, Lookup(r)
  PROVE  SessionInv'
<1> USE DEF Goto
<1>1. CASE Leave(r)
  BY <1>1, LeaveStep DEF Lookup
<1>2. CASE ~ Leave(r)
  <2>1. TypeOK /\ Started(r)
    BY DEF SessionInv
  <2>2. Live(shown[r]) /\ owner' = [owner EXCEPT ![r] = tokens[shown[r]].owner]
    BY <1>2 DEF Lookup
  <2>3. /\ tokens[shown[r]].owner \in Emails
        /\ \E u \in users : u.email = tokens[shown[r]].owner
    BY <2>1, <2>2 DEF SessionInv, TypeOK, RefreshToken, Live, OneAccountEach
  <2>4. TypeOK'
    BY <1>2, <2>1, <2>2, <2>3 DEF Lookup, TypeOK
  <2>5. /\ Frame(r) /\ pc'[r] = "rotate" /\ kind'[r] = "refresh"
        /\ owner'[r] = tokens[shown[r]].owner
    BY <1>2, <2>1, <2>2, AuthAssumption DEF Lookup, TypeOK, Frame, Started
  <2>6. Fits(r)'
    <3>1. Started(r)'
      BY <1>2, <2>1, <2>5 DEF Lookup, Started, Inserted
    <3>2. HasOwner(r)'
      BY <1>2, <2>3, <2>5 DEF Lookup, HasOwner
    <3>3. BeganInTime(r)'
      BY <1>2, <2>2, <2>5 DEF Lookup, BeganInTime, Live
    <3>4. InsertsNew(r)'
      BY <2>5 DEF InsertsNew, Inserted
    <3>5. \A q \in Requests \ {r} : Apart(q, r)' /\ Apart(r, q)'
      <4>1. \A q \in Requests \ {r} : Apart(q, r) /\ Apart(r, q)
        BY DEF SessionInv
      <4> QED
        BY <1>2, <2>5, <4>1 DEF Lookup, Frame, Apart, Inserted
    <3> QED
      BY <3>1, <3>2, <3>3, <3>4, <3>5 DEF Fits
  <2> QED
    BY <2>4, <2>5, <2>6, LocalStep
<1> QED
  BY <1>1, <1>2

\* The flush of a rotation; it changes no committed row.
LEMMA RotateStep ==
  ASSUME NEW r \in Requests, SessionInv, Rotate(r)
  PROVE  SessionInv'
<1> USE DEF Rotate, Goto
<1>1. TypeOK /\ Started(r) /\ HasOwner(r) /\ BeganInTime(r)
  BY DEF SessionInv
<1>2. TypeOK'
  BY <1>1 DEF TypeOK
<1>3. Frame(r) /\ pc'[r] = "end" /\ kind'[r] = "refresh"
  BY <1>1, AuthAssumption DEF TypeOK, Frame, Started
<1>4. Fits(r)'
  <2>1. Started(r)'
    BY <1>1, <1>3 DEF Started, Inserted
  <2>2. HasOwner(r)' /\ InsertsNew(r)'
    BY <1>1, <1>3 DEF HasOwner, InsertsNew, Inserted, Issuing
  <2>3. BeganInTime(r)'
    BY <1>1 DEF BeganInTime, Replacing, Live
  <2>4. \A q \in Requests \ {r} : Apart(q, r)' /\ Apart(r, q)'
    <3>1. \A q \in Requests \ {r} : Apart(q, r) /\ Apart(r, q)
      BY DEF SessionInv
    <3> QED
      BY <1>3, <3>1 DEF Frame, Apart, Inserted
  <2> QED
    BY <2>1, <2>2, <2>3, <2>4 DEF Fits
<1> QED
  BY <1>2, <1>3, <1>4, LocalStep

\* An answer tells the client a token that is not stored yet.
LEMMA AnswerStep ==
  ASSUME NEW r \in Requests, SessionInv, Answer(r)
  PROVE  SessionInv'
<1> USE DEF Answer, Goto
<1>1. TypeOK /\ Started(r) /\ HasOwner(r) /\ BeganInTime(r) /\ InsertsNew(r)
  BY DEF SessionInv
<1>2. number[r] \in Token
  BY <1>1, AuthAssumption DEF Started, TypeOK, Token
<1>3. TypeOK'
  BY <1>1, <1>2 DEF TypeOK
<1>4. Frame(r) /\ pc'[r] = "answered"
  BY <1>1, AuthAssumption DEF TypeOK, Frame
<1>5. Fits(r)'
  <2>1. Started(r)'
    BY <1>1, <1>4 DEF Started, Inserted
  <2>2. HasOwner(r)' /\ InsertsNew(r)'
    BY <1>1, <1>4 DEF HasOwner, InsertsNew, Inserted, Issuing, Clash
  <2>3. BeganInTime(r)'
    BY <1>1 DEF BeganInTime, Replacing, Live
  <2>4. \A q \in Requests \ {r} : Apart(q, r)' /\ Apart(r, q)'
    <3>1. \A q \in Requests \ {r} : Apart(q, r) /\ Apart(r, q)
      BY DEF SessionInv
    <3> QED
      BY <1>4, <3>1 DEF Frame, Apart, Inserted, Clash
  <2> QED
    BY <2>1, <2>2, <2>3, <2>4 DEF Fits
<1> QED
  BY <1>3, <1>4, <1>5, LocalStep

-----------------------------------------------------------------------------
(* The commit of a session.                                                *)

\* What a commit does to the rows: the new token gets a row of its own, and
\* the row it replaces is revoked and keeps its owner and history.
StoresRows(r) ==
  /\ number[r] \in (1..begun) \ DOMAIN tokens
  /\ shown[r] # 0 => shown[r] \in DOMAIN tokens
  /\ DOMAIN tokens' = DOMAIN tokens \cup {number[r]}
  /\ tokens'[number[r]] = Issued(r)
  /\ \A t \in DOMAIN tokens :
       /\ tokens'[t].owner = tokens[t].owner
       /\ tokens'[t].parent = tokens[t].parent
       /\ t # shown[r] => tokens'[t] = tokens[t]
       /\ t = shown[r] =>
            /\ tokens'[t].replaced_by = number[r]
            /\ tokens'[t].revoked = IF Live(t) THEN begun ELSE tokens[t].revoked

\* The commit of a request in a state of SessionInv does that to the rows.
LEMMA CommittedRows ==
  ASSUME NEW r \in Requests, SessionInv, Commit(r)
  PROVE  StoresRows(r)
<1>1. TypeOK /\ Started(r) /\ BeganInTime(r) /\ pc[r] \in {"end", "answered"}
  BY DEF SessionInv, Commit
<1>2. number[r] \in (1..begun) \ DOMAIN tokens
  BY <1>1 DEF Started
<1>3. shown[r] # 0 => shown[r] \in DOMAIN tokens
  BY <1>1 DEF BeganInTime, Replacing
<1>4. tokens' = [t \in DOMAIN tokens \cup {number[r]} |->
                   IF t = number[r] THEN Issued(r)
                   ELSE IF t = shown[r] THEN Revoked(t, r) ELSE tokens[t]]
  BY DEF Commit
<1>5. ASSUME NEW t \in DOMAIN tokens
      PROVE  /\ Revoked(t, r).owner = tokens[t].owner
             /\ Revoked(t, r).parent = tokens[t].parent
             /\ Revoked(t, r).replaced_by = number[r]
             /\ Revoked(t, r).revoked = IF Live(t) THEN begun ELSE tokens[t].revoked
  <2>1. tokens[t] \in RefreshToken
    BY <1>1 DEF TypeOK
  <2> QED
    BY <2>1 DEF Revoked, Live, RefreshToken
<1>6. DOMAIN tokens' = DOMAIN tokens \cup {number[r]} /\ tokens'[number[r]] = Issued(r)
  BY <1>4
<1>7. \A t \in DOMAIN tokens :
        tokens'[t] = IF t = shown[r] THEN Revoked(t, r) ELSE tokens[t]
  BY <1>2, <1>4
<1> QED
  BY <1>2, <1>3, <1>5, <1>6, <1>7 DEF StoresRows

\* The commit keeps the columns and the requests in their types.
LEMMA CommittedTypes ==
  ASSUME NEW r \in Requests, SessionInv, Commit(r)
  PROVE  TypeOK'
<1>0. StoresRows(r)
  BY CommittedRows
<1>1. TypeOK /\ Started(r) /\ HasOwner(r) /\ pc[r] \in {"end", "answered"}
  BY DEF SessionInv, Commit
<1>2. number[r] \in Token /\ begun \in 0..MaxRequests
  BY <1>1, AuthAssumption, <1>0 DEF StoresRows, TypeOK, Token
<1>3. users' \subseteq Account
  BY <1>1 DEF Commit, TypeOK, Started
<1>4. ASSUME NEW t \in DOMAIN tokens'
      PROVE  t \in Token /\ tokens'[t] \in RefreshToken
  <2>1. CASE t = number[r]
    <3>1. Issued(r) \in RefreshToken
      BY <1>1, AuthAssumption DEF Issued, RefreshToken, TypeOK, HasOwner, Issuing
    <3> QED
      BY <1>2, <2>1, <3>1, <1>0 DEF StoresRows
  <2>2. CASE t # number[r]
    <3>1. t \in DOMAIN tokens /\ t \in Token /\ tokens[t] \in RefreshToken
      BY <1>1, <2>2, <1>0 DEF StoresRows, TypeOK
    <3>2. Revoked(t, r) \in RefreshToken
      BY <1>1, <1>2, <3>1 DEF Revoked, RefreshToken, TypeOK
    <3> QED
      BY <2>2, <3>1, <3>2 DEF Commit
  <2> QED
    BY <2>1, <2>2
<1>5. given' \subseteq Token
  BY <1>1, <1>2 DEF Commit, TypeOK
<1>6. /\ pc' = [pc EXCEPT ![r] = "idle"] /\ kind' = [kind EXCEPT ![r] = "none"]
      /\ asked' = [asked EXCEPT ![r] = Nothing] /\ shown' = [shown EXCEPT ![r] = 0]
      /\ owner' = [owner EXCEPT ![r] = Nobody] /\ number' = [number EXCEPT ![r] = 0]
      /\ begun' = begun
  BY DEF Commit, Leave
<1> QED
  BY <1>1, <1>3, <1>4, <1>5, <1>6, AuthAssumption DEF TypeOK

\* The requests that are still in flight.
LEMMA CommittedOthers ==
  ASSUME NEW r \in Requests, SessionInv, Commit(r), NEW q \in Requests, q # r
  PROVE  Started(q)' /\ HasOwner(q)' /\ BeganInTime(q)' /\ InsertsNew(q)'
<1>0. StoresRows(r)
  BY CommittedRows
<1>1. /\ TypeOK /\ Started(q) /\ HasOwner(q) /\ BeganInTime(q) /\ InsertsNew(q)
      /\ Apart(q, r) /\ Apart(r, q)
      /\ pc[r] \in {"end", "answered"}
  BY DEF SessionInv, Commit
<1>2. /\ pc'[q] = pc[q] /\ kind'[q] = kind[q] /\ asked'[q] = asked[q]
      /\ shown'[q] = shown[q] /\ owner'[q] = owner[q] /\ number'[q] = number[q]
      /\ begun' = begun
  BY <1>1 DEF Commit, Leave, TypeOK
<1>3. users \subseteq users' /\ (users' # users => users' = users \cup {asked[r]} /\ Inserted(r))
  BY DEF Commit
<1>4. Started(q)'
  BY <1>1, <1>2, <1>0 DEF StoresRows, Started, Apart, Inserted
<1>5. HasOwner(q)'
  BY <1>1, <1>2, <1>3 DEF HasOwner, Inserted
<1>6. BeganInTime(q)'
  <2> SUFFICES ASSUME pc[q] \in Replacing, shown[q] # 0
               PROVE  /\ shown[q] \in DOMAIN tokens'
                      /\ tokens'[shown[q]].owner = owner[q]
                      /\ Live(shown[q])' \/ number[q] <= tokens'[shown[q]].revoked
    BY <1>2 DEF BeganInTime
  <2>1. /\ shown[q] \in DOMAIN tokens
        /\ tokens[shown[q]].owner = owner[q]
        /\ Live(shown[q]) \/ number[q] <= tokens[shown[q]].revoked
    BY <1>1 DEF BeganInTime
  <2>2. number[q] <= begun
    BY <1>1 DEF Started, Replacing
  <2>3. begun \in Nat /\ tokens[shown[q]].revoked \in Nat
    BY <1>1, <2>1, AuthAssumption DEF TypeOK, RefreshToken
  <2> QED
    BY <1>0, <1>2, <2>1, <2>2, <2>3 DEF StoresRows, Live
<1>7. InsertsNew(q)'
  BY <1>1, <1>2, <1>3 DEF InsertsNew, Inserted, Apart, Clash
<1> QED
  BY <1>4, <1>5, <1>6, <1>7

\* The tokens after the commit form chains as before.
LEMMA CommittedChains ==
  ASSUME NEW r \in Requests, SessionInv, Commit(r)
  PROVE  RotationIsAtomic' /\ UsedIsUsedUp'
<1>0. StoresRows(r)
  BY CommittedRows
<1>1. TypeOK /\ Started(r) /\ BeganInTime(r) /\ RotationIsAtomic /\ UsedIsUsedUp
  BY DEF SessionInv
<1>2. pc[r] \in Replacing /\ begun \in Nat /\ number[r] \in Nat
  BY <1>1, AuthAssumption, <1>0 DEF StoresRows, Commit, Replacing, TypeOK
<1>3. \A n \in DOMAIN tokens :
        /\ n \in 1..begun /\ tokens[n].parent \in DOMAIN tokens \cup {0}
        /\ tokens[n] \in RefreshToken
  BY <1>1 DEF SessionInv, TypeOK
<1>4. /\ Issued(r).owner = owner[r] /\ Issued(r).replaced_by = 0
      /\ Issued(r).revoked = 0 /\ Issued(r).parent = shown[r]
  BY DEF Issued
<1>5. shown[r] # 0 => tokens'[shown[r]].revoked \in Nat \ 0..(number[r] - 1)
  BY <1>1, <1>2, <1>3, <1>0 DEF StoresRows, BeganInTime, Live, RefreshToken
<1>6. UsedIsUsedUp'
  <2> SUFFICES ASSUME NEW n \in DOMAIN tokens', tokens'[n].parent # 0
               PROVE  n <= tokens'[tokens'[n].parent].revoked
    BY DEF UsedIsUsedUp
  <2>1. CASE n = number[r]
    BY <1>4, <1>5, <2>1, <1>0 DEF StoresRows
  <2>2. CASE n # number[r]
    <3> DEFINE p == tokens[n].parent
    <3>1. n \in DOMAIN tokens /\ tokens'[n].parent = p /\ p \in DOMAIN tokens
      BY <1>3, <2>2, <1>0 DEF StoresRows
    <3>2. n <= tokens[p].revoked /\ n <= begun
      BY <1>1, <1>3, <3>1, <1>0 DEF StoresRows, UsedIsUsedUp
    <3>3. tokens'[p].revoked \in {begun, tokens[p].revoked}
      BY <3>1, <1>0 DEF StoresRows
    <3> QED
      BY <3>1, <3>2, <3>3
  <2> QED
    BY <2>1, <2>2
<1>7. RotationIsAtomic'
  <2> DEFINE Successors(t) == {n \in DOMAIN tokens : tokens[n].parent = t}
             Heirs(t) == {n \in DOMAIN tokens' : tokens'[n].parent = t}
  <2>1. Heirs(number[r]) = {}
    BY <1>3, <1>4, <1>0 DEF StoresRows
  <2>2. \A t \in DOMAIN tokens :
          Heirs(t) = Successors(t) \cup (IF t = shown[r] THEN {number[r]} ELSE {})
    BY <1>4, <1>0 DEF StoresRows
  <2> SUFFICES ASSUME NEW t \in DOMAIN tokens'
               PROVE  /\ Live(t)' => Heirs(t) = {} /\ tokens'[t].replaced_by = 0
                      /\ ~ Live(t)' => tokens'[t].replaced_by \in Heirs(t)
                      /\ \A n \in Heirs(t) : tokens'[n].owner = tokens'[t].owner
    BY DEF RotationIsAtomic
  <2>3. CASE t = number[r]
    BY <1>4, <2>1, <2>3, <1>0 DEF StoresRows, Live
  <2>4. CASE t # number[r]
    <3>1. /\ t \in DOMAIN tokens
          /\ Live(t) => Successors(t) = {} /\ tokens[t].replaced_by = 0
          /\ ~ Live(t) => tokens[t].replaced_by \in Successors(t)
          /\ \A n \in Successors(t) : tokens[n].owner = tokens[t].owner
      BY <1>1, <2>4, <1>0 DEF StoresRows, RotationIsAtomic
    <3>2. CASE t = shown[r]
      <4>1. ~ Live(t)' /\ tokens'[t].replaced_by = number[r]
        <5>1. t # 0 /\ number[r] # 0
          BY <1>0, <1>2, <1>3, <3>1 DEF StoresRows
        <5>2. tokens'[t].revoked # 0
          BY <1>2, <1>5, <3>2, <5>1
        <5> QED
          BY <1>0, <3>1, <3>2, <5>2 DEF StoresRows, Live
      <4>2. tokens[t].owner = owner[r]
        BY <1>1, <1>2, <1>3, <3>1, <3>2 DEF BeganInTime
      <4> QED
        BY <1>4, <2>2, <3>1, <3>2, <4>1, <4>2, <1>0 DEF StoresRows
    <3>3. CASE t # shown[r]
      <4>1. Heirs(t) = Successors(t) /\ tokens'[t] = tokens[t] /\ (Live(t)' <=> Live(t))
        BY <2>2, <3>1, <3>3, <1>0 DEF StoresRows, Live
      <4>2. \A n \in Successors(t) : tokens'[n].owner = tokens[n].owner
        BY <1>0 DEF StoresRows
      <4> QED
        BY <3>1, <4>1, <4>2
    <3> QED
      BY <3>2, <3>3
  <2> QED
    BY <2>3, <2>4
<1> QED
  BY <1>6, <1>7

\* No two accounts share an email or a username, and every token is somebody's.
LEMMA CommittedAccounts ==
  ASSUME NEW r \in Requests, SessionInv, Commit(r)
  PROVE  OneAccountEach'
<1>0. StoresRows(r)
  BY CommittedRows
<1>1. HasOwner(r) /\ InsertsNew(r) /\ OneAccountEach /\ pc[r] \in Issuing
  BY DEF SessionInv, Commit, Issuing
<1>2. users' = users \cup (IF Inserted(r) THEN {asked[r]} ELSE {})
  BY DEF Commit
<1>3. \A u, v \in users' : Clash(u, v) => u = v
  BY <1>1, <1>2 DEF OneAccountEach, InsertsNew, Clash
<1>4. \A t \in DOMAIN tokens' : \E u \in users' : u.email = tokens'[t].owner
  <2> SUFFICES ASSUME NEW t \in DOMAIN tokens'
               PROVE  \E u \in users' : u.email = tokens'[t].owner
    OBVIOUS
  <2>1. CASE t = number[r]
    BY <1>0, <1>1, <1>2, <2>1 DEF StoresRows, Issued, HasOwner
  <2>2. CASE t # number[r]
    BY <1>0, <1>1, <1>2, <2>2 DEF StoresRows, OneAccountEach
  <2> QED
    BY <2>1, <2>2
<1> QED
  BY <1>3, <1>4 DEF OneAccountEach, Clash

\* The commit as a whole: the request that commits is gone, the others stay.
LEMMA CommitStep ==
  ASSUME NEW r \in Requests, SessionInv, Commit(r)
  PROVE  SessionInv'
<1>0. StoresRows(r)
  BY CommittedRows
<1>1. TypeOK
  BY DEF SessionInv
<1>2. pc'[r] = "idle" /\ begun' = begun
  BY <1>1 DEF Commit, Leave, TypeOK
<1>3. \A q \in Requests \ {r} :
        pc'[q] = pc[q] /\ kind'[q] = kind[q] /\ asked'[q] = asked[q] /\ number'[q] = number[q]
  BY <1>1 DEF Commit, Leave, TypeOK
<1>4. \A q \in Requests :
        Started(q)' /\ HasOwner(q)' /\ BeganInTime(q)' /\ InsertsNew(q)'
  <2>1. Started(r)' /\ HasOwner(r)' /\ BeganInTime(r)' /\ InsertsNew(r)'
    BY <1>2 DEF Started, HasOwner, BeganInTime, InsertsNew, Inserted, Issuing, Replacing
  <2> QED
    BY <2>1, CommittedOthers
<1>5. \A p, q \in Requests : p # q => Apart(p, q)'
  <2> SUFFICES ASSUME NEW p \in Requests, NEW q \in Requests, p # q
               PROVE  Apart(p, q)'
    OBVIOUS
  <2>1. CASE p = r \/ q = r
    BY <1>2, <2>1 DEF Apart, Inserted
  <2>2. CASE p # r /\ q # r
    <3>1. Apart(p, q)
      BY DEF SessionInv
    <3> QED
      BY <1>3, <2>2, <3>1 DEF Apart, Inserted, Clash
  <2> QED
    BY <2>1, <2>2
<1>6. \A n \in DOMAIN tokens' :
        n \in 1..begun' /\ tokens'[n].parent \in DOMAIN tokens' \cup {0}
  <2>1. \A n \in DOMAIN tokens :
          n \in 1..begun /\ tokens[n].parent \in DOMAIN tokens \cup {0}
    BY DEF SessionInv
  <2> QED
    BY <1>0, <1>2, <2>1 DEF StoresRows, Issued
<1> QED
  BY <1>4, <1>5, <1>6, CommittedTypes, CommittedAccounts, CommittedChains DEF SessionInv

-----------------------------------------------------------------------------
(* The theorems.                                                           *)

\* No step of a request, and no session that is lost, leaves SessionInv.
LEMMA SessionStep == SessionInv /\ [Next]_vars => SessionInv'
<1> SUFFICES ASSUME SessionInv, [Next]_vars PROVE SessionInv'
  OBVIOUS
<1>1. ASSUME NEW r \in Requests, Handle(r) PROVE SessionInv'
  BY <1>1, SelectStep, InsertStep, AuthenticateStep, StoreStep, LookupStep, RotateStep,
     AnswerStep, CommitStep DEF Handle
<1>2. ASSUME NEW r \in Requests, LoseSession(r) PROVE SessionInv'
  BY <1>2, LeaveStep DEF LoseSession
<1>3. CASE UNCHANGED vars
  BY <1>3 DEF vars, requestVars, SessionInv, TypeOK, Started, HasOwner, BeganInTime, InsertsNew,
              Apart, Inserted, Clash, Live, OneAccountEach, RotationIsAtomic, UsedIsUsedUp
<1> QED
  BY <1>1, <1>2, <1>3, SendStep DEF Next, AllAnswered

\* The invariant that the three theorems below are read off.
THEOREM SessionInvariant == Spec => []SessionInv
<1>1. Init => SessionInv
  BY StartsRight
<1>2. SessionInv /\ [Next]_vars => SessionInv'
  BY SessionStep
<1> QED
  BY <1>1, <1>2, PTL DEF Spec

\* However registrations interleave, an email and a username have one account,
\* and every refresh token has one too.
THEOREM AccountsAreUnique == Spec => []OneAccountEach
<1>1. SessionInv => OneAccountEach
  BY DEF SessionInv
<1> QED
  BY <1>1, SessionInvariant, PTL

\* However many sessions are lost, a token is revoked exactly when a successor
\* that its row names is stored.
THEOREM RotationsAreAtomic == Spec => []RotationIsAtomic
<1>1. SessionInv => RotationIsAtomic
  BY DEF SessionInv
<1> QED
  BY <1>1, SessionInvariant, PTL

\* A refresh that begins after its token was revoked gets no successor.
THEOREM UsedTokensStayUsed == Spec => []UsedIsUsedUp
<1>1. SessionInv => UsedIsUsedUp
  BY DEF SessionInv
<1> QED
  BY <1>1, SessionInvariant, PTL
=============================================================================
