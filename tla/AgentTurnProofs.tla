--------------------------- MODULE AgentTurnProofs ---------------------------
(***************************************************************************)
(* Theorems about AgentTurn, for any messages, histories, limits and       *)
(* settings: what the agent is told, who answers a calculation, and that   *)
(* the three ways to a connector agree on what needs an approval.          *)
(***************************************************************************)
EXTENDS AgentTurn, FiniteSetTheorems, SequenceTheorems, WellFoundedInduction, TLAPS

-----------------------------------------------------------------------------
(* The most recent messages.                                               *)

\* The last n of some messages, one by one.
LEMMA LastOfProperties ==
  ASSUME NEW sizes \in Seq(Nat), NEW n \in 0..Len(sizes)
  PROVE  /\ LastOf(sizes, n) \in Seq(Nat)
         /\ Len(LastOf(sizes, n)) = n
         /\ \A i \in 1..n : LastOf(sizes, n)[i] = sizes[Len(sizes) - n + i]
<1>. DEFINE L == Len(sizes)
<1>1. L \in Nat /\ n \in Nat /\ n <= L
  OBVIOUS
<1>2. \A i \in (L - n + 1)..L : sizes[i] \in Nat
  OBVIOUS
<1>3. /\ SubSeq(sizes, L - n + 1, L) \in Seq(Nat)
      /\ Len(SubSeq(sizes, L - n + 1, L)) = n
      /\ \A i \in 1..n : SubSeq(sizes, L - n + 1, L)[i] = sizes[L - n + i]
  BY <1>1, <1>2
<1>. QED
  BY <1>3 DEF LastOf

\* The last ones of the last ones are the last ones, also with another message
\* behind them.
LEMMA LastOfAppended ==
  ASSUME NEW history \in Seq(Nat), NEW size \in Nat,
         NEW k \in 0..Len(history), NEW n \in 1..(k + 1)
  PROVE  /\ Append(LastOf(history, k), size) \in Seq(Nat)
         /\ Len(Append(LastOf(history, k), size)) = k + 1
         /\ LastOf(Append(LastOf(history, k), size), n) = LastOf(Append(history, size), n)
<1>. DEFINE recent == Append(LastOf(history, k), size)
            all == Append(history, size)
<1>1. /\ LastOf(history, k) \in Seq(Nat) /\ Len(LastOf(history, k)) = k
      /\ \A i \in 1..k : LastOf(history, k)[i] = history[Len(history) - k + i]
  BY LastOfProperties
<1>2. /\ recent \in Seq(Nat) /\ Len(recent) = k + 1
      /\ all \in Seq(Nat) /\ Len(all) = Len(history) + 1
      /\ recent[k + 1] = size /\ all[Len(history) + 1] = size
      /\ \A i \in 1..k : recent[i] = LastOf(history, k)[i]
      /\ \A i \in 1..Len(history) : all[i] = history[i]
  BY <1>1, AppendProperties
<1>. HIDE DEF recent, all
<1>3. \A i \in 1..(k + 1) : recent[i] = all[Len(history) - k + i]
  <2>. TAKE i \in 1..(k + 1)
  <2>1. CASE i = k + 1
    BY <1>2, <2>1
  <2>2. CASE i \in 1..k
    <3>1. Len(history) - k + i \in 1..Len(history)
      BY <2>2
    <3>. QED
      BY <1>1, <1>2, <2>2, <3>1
  <2>. QED
    BY <2>1, <2>2
<1>4. /\ n \in 0..Len(recent) /\ n \in 0..Len(all)
  BY <1>2
<1>5. /\ LastOf(recent, n) \in Seq(Nat) /\ Len(LastOf(recent, n)) = n
      /\ \A i \in 1..n : LastOf(recent, n)[i] = recent[k + 1 - n + i]
  <2>1. \A i \in 1..n : LastOf(recent, n)[i] = recent[Len(recent) - n + i]
    BY <1>2, <1>4, LastOfProperties
  <2>2. LastOf(recent, n) \in Seq(Nat) /\ Len(LastOf(recent, n)) = n
    BY <1>2, <1>4, LastOfProperties
  <2>. QED
    BY <1>2, <2>1, <2>2
<1>6. /\ LastOf(all, n) \in Seq(Nat) /\ Len(LastOf(all, n)) = n
      /\ \A i \in 1..n : LastOf(all, n)[i] = all[Len(history) + 1 - n + i]
  <2>1. \A i \in 1..n : LastOf(all, n)[i] = all[Len(all) - n + i]
    BY <1>2, <1>4, LastOfProperties
  <2>2. LastOf(all, n) \in Seq(Nat) /\ Len(LastOf(all, n)) = n
    BY <1>2, <1>4, LastOfProperties
  <2>. QED
    BY <1>2, <2>1, <2>2
<1>7. \A i \in 1..n : LastOf(recent, n)[i] = LastOf(all, n)[i]
  <2>. TAKE i \in 1..n
  <2>1. /\ k + 1 - n + i \in 1..(k + 1)
        /\ Len(history) - k + (k + 1 - n + i) = Len(history) + 1 - n + i
    OBVIOUS
  <2>. QED
    BY <1>3, <1>5, <1>6, <2>1
<1>8. LastOf(recent, n) = LastOf(all, n)
  <2>. DEFINE u == LastOf(recent, n)
              v == LastOf(all, n)
  <2>1. /\ u \in Seq(Nat) /\ v \in Seq(Nat) /\ Len(u) = n /\ Len(v) = n
        /\ \A i \in 1..n : u[i] = v[i]
    BY <1>5, <1>6, <1>7
  <2>. HIDE DEF u, v
  <2>2. u = v
    BY <2>1, SeqEqual
  <2>. QED
    BY <2>2 DEF u, v
<1>. QED
  BY <1>2, <1>8 DEF recent, all

\* Messages in reverse.
LEMMA ReverseProperties ==
  ASSUME NEW sizes \in Seq(Nat)
  PROVE  /\ Reverse(sizes) \in Seq(Nat) /\ Len(Reverse(sizes)) = Len(sizes)
         /\ \A i \in 1..Len(sizes) : Reverse(sizes)[i] = sizes[Len(sizes) - i + 1]
<1>1. \A i \in 1..Len(sizes) : sizes[Len(sizes) - i + 1] \in Nat
  <2>. TAKE i \in 1..Len(sizes)
  <2>1. Len(sizes) - i + 1 \in 1..Len(sizes)
    OBVIOUS
  <2>. QED
    BY <2>1
<1>. QED
  BY <1>1 DEF Reverse

\* The last ones of some messages are a suffix of them.
LEMMA LastOfIsSuffix ==
  ASSUME NEW sizes \in Seq(Nat), NEW n \in 0..Len(sizes)
  PROVE  IsSuffix(LastOf(sizes, n), sizes)
<1>. DEFINE s == LastOf(sizes, n)
<1>1. /\ s \in Seq(Nat) /\ Len(s) = n
      /\ \A i \in 1..n : s[i] = sizes[Len(sizes) - n + i]
  BY LastOfProperties
<1>. HIDE DEF s
<1>2. /\ Reverse(s) \in Seq(Nat) /\ Len(Reverse(s)) = n
      /\ \A i \in 1..n : Reverse(s)[i] = s[n - i + 1]
  BY <1>1, ReverseProperties
<1>3. /\ Reverse(sizes) \in Seq(Nat) /\ Len(Reverse(sizes)) = Len(sizes)
      /\ \A i \in 1..Len(sizes) : Reverse(sizes)[i] = sizes[Len(sizes) - i + 1]
  BY ReverseProperties
<1>4. \A i \in 1..n : Reverse(s)[i] = Reverse(sizes)[i]
  <2>. TAKE i \in 1..n
  <2>1. /\ n - i + 1 \in 1..n /\ i \in 1..Len(sizes)
        /\ Len(sizes) - n + (n - i + 1) = Len(sizes) - i + 1
    OBVIOUS
  <2>. QED
    BY <1>1, <1>2, <1>3, <2>1
<1>5. SubSeq(Reverse(s), 1, n) = SubSeq(Reverse(sizes), 1, n)
  BY <1>2, <1>3, <1>4
<1>. QED
  BY <1>2, <1>3, <1>5 DEF IsSuffix, IsPrefix, s

\* A set of numbers from 1 on without a gap is told by its size.
LEMMA NoGap ==
  ASSUME NEW m \in Nat, NEW T \in SUBSET (1..m),
         \A n \in T : \A k \in 1..n : k \in T
  PROVE  Cardinality(T) \in 0..m /\ T = 1..Cardinality(T)
<1>. DEFINE Out == {k \in 1..(m + 1) : k \notin T}
<1>1. m + 1 \in Out /\ Out \subseteq Nat
  OBVIOUS
<1>. HIDE DEF Out
<1>2. PICK k \in Out : \A j \in Out : <<j, k>> \notin OpToRel(<, Nat)
  BY <1>1, NatLessThanWellFounded, WFMin
<1>3. k \in 1..(m + 1) /\ k \notin T
  BY DEF Out
<1>4. \A j \in 1..(k - 1) : j \in T
  <2>. SUFFICES ASSUME NEW j \in 1..(k - 1), j \notin T
                PROVE  FALSE
    OBVIOUS
  <2>1. j \in Out /\ j \in Nat /\ k \in Nat /\ j < k
    BY <1>3 DEF Out
  <2>. QED
    BY <1>2, <2>1 DEF OpToRel
<1>5. T = 1..(k - 1)
  <2>1. ASSUME NEW n \in T PROVE n \in 1..(k - 1)
    <3>1. ~ (k <= n)
      BY <1>3
    <3>. QED
      BY <1>3, <3>1
  <2>. QED
    BY <1>4, <2>1
<1>6. Cardinality(1..(k - 1)) = k - 1
  BY <1>3, FS_Interval
<1>. QED
  BY <1>3, <1>5, <1>6

\* What ContextBuilder keeps of the messages it is given: the message itself
\* and, before it, as many as fit.
LEMMA TruncatedKeeps ==
  ASSUME NEW sizes \in Seq(Nat), Len(sizes) >= 1
  PROVE  \E n \in 1..Len(sizes) :
           /\ Truncated(sizes) = LastOf(sizes, n)
           /\ n = 1 \/ Sum(LastOf(sizes, n)) <= MaxChars
           /\ n < Len(sizes) => ~ (Sum(LastOf(sizes, n + 1)) <= MaxChars)
<1>. DEFINE Fits(n) == n = 1 \/ Sum(LastOf(sizes, n)) <= MaxChars
            kept == {n \in 1..Len(sizes) : \A k \in 1..n : Fits(k)}
            m == Cardinality(kept)
<1>1. Truncated(sizes) = LastOf(sizes, m)
  BY DEF Truncated
<1>2. Len(sizes) \in Nat /\ Fits(1)
  OBVIOUS
<1>. HIDE DEF Fits
<1>3. kept \in SUBSET (1..Len(sizes)) /\ \A n \in kept : \A k \in 1..n : k \in kept
  OBVIOUS
<1>4. 1 \in kept
  BY <1>2
<1>5. m \in 0..Len(sizes) /\ kept = 1..m
  <2>. HIDE DEF kept
  <2>. QED
    BY <1>2, <1>3, NoGap
<1>6. m \in 1..Len(sizes) /\ m \in kept
  <2>. HIDE DEF kept, m
  <2>. QED
    BY <1>4, <1>5
<1>7. Fits(m)
  <2>. HIDE DEF m
  <2>. QED
    BY <1>6
<1>8. ASSUME m < Len(sizes)
      PROVE  ~ Fits(m + 1)
  <2>1. m + 1 \in 1..Len(sizes) /\ m + 1 \notin kept
    <3>. HIDE DEF kept, m
    <3>. QED
      BY <1>5, <1>6, <1>8
  <2>2. PICK k \in 1..(m + 1) : ~ Fits(k)
    <3>. HIDE DEF m
    <3>. QED
      BY <2>1
  <2>3. \A j \in 1..m : Fits(j)
    <3>. HIDE DEF m
    <3>. QED
      BY <1>6
  <2>4. k = m + 1
    <3>. HIDE DEF m
    <3>. QED
      BY <1>6, <2>2, <2>3
  <2>. QED
    BY <2>2, <2>4
<1>9. m + 1 # 1
  <2>. HIDE DEF m
  <2>. QED
    BY <1>6
<1>. HIDE DEF m, kept
<1>. QED
  BY <1>1, <1>6, <1>7, <1>8, <1>9 DEF Fits

\* What a turn begins with: the message, and before it the most recent ones, as
\* many as both limits admit.
LEMMA BuildKeeps ==
  ASSUME NEW history \in Seq(Nat), NEW size \in Nat
  PROVE  LET all == Append(history, size)
         IN  \E n \in 1..(MaxMessages + 1) :
               /\ n <= Len(all)
               /\ BuildMessages(history, size) = LastOf(all, n)
               /\ n = 1 \/ Sum(LastOf(all, n)) <= MaxChars
               /\ n < Len(all) /\ n <= MaxMessages =>
                    ~ (Sum(LastOf(all, n + 1)) <= MaxChars)
<1>. DEFINE k == AtMost(Len(history), MaxMessages)
            recent == Append(LastOf(history, k), size)
            all == Append(history, size)
<1>1. /\ k \in 0..Len(history) /\ k <= MaxMessages /\ MaxMessages \in Nat
      /\ k < MaxMessages => k = Len(history)
  BY TurnAssumption DEF AtMost
<1>. HIDE DEF k
<1>2. recent \in Seq(Nat) /\ Len(recent) = k + 1
  <2>1. 1 \in 1..(k + 1)
    BY <1>1
  <2>. QED
    BY <1>1, <2>1, LastOfAppended
<1>3. \A n \in 1..(k + 1) : LastOf(recent, n) = LastOf(all, n)
  BY <1>1, LastOfAppended
<1>4. Len(all) = Len(history) + 1
  BY AppendProperties
<1>5. BuildMessages(history, size) = Truncated(recent)
  BY DEF BuildMessages, k
<1>. HIDE DEF recent, all
<1>6. PICK n \in 1..(k + 1) :
        /\ Truncated(recent) = LastOf(recent, n)
        /\ n = 1 \/ Sum(LastOf(recent, n)) <= MaxChars
        /\ n < k + 1 => ~ (Sum(LastOf(recent, n + 1)) <= MaxChars)
  <2>1. Len(recent) >= 1
    BY <1>1, <1>2
  <2>. QED
    BY <1>2, <2>1, TruncatedKeeps
<1>7. n \in 1..(MaxMessages + 1) /\ n <= Len(all)
  BY <1>1, <1>4
<1>8. /\ BuildMessages(history, size) = LastOf(all, n)
      /\ n = 1 \/ Sum(LastOf(all, n)) <= MaxChars
  BY <1>3, <1>5, <1>6
<1>9. ASSUME n < Len(all), n <= MaxMessages
      PROVE  ~ (Sum(LastOf(all, n + 1)) <= MaxChars)
  <2>1. n < k + 1 /\ n + 1 \in 1..(k + 1)
    BY <1>1, <1>4, <1>9
  <2>. QED
    BY <1>3, <1>6, <2>1
<1>. QED
  BY <1>7, <1>8, <1>9 DEF all

\* The agent is given the most recent messages without a gap, as many as both
\* limits allow, and always the one it has to answer: for every history.
THEOREM ContextStaysRecent == Spec => []ContextIsRecent
<1>1. Init => ContextIsRecent
  BY DEF Init, ContextIsRecent
<1>2. ASSUME Receive
      PROVE  ContextIsRecent'
  <2>1. PICK h \in Histories, s \in Sizes :
          messages' = BuildMessages(h, s) /\ recalled' = Append(h, s)
    BY <1>2 DEF Receive
  <2>2. h \in Seq(Nat) /\ s \in Nat /\ MaxMessages \in Nat
    BY TurnAssumption
  <2>. DEFINE all == Append(h, s)
  <2>3. all \in Seq(Nat)
    BY <2>2, AppendProperties
  <2>4. PICK n \in 1..(MaxMessages + 1) :
          /\ n <= Len(all)
          /\ messages' = LastOf(all, n)
          /\ n = 1 \/ Sum(LastOf(all, n)) <= MaxChars
          /\ n < Len(all) /\ n <= MaxMessages =>
               ~ (Sum(LastOf(all, n + 1)) <= MaxChars)
    BY <2>1, <2>2, BuildKeeps
  <2>. HIDE DEF all
  <2>5. n \in 0..Len(all)
    BY <2>2, <2>3, <2>4
  <2>6. Len(messages') = n /\ IsSuffix(messages', all)
    BY <2>3, <2>4, <2>5, LastOfProperties, LastOfIsSuffix
  <2>7. recalled' = all
    BY <2>1 DEF all
  <2>. QED
    BY <2>4, <2>6, <2>7 DEF ContextIsRecent
<1>3. ContextIsRecent /\ [Next]_vars => ContextIsRecent'
  <2>. SUFFICES ASSUME ContextIsRecent, [Next]_vars
                PROVE  ContextIsRecent'
    OBVIOUS
  <2>1. CASE UNCHANGED vars
    BY <2>1 DEF vars, memory, ContextIsRecent
  <2>2. ASSUME NEW who, Call(who)
        PROVE  ContextIsRecent'
    BY <2>2 DEF Call, ContextIsRecent
  <2>3. CASE Fail
    BY <2>3 DEF Fail, ContextIsRecent
  <2>4. CASE \/ Retrieve \/ Supervise \/ Integrate \/ IntegrationRaises
             \/ Plan \/ Execute \/ Answer \/ Return
    <3>1. pc' # "retrieve"
      BY <2>4 DEF Retrieve, Supervise, Integrate, IntegrationRaises, Plan, Execute,
                  Answer, Return
    <3>. QED
      BY <3>1 DEF ContextIsRecent
  <2>. QED
    BY <1>2, <2>1, <2>2, <2>3, <2>4
       DEF Next, CallDirectly, CallForStep, CallForApproval
<1>. QED
  BY <1>1, <1>3, PTL DEF Spec

-----------------------------------------------------------------------------
(* Who answers a calculation.                                              *)

\* A calculation is planned, or will be, in a turn that may delegate it.
Calculates ==
  /\ ~ IsIntegration(cues)
  /\ settings.multi_agent => settings.max_delegations >= 3
  /\ PlannedTool = "calculator"

\* The turn is on its way to it, or to its refusal, at every node.
ServingInv ==
  /\ settings \in Settings
  /\ pc = "idle" => cues = {}
  /\ pc \notin {"llm", "answered", "failed"} => tool = "none"
  /\ Calculates =>
       /\ pc \in {"integration", "planner", "executor"} =>
            ("calculator" \in AllowedTools[Selected] <=> SomebodyCalculates(cues))
       /\ pc = "executor" => plan = "calculator"
       /\ pc \in {"llm", "answered"} =>
            /\ tool = IF SomebodyCalculates(cues) THEN "calculator" ELSE "none"
            /\ outcome \in {"success", "error", "refused"}
       /\ pc = "answered" => prompt \in {"tool", "connector"}

\* The names of the agents, and what a list of one of them or of none is.
Names == DOMAIN AllowedTools

LEMMA OneName ==
  ASSUME NEW name
  PROVE  Len(<<name>>) = 1 /\ <<name>>[1] = name /\ <<name>> # <<>>
OBVIOUS

LEMMA OneNameIn ==
  ASSUME NEW S, NEW name \in S
  PROVE  <<name>> \in Seq(S)
OBVIOUS

LEMMA NoNameIn ==
  ASSUME NEW S
  PROVE  <<>> \in Seq(S) /\ Len(<<>>) = 0
OBVIOUS

LEMMA IsName ==
  /\ {"planner", "knowledge", "data", "general"} \subseteq Names
  /\ \A name \in {"data", "general"} : "calculator" \in AllowedTools[name]
  /\ \A name \in {"planner", "knowledge"} : "calculator" \notin AllowedTools[name]
BY DEF Names, AllowedTools

\* What one list behind another is.
LEMMA Joined ==
  ASSUME NEW S, NEW s \in Seq(S), NEW t \in Seq(S), Len(t) = 1
  PROVE  /\ s \o t \in Seq(S)
         /\ Len(s \o t) = Len(s) + 1
         /\ (s \o t)[Len(s) + 1] = t[1]
<1>1. Len(s) \in Nat /\ Len(s) + 1 \in 1..(Len(s) + 1) /\ ~ (Len(s) + 1 <= Len(s))
      /\ Len(s) + 1 - Len(s) = 1
  OBVIOUS
<1>. QED
  BY <1>1, ConcatProperties

\* The planner, and behind it whoever knows the documents.
LEMMA PlannerFirst ==
  ASSUME NEW words
  PROVE  LET first == <<"planner">> \o If(IsKnowledge(words), "knowledge")
         IN  /\ first \in Seq(Names) /\ Len(first) \in 1..2
             /\ first[Len(first)] \in {"planner", "knowledge"}
<1>. DEFINE known == If(IsKnowledge(words), "knowledge")
            planner == <<"planner">>
<1>1. known = <<>> \/ known = <<"knowledge">>
  BY DEF If
<1>2. planner \in Seq(Names) /\ Len(planner) = 1 /\ planner[1] = "planner"
  BY OneName, OneNameIn, IsName
<1>3. /\ <<"knowledge">> \in Seq(Names) /\ Len(<<"knowledge">>) = 1
      /\ <<"knowledge">>[1] = "knowledge"
  BY OneName, OneNameIn, IsName
<1>. HIDE DEF planner, known
<1>4. CASE known = <<>>
  <2>1. planner \o known = planner
    BY <1>2, <1>4, ConcatEmptySeq
  <2>2. Len(planner) \in 1..2 /\ planner[Len(planner)] = "planner"
    BY <1>2
  <2>. QED
    BY <1>2, <2>1, <2>2 DEF planner, known
<1>5. CASE known = <<"knowledge">>
  <2>1. known \in Seq(Names) /\ Len(known) = 1 /\ known[1] = "knowledge"
    BY <1>3, <1>5
  <2>2. /\ planner \o known \in Seq(Names)
        /\ Len(planner \o known) = 2
        /\ (planner \o known)[2] = "knowledge"
    BY <1>2, <2>1, Joined
  <2>. QED
    BY <2>2 DEF planner, known
<1>. QED
  BY <1>1, <1>4, <1>5

\* The last of the agents that are chosen may calculate just if the supervisor sees
\* a calculation, or nothing in particular.
LEMMA ChosenForCalculation ==
  ASSUME NEW words, ~ IsIntegration(words)
  PROVE  LET chosen == SelectAgents(words)
         IN  /\ chosen \in Seq(Names) /\ Len(chosen) \in 1..3
             /\ \/ /\ IsData(words)
                   /\ chosen[Len(chosen)] = "data"
                \/ /\ ~ IsData(words) /\ ~ IsKnowledge(words) /\ "compare" \notin words
                   /\ chosen[Len(chosen)] = "general"
                \/ /\ ~ IsData(words) /\ (IsKnowledge(words) \/ "compare" \in words)
                   /\ chosen[Len(chosen)] \in {"planner", "knowledge"}
<1>. DEFINE chosen == SelectAgents(words)
            first == <<"planner">> \o If(IsKnowledge(words), "knowledge")
            one == <<"data">>
            nobody == <<"general">>
            knower == <<"knowledge">>
<1>1. /\ first \in Seq(Names) /\ Len(first) \in 1..2
      /\ first[Len(first)] \in {"planner", "knowledge"}
  BY PlannerFirst
<1>2. one \in Seq(Names) /\ Len(one) = 1 /\ one[1] = "data"
  BY OneName, OneNameIn, IsName
<1>3. nobody \in Seq(Names) /\ Len(nobody) = 1 /\ nobody[1] = "general"
  BY OneName, OneNameIn, IsName
<1>4. knower \in Seq(Names) /\ Len(knower) = 1 /\ knower[1] = "knowledge"
  BY OneName, OneNameIn, IsName
<1>5. Specialists(words) = first \o (IF IsData(words) THEN one ELSE <<>>)
  BY DEF Specialists, If
<1>. SUFFICES /\ chosen \in Seq(Names) /\ Len(chosen) \in 1..3
              /\ \/ /\ IsData(words)
                    /\ chosen[Len(chosen)] = "data"
                 \/ /\ ~ IsData(words) /\ ~ IsKnowledge(words) /\ "compare" \notin words
                    /\ chosen[Len(chosen)] = "general"
                 \/ /\ ~ IsData(words) /\ (IsKnowledge(words) \/ "compare" \in words)
                    /\ chosen[Len(chosen)] \in {"planner", "knowledge"}
  OBVIOUS
<1>. HIDE DEF first, chosen
<1>6. CASE IsData(words)
  <2>. HIDE DEF one
  <2>1. first \o one \in Seq(Names) /\ Len(first \o one) = Len(first) + 1
        /\ (first \o one)[Len(first) + 1] = "data"
    BY <1>1, <1>2, Joined
  <2>2. chosen = first \o one \/ chosen = one
    <3>1. Specialists(words) = first \o one
      BY <1>5, <1>6
    <3>. QED
      BY <1>6, <3>1 DEF chosen, SelectAgents, one
  <2>3. CASE chosen = first \o one
    BY <1>1, <1>6, <2>1, <2>3
  <2>4. CASE chosen = one
    <3>1. one \in Seq(Names) /\ Len(one) \in 1..3 /\ one[Len(one)] = "data"
      BY <1>2
    <3>. QED
      BY <1>6, <2>4, <3>1
  <2>. QED
    BY <2>2, <2>3, <2>4
<1>7. CASE ~ IsData(words) /\ "compare" \in words
  <2>1. first \o <<>> = first
    BY <1>1, ConcatEmptySeq
  <2>2. chosen = first
    BY <1>5, <1>7, <2>1 DEF chosen, SelectAgents
  <2>. QED
    BY <1>1, <1>7, <2>2
<1>8. CASE ~ IsData(words) /\ "compare" \notin words /\ IsKnowledge(words)
  <2>. HIDE DEF knower
  <2>1. chosen = knower
    BY <1>8 DEF chosen, SelectAgents, knower
  <2>2. /\ knower \in Seq(Names) /\ Len(knower) \in 1..3
        /\ knower[Len(knower)] \in {"planner", "knowledge"}
    BY <1>4
  <2>. QED
    BY <1>8, <2>1, <2>2
<1>9. CASE ~ IsData(words) /\ "compare" \notin words /\ ~ IsKnowledge(words)
  <2>. HIDE DEF nobody
  <2>1. chosen = nobody
    BY <1>9 DEF chosen, SelectAgents, nobody
  <2>2. nobody \in Seq(Names) /\ Len(nobody) \in 1..3 /\ nobody[Len(nobody)] = "general"
    BY <1>3
  <2>. QED
    BY <1>9, <2>1, <2>2
<1>. QED
  BY <1>6, <1>7, <1>8, <1>9

\* Who the turn runs as may calculate just if the supervisor found somebody.
LEMMA DelegatedMayCalculate ==
  ASSUME settings \in Settings, NEW words, ~ IsIntegration(words),
         settings.multi_agent => settings.max_delegations >= 3,
         agents' = Delegated(words)
  PROVE  "calculator" \in AllowedTools[Selected'] <=> SomebodyCalculates(words)
<1>1. settings.multi_agent \in BOOLEAN /\ settings.max_delegations \in Nat
  BY TurnAssumption
<1>2. CASE settings.multi_agent
  <2>. DEFINE chosen == SelectAgents(words)
  <2>1. /\ chosen \in Seq(Names) /\ Len(chosen) \in 1..3
        /\ \/ /\ IsData(words)
              /\ chosen[Len(chosen)] = "data"
           \/ /\ ~ IsData(words) /\ ~ IsKnowledge(words) /\ "compare" \notin words
              /\ chosen[Len(chosen)] = "general"
           \/ /\ ~ IsData(words) /\ (IsKnowledge(words) \/ "compare" \in words)
              /\ chosen[Len(chosen)] \in {"planner", "knowledge"}
    BY ChosenForCalculation
  <2>2. Delegated(words) = SubSeq(chosen, 1, AtMost(Len(chosen), settings.max_delegations))
    BY <1>2 DEF Delegated
  <2>. HIDE DEF chosen
  <2>3. AtMost(Len(chosen), settings.max_delegations) = Len(chosen)
    BY <1>1, <1>2, <2>1 DEF AtMost
  <2>4. SubSeq(chosen, 1, Len(chosen)) = chosen
    BY <2>1
  <2>5. agents' = chosen
    BY <2>2, <2>3, <2>4
  <2>6. agents' # <<>>
    BY <2>1, <2>5
  <2>7. Selected' = chosen[Len(chosen)]
    BY <2>5, <2>6 DEF Selected, Last
  <2>8. SomebodyCalculates(words) <=>
          (IsData(words) \/ ~ (IsKnowledge(words) \/ "compare" \in words))
    BY <1>2 DEF SomebodyCalculates
  <2>. QED
    BY <2>1, <2>7, <2>8, IsName
<1>3. CASE ~ settings.multi_agent
  <2>. DEFINE general == <<"general">>
              n == AtMost(1, settings.max_delegations)
  <2>1. general \in Seq(Names) /\ Len(general) = 1 /\ general[1] = "general"
    BY OneName, OneNameIn, IsName
  <2>. HIDE DEF general
  <2>2. Delegated(words) = SubSeq(general, 1, n)
    BY <1>3, <2>1 DEF Delegated, general
  <2>3. n \in {0, 1}
    BY <1>1 DEF AtMost
  <2>. HIDE DEF n
  <2>4. agents' = <<>> \/ (agents' # <<>> /\ Len(agents') = 1 /\ agents'[1] = "general")
    <3>1. CASE n = 0
      BY <2>1, <2>2, <3>1
    <3>2. CASE n = 1
      BY <2>1, <2>2, <3>2
    <3>. QED
      BY <2>3, <3>1, <3>2
  <2>5. Selected' = "general"
    BY <2>4 DEF Selected, Last
  <2>. QED
    BY <1>3, <2>5, IsName DEF SomebodyCalculates
<1>. QED
  BY <1>1, <1>2, <1>3

LEMMA ServingStart == Init => ServingInv
<1>. SUFFICES ASSUME Init
              PROVE  ServingInv
  OBVIOUS
<1>1. settings \in Settings /\ cues = {} /\ pc = "idle" /\ tool = "none"
  BY DEF Init
<1>2. ~ Calculates
  BY <1>1 DEF Calculates, PlannedTool
<1>. QED
  BY <1>1, <1>2 DEF ServingInv

\* What the message asks for does not change once the documents are searched.
LEMMA ServingMoves ==
  ASSUME UNCHANGED <<settings, cues, context>>
  PROVE  /\ Calculates' <=> Calculates
         /\ SomebodyCalculates(cues)' <=> SomebodyCalculates(cues)
         /\ AllowedTools' = AllowedTools
BY DEF Calculates, PlannedTool, IsIntegration, SomebodyCalculates, IsData, IsKnowledge,
       AllowedTools

LEMMA ServingSupervise ==
  ASSUME ServingInv, Supervise
  PROVE  ServingInv'
<1>1. /\ UNCHANGED <<settings, cues, context, tool>>
      /\ pc = "supervisor" /\ pc' = "integration"
      /\ agents' = Delegated(cues)
  BY DEF Supervise, tools
<1>2. settings' \in Settings /\ settings \in Settings /\ tool' = "none"
  BY <1>1 DEF ServingInv
<1>3. ASSUME Calculates
      PROVE  "calculator" \in AllowedTools[Selected'] <=> SomebodyCalculates(cues)
  <2>1. ~ IsIntegration(cues) /\ (settings.multi_agent => settings.max_delegations >= 3)
    BY <1>3 DEF Calculates
  <2>. QED
    BY <1>1, <1>2, <2>1, DelegatedMayCalculate
<1>. QED
  BY <1>1, <1>2, <1>3, ServingMoves DEF ServingInv

LEMMA ServingPlan ==
  ASSUME ServingInv, Plan
  PROVE  ServingInv'
<1>1. /\ UNCHANGED <<settings, cues, context, agents, tool, outcome, prompt>>
      /\ pc = "planner" /\ pc' = "executor" /\ plan' = PlannedTool
  BY DEF Plan, memory, connector
<1>2. Selected' = Selected
  BY <1>1 DEF Selected, Last
<1>3. Calculates => plan' = "calculator"
  BY <1>1 DEF Calculates
<1>. QED
  BY <1>1, <1>2, <1>3, ServingMoves DEF ServingInv

LEMMA ServingExecute ==
  ASSUME ServingInv, Execute
  PROVE  ServingInv'
<1>1. /\ UNCHANGED <<settings, cues, context, agents, plan, prompt>>
      /\ pc = "executor" /\ pc' = "llm"
  BY DEF Execute
<1>2. ASSUME Calculates
      PROVE  /\ tool' = IF SomebodyCalculates(cues) THEN "calculator" ELSE "none"
             /\ outcome' \in {"success", "error", "refused"}
  <2>1. /\ plan = "calculator" /\ tool = "none"
        /\ plan \in AllowedTools[Selected] <=> SomebodyCalculates(cues)
    BY <1>1, <1>2 DEF ServingInv
  <2>2. CASE SomebodyCalculates(cues)
    BY <2>1, <2>2 DEF Execute, Run
  <2>3. CASE ~ SomebodyCalculates(cues)
    BY <2>1, <2>3 DEF Execute
  <2>. QED
    BY <2>2, <2>3
<1>3. settings' \in Settings
  BY <1>1 DEF ServingInv
<1>. QED
  BY <1>1, <1>2, <1>3, ServingMoves DEF ServingInv

LEMMA ServingAnswer ==
  ASSUME ServingInv, Answer
  PROVE  ServingInv'
<1>1. /\ UNCHANGED <<settings, cues, context, agents, plan, tool, outcome>>
      /\ pc = "llm" /\ pc' = "answered" /\ prompt' = Prompt
  BY DEF Answer, tools
<1>2. settings' \in Settings
  BY <1>1 DEF ServingInv
<1>3. ASSUME Calculates
      PROVE  /\ tool = IF SomebodyCalculates(cues) THEN "calculator" ELSE "none"
             /\ outcome \in {"success", "error", "refused"}
             /\ prompt' \in {"tool", "connector"}
  <2>1. /\ tool = IF SomebodyCalculates(cues) THEN "calculator" ELSE "none"
        /\ outcome \in {"success", "error", "refused"}
    BY <1>1, <1>3 DEF ServingInv
  <2>2. Prompt \in {"tool", "connector"}
    BY <2>1 DEF Prompt
  <2>. QED
    BY <1>1, <2>1, <2>2
<1>. QED
  BY <1>1, <1>2, <1>3, ServingMoves DEF ServingInv

LEMMA ServingStep == ServingInv /\ [Next]_vars => ServingInv'
<1>. SUFFICES ASSUME ServingInv, [Next]_vars
              PROVE  ServingInv'
  OBVIOUS
<1>1. CASE UNCHANGED vars
  <2>1. /\ UNCHANGED <<settings, cues, context, agents, plan, tool, outcome, prompt, pc>>
    BY <1>1 DEF vars, tools
  <2>2. Selected' = Selected
    BY <2>1 DEF Selected, Last
  <2>. QED
    BY <2>1, <2>2, ServingMoves DEF ServingInv
<1>2. CASE Receive
  <2>1. settings' = settings /\ tool' = tool /\ pc = "idle" /\ pc' = "retrieve"
    BY <1>2 DEF Receive, tools
  <2>. QED
    BY <2>1 DEF ServingInv
<1>3. CASE Retrieve
  <2>1. UNCHANGED <<settings, tool>> /\ pc = "retrieve" /\ pc' = "supervisor"
    BY <1>3 DEF Retrieve, tools
  <2>. QED
    BY <2>1 DEF ServingInv
<1>4. CASE Supervise
  BY <1>4, ServingSupervise
<1>5. CASE Integrate
  <2>1. /\ UNCHANGED <<settings, cues, context, agents, tool>>
        /\ pc = "integration" /\ pc' = "planner"
    BY <1>5 DEF Integrate, tools
  <2>2. Selected' = Selected
    BY <2>1 DEF Selected, Last
  <2>. QED
    BY <2>1, <2>2, ServingMoves DEF ServingInv
<1>6. CASE IntegrationRaises \/ Fail
  <2>1. settings' = settings /\ pc' = "failed"
    BY <1>6 DEF IntegrationRaises, Fail
  <2>. QED
    BY <2>1 DEF ServingInv
<1>7. CASE Plan
  BY <1>7, ServingPlan
<1>8. CASE Execute
  BY <1>8, ServingExecute
<1>9. CASE Answer
  BY <1>9, ServingAnswer
<1>10. CASE Return
  <2>1. settings' = settings /\ cues' = {} /\ pc' = "idle" /\ tool' = "none"
    BY <1>10 DEF Return
  <2>2. ~ Calculates'
    BY <2>1 DEF Calculates, PlannedTool
  <2>. QED
    BY <2>1, <2>2 DEF ServingInv
<1>11. ASSUME NEW who, Call(who)
       PROVE  ServingInv'
  <2>1. settings' = settings /\ cues' = {} /\ pc' = "answered"
    BY <1>11 DEF Call, ServingInv
  <2>2. ~ Calculates'
    BY <2>1 DEF Calculates, PlannedTool
  <2>. QED
    BY <2>1, <2>2 DEF ServingInv
<1>. QED
  BY <1>1, <1>2, <1>3, <1>4, <1>5, <1>6, <1>7, <1>8, <1>9, <1>10, <1>11
     DEF Next, CallDirectly, CallForStep, CallForApproval

\* A calculation that is planned for a message that is no integration, with enough
\* delegations for three agents, is done just if the supervisor chooses somebody who
\* may: for every message, whatever else it says.
THEOREM CalculationsAreServed == Spec => []CalculationIsServed
<1>1. ServingInv => CalculationIsServed
  BY DEF ServingInv, CalculationIsServed, Calculates
<1>. QED
  BY <1>1, ServingStart, ServingStep, PTL DEF Spec

-----------------------------------------------------------------------------
(* Reads, and what needs an approval.                                      *)

\* As GatesAgree, with the places where no connector was called yet.
Early == {"idle", "retrieve", "supervisor", "integration"}

GatesInv ==
  /\ GatesAgree
  /\ pc \in Early => called = FALSE /\ caller = "none"

\* No operation of a connector is both a read and something else.
LEMMA ReadsAreReads ==
  ASSUME NEW q, q.connector \in DOMAIN Registry, IsRead(q)
  PROVE  ~ RequiresApproval(q)
BY DEF IsRead, RequiresApproval, Registry, LocalEmailConnector, LocalCalendarConnector,
       WorkspaceConnector, GitHubMockConnector, MockMCPConnector

\* What ConnectorExecutor executes without an approval is a read.
LEMMA UnapprovedIsRead ==
  ASSUME NEW q, IsCalled(q, FALSE)
  PROVE  IsRead(q)
<1>1. /\ q.operation \in Capabilities(q.connector)
      /\ ~ RequiresApproval(q)
  BY DEF IsCalled, Refusal, Result
<1>. QED
  BY <1>1 DEF Capabilities, RequiresApproval, IsRead

\* And what is not a read is what it asks an approval for.
LEMMA OnlyApprovalsRefused ==
  ASSUME NEW q, NEW approved \in BOOLEAN, ~ RequiresApproval(q),
         NEW answer \in Results(q, approved)
  PROVE  answer.status # "approval_required"
BY DEF Results, IsCalled, Refusal, Result

LEMMA GatesCall ==
  ASSUME GatesInv, NEW who, Call(who),
         who = "run" => request'.connector \in DOMAIN Registry /\ IsRead(request')
  PROVE  GatesInv'
<1>1. /\ pc' = "answered" /\ caller' = who
      /\ called' = IsCalled(request', who = "approved")
      /\ result' \in Results(request', who = "approved")
  BY DEF Call
<1>2. called' /\ who # "approved" => IsRead(request')
  BY <1>1, UnapprovedIsRead
<1>3. ASSUME who = "run"
      PROVE  result'.status # "approval_required"
  <2>1. ~ RequiresApproval(request')
    BY <1>3, ReadsAreReads
  <2>2. result' \in Results(request', FALSE)
    BY <1>1, <1>3
  <2>. QED
    BY <2>1, <2>2, OnlyApprovalsRefused
<1>4. IsRead(request)' = IsRead(request')
  BY DEF IsRead, Registry, LocalEmailConnector, LocalCalendarConnector,
       WorkspaceConnector, GitHubMockConnector, MockMCPConnector
<1>. QED
  BY <1>1, <1>2, <1>3, <1>4 DEF GatesInv, GatesAgree, Early

LEMMA GatesStep == GatesInv /\ [Next]_vars => GatesInv'
<1>. SUFFICES ASSUME GatesInv, [Next]_vars
              PROVE  GatesInv'
  OBVIOUS
<1>1. CASE UNCHANGED connector /\ (pc' \in Early => pc \in Early)
  BY <1>1 DEF GatesInv, GatesAgree, connector, IsRead, Early
<1>2. CASE Integrate
  <2>1. pc = "integration" /\ pc' = "planner"
    BY <1>2 DEF Integrate
  <2>2. CASE request' = NoRequest
    <3>1. called' = FALSE /\ caller' = "none"
      BY <1>2, <2>1, <2>2 DEF Integrate, GatesInv, Early
    <3>. QED
      BY <2>1, <3>1 DEF GatesInv, GatesAgree, Early
  <2>3. CASE request' # NoRequest
    <3>1. caller' = "chat" /\ called' = IsCalled(request', FALSE)
      BY <1>2, <2>3 DEF Integrate
    <3>2. called' => IsRead(request')
      BY <3>1, UnapprovedIsRead
    <3>. QED
      BY <2>1, <3>1, <3>2 DEF GatesInv, GatesAgree, IsRead, Early
  <2>. QED
    BY <2>2, <2>3
<1>3. CASE Return
  <2>1. called' = FALSE /\ caller' = "none"
    BY <1>3 DEF Return
  <2>. QED
    BY <2>1 DEF GatesInv, GatesAgree
<1>4. CASE UNCHANGED vars
  BY <1>1, <1>4 DEF vars
<1>5. CASE Receive
  BY <1>1, <1>5 DEF Receive, Early
<1>6. CASE Retrieve
  BY <1>1, <1>6 DEF Retrieve, Early
<1>7. CASE Supervise
  BY <1>1, <1>7 DEF Supervise, Early
<1>8. CASE IntegrationRaises \/ Fail
  BY <1>1, <1>8 DEF IntegrationRaises, Fail, Early
<1>9. CASE Plan \/ Execute \/ Answer
  BY <1>1, <1>9 DEF Plan, Execute, Answer, Early
<1>10. CASE CallDirectly
  BY <1>10, GatesCall DEF CallDirectly
<1>11. CASE CallForStep
  <2>1. PICK q \in AnyRequest : request' = q /\ IsRead(q)
    BY <1>11 DEF CallForStep
  <2>2. request'.connector \in DOMAIN Registry /\ IsRead(request')
    BY <2>1 DEF AnyRequest
  <2>. QED
    BY <1>11, <2>2, GatesCall DEF CallForStep
<1>12. CASE CallForApproval
  <2>1. PICK who \in {"approved", "unapproved"} : Call(who)
    BY <1>12 DEF CallForApproval
  <2>. QED
    BY <2>1, GatesCall
<1>. QED
  BY <1>2, <1>3, <1>4, <1>5, <1>6, <1>7, <1>8, <1>9, <1>10, <1>11, <1>12 DEF Next

\* Nothing but a read is executed for a message, for the integrations API or for
\* a step that was not approved, and no step that run executes without a gate is
\* refused for want of an approval: for every message and every request.
THEOREM GatesStayAgreed == Spec => []GatesAgree
<1>1. Init => GatesInv
  BY DEF Init, GatesInv, GatesAgree, Result
<1>2. GatesInv => GatesAgree
  BY DEF GatesInv
<1>. QED
  BY <1>1, <1>2, GatesStep, PTL DEF Spec
=============================================================================
