----------------------------- MODULE MCAgentTurn -----------------------------
(***************************************************************************)
(* An instance of AgentTurn for TLC: messages of up to three cues, short    *)
(* histories, and three environments.                                      *)
(***************************************************************************)
EXTENDS AgentTurn, FiniteSetsExt

MCMessages ==
  {m \in UNION {kSubset(n, Cues) : n \in 0..3} :
     /\ "send" \in m => "email" \in m
     /\ "percent_of_it" \in m => "arithmetic" \in m}

MCHistories == UNION {[1..n -> 1..2] : n \in 0..3}

MCSizes == {1, 4}

MCSettings ==
  {[multi_agent |-> TRUE, max_delegations |-> 4],
   [multi_agent |-> TRUE, max_delegations |-> 1],
   [multi_agent |-> FALSE, max_delegations |-> 4]}
=============================================================================
