------------------------ MODULE MCConversationMemory ------------------------
(***************************************************************************)
(* Instances of ConversationMemory for TLC: two users, and pages so short  *)
(* that the second chat overflows them.                                    *)
(***************************************************************************)
EXTENDS ConversationMemory, TLC

\* The slots for requests are interchangeable, and so are the users.
Slots == Permutations(Requests) \cup Permutations(Users)
=============================================================================
