-------------------------- MODULE MCWorkflowEngine --------------------------
(***************************************************************************)
(* Instances of WorkflowEngine for TLC: workflows of two, three and five   *)
(* steps.  The client declared the write of step 2 as a read, which the    *)
(* API accepts.                                                            *)
(***************************************************************************)
EXTENDS WorkflowEngine, TLC

None == {}

\* A search and a write.
Types2    == <<"knowledge", "connector">>
Declared2 == <<"undeclared", "read">>
Retries2  == <<1, 0>>

\* A tool, a write and a search.
Types3    == <<"tool", "connector", "knowledge">>
Declared3 == <<"undeclared", "read", "undeclared">>
Retries3  == <<1, 0, 0>>

\* Two writes, of which the second is not retried for what was declared, and a
\* search, with one tool right before it and one before the first write.
Types5    == <<"tool", "connector", "tool", "knowledge", "connector">>
Declared5 == <<"undeclared", "read", "undeclared", "undeclared", "destructive">>
Retries5  == <<2, 0, 0, 1, 0>>

Second         == {2}
Fifth          == {5}
SecondAndFifth == {2, 5}

\* The slots for requests are interchangeable.
Slots == Permutations(Requests)
=============================================================================
