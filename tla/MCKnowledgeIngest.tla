------------------------- MODULE MCKnowledgeIngest -------------------------
(***************************************************************************)
(* An instance of KnowledgeIngest for TLC: two documents of one user, two  *)
(* deletions, one search, chunks of four characters that overlap by one.   *)
(***************************************************************************)
EXTENDS KnowledgeIngest

CONSTANTS d1, d2, x1, x2, u1, u2, s1

X == TRUE
o == FALSE

\* A text that is cut into four chunks, the last of them short, with a blank
\* at an edge.
Long == <<<<o, X, X, X, o, X, X, X, X, X, X, o>>>>

\* A document of two pages, the second with a window that is blank.
Paged == <<<<X, X>>, <<X, o, o, o, o, o, o, o, X>>>>

MCTextOf == [d \in Documents |-> IF d = d1 THEN Long ELSE Paged]
MCOwnerOf == [d \in Documents |-> u1]
=============================================================================
