----------------------------- MODULE TextChunks -----------------------------
(***************************************************************************)
(* TextChunker: the chunks a text is stored in.  A page is a sequence of   *)
(* Booleans, TRUE where a character is not white space; a chunk is the     *)
(* page and the first and last position it keeps.                          *)
(***************************************************************************)
EXTENDS Integers, Sequences, FiniteSetsExt

CONSTANTS
  ChunkSize,
  Overlap

\* TextChunker.__init__ refuses anything else.
ASSUME ChunkAssumption ==
  /\ ChunkSize \in Nat
  /\ Overlap \in Nat
  /\ Overlap < ChunkSize

\* The characters of a stretch that are not white space.
Inked(page, first, last) ==
  {i \in first..last : i \in DOMAIN page /\ page[i]}

\* Mutant of Starts: the windows follow one another without an overlap.
StartsApart(length) ==
  {n * ChunkSize : n \in {k \in 0..length : k * ChunkSize < length}}

\* Where the loop's windows start in a text of this length: it ends with the
\* first window that reaches the end.
Starts(length) ==
  LET step == ChunkSize - Overlap
  IN  {n * step : n \in {k \in 0..length :
         k * step < length /\ (k = 0 \/ (k - 1) * step + ChunkSize < length)}}

\* str.strip
Strip(page, first, last) ==
  LET ink == Inked(page, first, last)
  IN  [from |-> Min(ink), to |-> Max(ink)]

\* A window that is blank makes no chunk.
PageChunks(page) ==
  IF Inked(page, 1, Len(page)) = {} THEN {} ELSE
    LET text    == Strip(page, 1, Len(page))
        Last(b) == Min({b + ChunkSize - 1, text.to})
    IN  {Strip(page, b, Last(b)) :
           b \in {text.from + s : s \in
                    {t \in Starts(text.to - text.from + 1) :
                       Inked(page, text.from + t, Last(text.from + t)) # {}}}}

\* The chunks of all pages, each with its page_number.
TextChunker(pages) ==
  UNION {{<<p, c>> : c \in PageChunks(pages[p])} : p \in DOMAIN pages}

\* The positions of a passage are in one chunk.
Holds(chunks, p, first, last) ==
  \E k \in chunks : k[1] = p /\ k[2].from <= first /\ last <= k[2].to

\* What TextChunker promises: no chunk is longer than ChunkSize, and a passage
\* without white space at its ends that is at most one longer than the overlap
\* is found whole in some chunk.
KeepsPassages(pages, chunks) ==
  /\ \A k \in chunks : k[2].to - k[2].from < ChunkSize
  /\ \A p \in DOMAIN pages : \A first, last \in Inked(pages[p], 1, Len(pages[p])) :
       first <= last /\ last - first <= Overlap => Holds(chunks, p, first, last)
=============================================================================
