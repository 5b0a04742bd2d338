--------------------------- MODULE KnowledgeProofs ---------------------------
(***************************************************************************)
(* Theorems about the chunker, for every text, chunk size and overlap, and *)
(* about KnowledgeIngest, for any documents, deletions, searches and       *)
(* texts.                                                                  *)
(***************************************************************************)
EXTENDS KnowledgeIngest, WellFoundedInduction, TLAPS

-----------------------------------------------------------------------------
(* What the chunker promises.                                              *)

\* A set of natural numbers has a least member.
LEMMA LeastNatural ==
  ASSUME NEW T, T \subseteq Nat, T # {}
  PROVE  \E x \in T : \A y \in T : x <= y
<1>1. PICK x \in T : \A y \in T : <<y, x>> \notin OpToRel(<, Nat)
  BY NatLessThanWellFounded, WFMin
<1>2. \A y \in T : ~ (y < x)
  BY <1>1 DEF OpToRel
<1> QED
  BY <1>2

\* A set of naturals has a least element,
LEMMA MinOfNaturals ==
  ASSUME NEW T, T \subseteq Nat, T # {}
  PROVE  Min(T) \in T /\ \A y \in T : Min(T) <= y
BY LeastNatural DEF Min

\* and a greatest one if it is bounded.
LEMMA MaxOfNaturals ==
  ASSUME NEW n \in Nat, NEW T, T \subseteq 0..n, T # {}
  PROVE  Max(T) \in T /\ \A y \in T : y <= Max(T)
<1> DEFINE Below == {n - t : t \in T}
<1>1. \A t \in T : n - t \in Nat /\ n - t \in Below
  OBVIOUS
<1>2. Below \subseteq Nat /\ Below # {}
  BY <1>1
<1>3. PICK b \in Below : \A y \in Below : b <= y
  BY <1>2, LeastNatural
<1>4. PICK x \in T : b = n - x
  BY <1>3
<1>5. ASSUME NEW y \in T PROVE y <= x
  <2>1. n - x <= n - y
    BY <1>1, <1>3, <1>4
  <2> QED
    BY <2>1
<1> QED
  BY <1>5 DEF Max

-----------------------------------------------------------------------------
\* A stretch of a page that is not blank.
LEMMA StripKeeps ==
  ASSUME NEW page \in Seq(BOOLEAN), NEW first \in Int, NEW last \in Int,
         Inked(page, first, last) # {}
  PROVE  /\ Strip(page, first, last).from \in Inked(page, first, last)
         /\ Strip(page, first, last).to \in Inked(page, first, last)
         /\ \A x \in Inked(page, first, last) :
              /\ Strip(page, first, last).from <= x
              /\ x <= Strip(page, first, last).to
<1> DEFINE ink == Inked(page, first, last)
<1>1. Len(page) \in Nat /\ ink \subseteq 0..Len(page) /\ ink \subseteq Nat
  BY DEF Inked
<1>2. Min(ink) \in ink /\ \A y \in ink : Min(ink) <= y
  BY <1>1, MinOfNaturals
<1>3. Max(ink) \in ink /\ \A y \in ink : y <= Max(ink)
  BY <1>1, MaxOfNaturals
<1> QED
  BY <1>2, <1>3 DEF Strip
-----------------------------------------------------------------------------
(* One page.                                                               *)

\* The page's text without the blanks around it, and where a window ends.
Text(page) == Strip(page, 1, Len(page))
Last(page, b) == Min({b + ChunkSize - 1, Text(page).to})

\* The window that starts s characters into the text is not blank.
Inks(page, s) ==
  Inked(page, Text(page).from + s, Last(page, Text(page).from + s)) # {}

\* The chunks of a page that is not blank, window by window.
LEMMA ChunksOfPage ==
  ASSUME NEW page \in Seq(BOOLEAN), Inked(page, 1, Len(page)) # {}
  PROVE  PageChunks(page) =
           {Strip(page, b, Last(page, b)) :
              b \in {Text(page).from + s : s \in
                       {t \in Starts(Text(page).to - Text(page).from + 1) :
                          Inks(page, t)}}}
BY DEF PageChunks, Text, Last, Inks

\* The text of a page that is not blank.
LEMMA TextOfPage ==
  ASSUME NEW page \in Seq(BOOLEAN), Inked(page, 1, Len(page)) # {}
  PROVE  /\ Text(page).from \in Nat /\ Text(page).to \in Nat
         /\ Text(page).from >= 1 /\ Text(page).from <= Text(page).to
         /\ Text(page).to \in Inked(page, 1, Len(page))
         /\ \A x \in Inked(page, 1, Len(page)) :
              x \in Nat /\ Text(page).from <= x /\ x <= Text(page).to
<1>1. Len(page) \in Nat /\ Inked(page, 1, Len(page)) \subseteq 1..Len(page)
  BY DEF Inked
<1>2. /\ Text(page).from \in Inked(page, 1, Len(page))
      /\ Text(page).to \in Inked(page, 1, Len(page))
      /\ \A x \in Inked(page, 1, Len(page)) :
           Text(page).from <= x /\ x <= Text(page).to
  BY <1>1, StripKeeps DEF Text
<1> QED
  BY <1>1, <1>2

\* A window ends before ChunkSize characters are over, and with the text.
LEMMA WindowEnds ==
  ASSUME NEW page \in Seq(BOOLEAN), Inked(page, 1, Len(page)) # {},
         NEW b \in Nat, b >= 1
  PROVE  /\ Last(page, b) \in Nat
         /\ Last(page, b) <= b + ChunkSize - 1
         /\ Last(page, b) <= Text(page).to
         /\ Last(page, b) \in {b + ChunkSize - 1, Text(page).to}
<1> DEFINE T == {b + ChunkSize - 1, Text(page).to}
<1>1. T \subseteq Nat /\ T # {}
  BY TextOfPage, ChunkAssumption
<1> HIDE DEF T
<1>2. Min(T) \in T /\ \A y \in T : Min(T) <= y
  BY <1>1, MinOfNaturals
<1> QED
  BY <1>1, <1>2 DEF Last, T

-----------------------------------------------------------------------------
(* The windows.                                                            *)

\* Multiples, for a prover that does not multiply.
LEMMA Multiples ==
  ASSUME NEW n \in Nat, NEW step \in Nat
  PROVE  /\ n * step \in Nat
         /\ (n + 1) * step = n * step + step
         /\ step >= 1 => n <= n * step
OBVIOUS

\* Every position of a text of this length is in a window that starts at or
\* before it and goes on for more than Overlap characters after it, or to the end.
LEMMA WindowFound ==
  ASSUME NEW length \in Nat, NEW p \in Nat, p < length
  PROVE  \E s \in Starts(length) :
           /\ s \in Nat /\ s <= p
           /\ p + Overlap < s + ChunkSize \/ length <= s + ChunkSize
<1> DEFINE step == ChunkSize - Overlap
           After == {n \in Nat : p < (n + 1) * step}
           Reach == {n \in Nat : length <= n * step + ChunkSize}
<1>0. step \in Nat /\ step >= 1 /\ ChunkSize \in Nat /\ Overlap \in Nat
  BY ChunkAssumption
<1> HIDE DEF step
<1>1. p \in After /\ length \in Reach
  <2>1. p <= p * step /\ (p + 1) * step = p * step + step /\ p * step \in Nat
    BY <1>0, Multiples
  <2>2. length <= length * step /\ length * step \in Nat
    BY <1>0, Multiples
  <2> QED
    BY <1>0, <2>1, <2>2
<1>2. PICK n \in After : \A m \in After : n <= m
  BY <1>1, LeastNatural
<1>3. PICK e \in Reach : \A m \in Reach : e <= m
  BY <1>1, LeastNatural
<1>4. n * step <= p
  <2>1. CASE n = 0
    BY <2>1, <1>0
  <2>2. CASE n # 0
    <3>1. n - 1 \in Nat /\ n - 1 \notin After
      BY <1>2, <2>2
    <3>2. ~ (p < ((n - 1) + 1) * step)
      BY <3>1
    <3>3. (n - 1) + 1 = n
      BY <1>2
    <3> QED
      BY <3>2, <3>3, <1>0, Multiples
  <2> QED
    BY <2>1, <2>2
<1>5. ASSUME NEW k \in Nat, k <= e, k * step <= p
      PROVE  k * step \in Starts(length)
  <2>1. k <= length
    BY <1>0, <1>5, Multiples
  <2>2. k * step < length
    BY <1>0, <1>5, Multiples
  <2>3. k = 0 \/ (k - 1) * step + ChunkSize < length
    <3>1. CASE k = 0
      BY <3>1
    <3>2. CASE k # 0
      <4>1. k - 1 \in Nat /\ k - 1 \notin Reach
        BY <1>3, <1>5, <3>2
      <4> QED
        BY <4>1, <1>0, Multiples
    <3> QED
      BY <3>1, <3>2
  <2> QED
    BY <2>1, <2>2, <2>3 DEF Starts, step
<1>6. CASE n <= e
  <2>1. n * step \in Starts(length) /\ n * step \in Nat
    BY <1>0, <1>4, <1>5, <1>6, Multiples
  <2>2. p < n * step + step
    BY <1>0, <1>2, Multiples
  <2> QED
    BY <1>0, <1>4, <2>1, <2>2 DEF step
<1>7. CASE e < n
  <2>1. e \notin After
    BY <1>2, <1>7
  <2>2. e * step <= p /\ e * step \in Nat
    BY <1>0, <1>3, <2>1, Multiples
  <2> QED
    BY <1>0, <1>3, <1>5, <2>2
<1> QED
  BY <1>6, <1>7
-----------------------------------------------------------------------------
(* The promise.                                                            *)

\* No chunk of a page is longer than ChunkSize.
LEMMA ChunksAreShort ==
  ASSUME NEW page \in Seq(BOOLEAN), NEW k \in PageChunks(page)
  PROVE  k.to - k.from < ChunkSize
<1>1. Inked(page, 1, Len(page)) # {}
  BY DEF PageChunks
<1>2. PICK s \in Starts(Text(page).to - Text(page).from + 1) :
        Inks(page, s) /\ k = Strip(page, Text(page).from + s, Last(page, Text(page).from + s))
  BY <1>1, ChunksOfPage
<1> DEFINE b == Text(page).from + s
<1>3. s \in Nat
  BY ChunkAssumption, Multiples DEF Starts
<1>4. b \in Nat /\ b >= 1
  BY <1>1, <1>3, TextOfPage
<1>5. Last(page, b) \in Nat /\ Last(page, b) <= b + ChunkSize - 1
  BY <1>1, <1>4, WindowEnds
<1>6. k.from \in Inked(page, b, Last(page, b)) /\ k.to \in Inked(page, b, Last(page, b))
  BY <1>2, <1>4, <1>5, StripKeeps DEF Inks
<1>7. k.from \in b..Last(page, b) /\ k.to \in b..Last(page, b)
  BY <1>6 DEF Inked
<1> QED
  BY <1>4, <1>5, <1>7, ChunkAssumption

\* A passage of a page is in one of its chunks.
LEMMA PassageFound ==
  ASSUME NEW page \in Seq(BOOLEAN),
         NEW first \in Inked(page, 1, Len(page)),
         NEW last \in Inked(page, 1, Len(page)),
         first <= last, last - first <= Overlap
  PROVE  \E k \in PageChunks(page) : k.from <= first /\ last <= k.to
<1> DEFINE from == Text(page).from
           to == Text(page).to
           length == to - from + 1
           p == first - from
<1>1. Inked(page, 1, Len(page)) # {}
  OBVIOUS
<1>2. /\ from \in Nat /\ to \in Nat /\ from >= 1
      /\ first \in Nat /\ last \in Nat
      /\ from <= first /\ first <= to /\ last <= to
  BY <1>1, TextOfPage
<1>3. length \in Nat /\ p \in Nat /\ p < length
  <2>. HIDE DEF from, to
  <2>. QED
    BY <1>2
<1>4. PICK s \in Starts(length) :
        /\ s \in Nat /\ s <= p
        /\ p + Overlap < s + ChunkSize \/ length <= s + ChunkSize
  BY <1>3, WindowFound
<1> DEFINE b == from + s
           end == Last(page, b)
<1>5. b \in Nat /\ b >= 1 /\ b <= first
  BY <1>2, <1>4
<1>6. end \in Nat /\ end \in {b + ChunkSize - 1, to}
  BY <1>1, <1>5, WindowEnds
<1>7. last <= end
  <2>1. CASE end = to
    BY <1>2, <2>1
  <2>2. CASE end = b + ChunkSize - 1
    <3>1. CASE length <= s + ChunkSize
      <4>1. to <= b + ChunkSize - 1
        BY <1>2, <1>4, <3>1, ChunkAssumption
      <4>. HIDE DEF from, to, end, b
      <4>. QED
        BY <1>2, <1>5, <2>2, <4>1, ChunkAssumption
    <3>2. CASE p + Overlap < s + ChunkSize
      <4>1. first + Overlap < b + ChunkSize
        BY <1>2, <1>4, <3>2, ChunkAssumption
      <4>. HIDE DEF from, to, end, b
      <4>. QED
        BY <1>2, <1>5, <2>2, <4>1, ChunkAssumption
    <3>. QED
      BY <1>4, <3>1, <3>2
  <2>. QED
    BY <1>6, <2>1, <2>2
<1>8. first \in Inked(page, b, end) /\ last \in Inked(page, b, end)
  BY <1>2, <1>5, <1>6, <1>7 DEF Inked
<1>9. Strip(page, b, end).from <= first /\ last <= Strip(page, b, end).to
  BY <1>5, <1>6, <1>8, StripKeeps
<1>10. Inks(page, s)
  BY <1>8 DEF Inks
<1>11. Strip(page, b, end) \in PageChunks(page)
  BY <1>1, <1>4, <1>10, ChunksOfPage
<1> QED
  BY <1>9, <1>11

\* TextChunker.chunk: whatever the text, no chunk is longer than chunk_size, and
\* every passage up to one character longer than the overlap is whole in a chunk:
\* what is cut at the edge of one window is not cut at the edge of the next.
THEOREM ChunkerKeepsPassages ==
  ASSUME NEW pages \in Seq(Seq(BOOLEAN))
  PROVE  KeepsPassages(pages, TextChunker(pages))
<1>1. \A p \in DOMAIN pages : pages[p] \in Seq(BOOLEAN)
  OBVIOUS
<1>2. ASSUME NEW k \in TextChunker(pages) PROVE k[2].to - k[2].from < ChunkSize
  <2>1. PICK p \in DOMAIN pages : \E c \in PageChunks(pages[p]) : k = <<p, c>>
    BY DEF TextChunker
  <2>2. PICK c \in PageChunks(pages[p]) : k = <<p, c>>
    BY <2>1
  <2> QED
    BY <1>1, <2>2, ChunksAreShort
<1>3. ASSUME NEW p \in DOMAIN pages,
             NEW first \in Inked(pages[p], 1, Len(pages[p])),
             NEW last \in Inked(pages[p], 1, Len(pages[p])),
             first <= last, last - first <= Overlap
      PROVE  Holds(TextChunker(pages), p, first, last)
  <2>1. PICK c \in PageChunks(pages[p]) : c.from <= first /\ last <= c.to
    BY <1>1, <1>3, PassageFound
  <2>2. <<p, c>> \in TextChunker(pages)
    BY DEF TextChunker
  <2> QED
    BY <2>1, <2>2 DEF Holds
<1> QED
  BY <1>2, <1>3 DEF KeepsPassages

-----------------------------------------------------------------------------
(* The knowledge base.                                                     *)

\* Where an upload stands says what its row and its chunks are.
RowOf(d) ==
  /\ up[d] = "none" <=> status[d] = "absent"
  /\ up[d] = "mark" => status[d] \in {"pending", "gone"}
  /\ up[d] \in {"embed", "chunks", "fail_get", "fail_set"}
       => status[d] \in {"processing", "gone"}
  /\ up[d] = "ready" => status[d] = "processing"
  /\ status[d] \in {"ready", "failed"} => up[d] = "ended"
  /\ chunks[d] = IF status[d] = "ready" THEN ChunksOf[d] ELSE {}

\* ... and whether its file has been written.
FileOf(d) ==
  /\ d \in file => up[d] \in {"chunks", "ready", "ended"}
  /\ up[d] \in {"chunks", "ready"} /\ status[d] # "gone" => d \in file
  /\ status[d] = "ready" => d \in file

\* A deletion has found its document, and unlinks no file whose row is there.
TargetOf(x) ==
  /\ down[x] # "idle" => target[x] \in Documents /\ status[target[x]] # "absent"
  /\ down[x] = "unlink" => status[target[x]] = "gone"

\* What a search has loaded is what was there at one moment.
HitsOf(s) ==
  /\ look[s] # "embed" => hits[s] = {}
  /\ \A d \in missing[s] : status[d] = "gone"
  /\ \A h \in hits[s] :
       /\ \A c \in ChunksOf[h[1]] : <<h[1], c>> \in hits[s]
       /\ h[1] \in scope[s] \ missing[s]

IngestInv ==
  /\ TypeOK
  /\ \A d \in Documents : RowOf(d) /\ FileOf(d)
  /\ \A x \in Deletions : TargetOf(x)
  /\ \A s \in Searches : HitsOf(s)
  /\ NoFileForgotten

-----------------------------------------------------------------------------
\* The invariant holds before the first upload.
LEMMA IngestInit == Init => IngestInv
BY DEF Init, IngestInv, TypeOK, RowOf, FileOf, TargetOf, HitsOf, NoFileForgotten,
       DocumentStatus

\* What an upload's step may do to its own document; it touches no other.
UploadMoves(d) ==
  /\ \E v \in DocumentStatus : status' = [status EXCEPT ![d] = v] \/ status' = status
  /\ \E c \in {{}, ChunksOf[d]} : chunks' = [chunks EXCEPT ![d] = c] \/ chunks' = chunks
  /\ \E l \in {"mark", "embed", "chunks", "ready", "fail_get", "fail_set", "ended"} :
       up' = [up EXCEPT ![d] = l]
  /\ file' \subseteq Documents /\ file' \ {d} = file \ {d}
  /\ hurt' \in {hurt, hurt \cup {d}}
  /\ UNCHANGED <<deletions, searches>>

\* A statement of an upload concerns its own document only, and leaves row and
\* file consistent.
LEMMA UploadStep ==
  ASSUME IngestInv, NEW d \in Documents,
         Upload(d) \/ HandleUpload(d) \/ LoseUpload(d)
  PROVE  /\ UploadMoves(d)
         /\ RowOf(d)' /\ FileOf(d)'
         /\ status[d] = "gone" => status'[d] = "gone"
         /\ status[d] \in {"ready", "failed"} => status'[d] = status[d]
         /\ d \in file' \ hurt' => status'[d] = "ready" \/ up'[d] \in {"chunks", "ready"}
<1> USE DEF IngestInv, TypeOK, RowOf, FileOf, UploadMoves, SetStatus, Goto, EndUpload,
            DocumentStatus, Exists, Refused, rows, deletions, searches
<1>1. CASE Upload(d)
  BY <1>1 DEF Upload
<1>2. CASE Mark(d)
  BY <1>2 DEF Mark
<1>3. CASE Embed(d)
  BY <1>3 DEF Embed
<1>4. CASE AddChunks(d)
  BY <1>4 DEF AddChunks
<1>5. CASE Ready(d)
  <2>1. CASE /\ up[d] = "ready"
             /\ SetStatus(d, "ready")
             /\ chunks' = [chunks EXCEPT ![d] = ChunksOf[d]]
             /\ EndUpload(d)
             /\ UNCHANGED <<file, hurt, deletions, searches>>
    BY <2>1
  <2>2. CASE /\ up[d] = "ready"
             /\ Refused(d)
             /\ hurt' = hurt \cup {d}
             /\ UNCHANGED <<status, chunks, deletions, searches>>
    BY <2>2
  <2> QED
    BY <1>5, <2>1, <2>2 DEF Ready
<1>6. CASE FailGet(d)
  BY <1>6 DEF FailGet
<1>7. CASE FailSet(d)
  BY <1>7 DEF FailSet
<1>8. CASE LoseUpload(d)
  BY <1>8 DEF LoseUpload
<1> QED
  BY <1>1, <1>2, <1>3, <1>4, <1>5, <1>6, <1>7, <1>8 DEF HandleUpload
\* The invariant needs no more of a step than that.
LEMMA UploadKeeps ==
  ASSUME IngestInv, NEW d \in Documents,
         Upload(d) \/ HandleUpload(d) \/ LoseUpload(d)
  PROVE  IngestInv'
<1>1. /\ UploadMoves(d)
      /\ RowOf(d)' /\ FileOf(d)'
      /\ status[d] = "gone" => status'[d] = "gone"
      /\ d \in file' \ hurt' => status'[d] = "ready" \/ up'[d] \in {"chunks", "ready"}
  BY UploadStep
<1>2. TypeOK'
  BY <1>1 DEF IngestInv, TypeOK, UploadMoves, deletions, searches, DocumentStatus
<1>3. \A e \in Documents \ {d} :
        /\ status'[e] = status[e] /\ chunks'[e] = chunks[e] /\ up'[e] = up[e]
        /\ e \in file' <=> e \in file
        /\ e \in hurt' <=> e \in hurt
  BY <1>1 DEF UploadMoves, IngestInv, TypeOK
<1>4. \A e \in Documents : RowOf(e)' /\ FileOf(e)'
  BY <1>1, <1>3 DEF IngestInv, RowOf, FileOf
<1>5. \A e \in Documents :
        /\ status[e] = "gone" => status'[e] = "gone"
        /\ status[e] # "absent" => status'[e] # "absent"
  BY <1>1, <1>3 DEF UploadMoves, IngestInv, TypeOK, DocumentStatus
<1>6. \A x \in Deletions : TargetOf(x)'
  BY <1>1, <1>5 DEF IngestInv, TargetOf, UploadMoves, deletions
<1>7. \A s \in Searches : HitsOf(s)'
  BY <1>1, <1>5 DEF IngestInv, TypeOK, HitsOf, UploadMoves, searches
<1>8. NoFileForgotten'
  <2> SUFFICES ASSUME NEW e \in file' \ hurt'
               PROVE  \/ status'[e] = "ready"
                      \/ up'[e] \in {"chunks", "ready"}
                      \/ \E x \in Deletions : down'[x] = "unlink" /\ target'[x] = e
    BY DEF NoFileForgotten
  <2>1. CASE e = d
    BY <1>1, <2>1
  <2>2. CASE e # d
    BY <1>1, <1>2, <1>3, <2>2 DEF IngestInv, NoFileForgotten, UploadMoves, deletions, TypeOK
  <2> QED
    BY <2>1, <2>2
<1> QED
  BY <1>2, <1>4, <1>6, <1>7, <1>8 DEF IngestInv

-----------------------------------------------------------------------------
\* A deletion's step touches the row and the file of its target only.
DeletionMoves(x) ==
  /\ \/ status' = status /\ chunks' = chunks
     \/ /\ down[x] = "commit" /\ up[target[x]] # "ready"
        /\ status' = [status EXCEPT ![target[x]] = "gone"]
        /\ chunks' = [chunks EXCEPT ![target[x]] = {}]
        /\ down'[x] = "unlink" /\ target' = target
  /\ \E l \in {"idle", "get", "commit", "unlink"} : down' = [down EXCEPT ![x] = l]
  /\ \E t \in Documents \cup {NoDocument} : target' = [target EXCEPT ![x] = t]
  /\ \/ file' = file
     \/ down[x] = "unlink" /\ file' = file \ {target[x]}
  /\ hurt' = hurt \/ (down[x] # "idle" /\ hurt' = hurt \cup {target[x]})
  /\ down[x] = "unlink" => target[x] \notin file' \ hurt'
  /\ UNCHANGED <<up, searches>>

\* A statement of a deletion marks its target as gone, or forgets a file only
\* when it removes it.
LEMMA DeletionStep ==
  ASSUME IngestInv, NEW x \in Deletions,
         Delete(x) \/ HandleDeletion(x) \/ LoseDeletion(x)
  PROVE  DeletionMoves(x) /\ TargetOf(x)'
<1> USE DEF IngestInv, TypeOK, TargetOf, DeletionMoves, SetStatus, EndDeletion,
            DocumentStatus, Exists, rows, searches
<1>1. CASE Delete(x)
  BY <1>1 DEF Delete
<1>2. CASE DeleteGet(x)
  BY <1>2 DEF DeleteGet
<1>3. CASE DeleteCommit(x)
  BY <1>3 DEF DeleteCommit
<1>4. CASE Unlink(x)
  BY <1>4 DEF Unlink
<1>5. CASE LoseDeletion(x)
  BY <1>5 DEF LoseDeletion
<1> QED
  BY <1>1, <1>2, <1>3, <1>4, <1>5 DEF HandleDeletion

\* Deletions preserve the invariant,
LEMMA DeletionKeeps ==
  ASSUME IngestInv, NEW x \in Deletions,
         Delete(x) \/ HandleDeletion(x) \/ LoseDeletion(x)
  PROVE  IngestInv'
<1>1. DeletionMoves(x) /\ TargetOf(x)'
  BY DeletionStep
<1>2. down[x] # "idle" => target[x] \in Documents /\ status[target[x]] # "absent"
  BY DEF IngestInv, TargetOf
<1>3. TypeOK'
  BY <1>1, <1>2 DEF IngestInv, TypeOK, DeletionMoves, searches
<1>4. \A d \in Documents :
        \/ status'[d] = status[d] /\ chunks'[d] = chunks[d]
        \/ status'[d] = "gone" /\ chunks'[d] = {} /\ up[d] # "ready" /\ status[d] # "absent"
  BY <1>1, <1>2 DEF IngestInv, TypeOK, DeletionMoves
<1>5. \A d \in Documents : d \in file' => d \in file
  BY <1>1 DEF DeletionMoves
<1>6. \A d \in Documents : d \in file \ file' => status[d] = "gone"
  BY <1>1 DEF DeletionMoves, IngestInv, TargetOf
<1>7. \A d \in Documents : RowOf(d)'
  BY <1>1, <1>4 DEF IngestInv, RowOf, DeletionMoves
<1>8. \A d \in Documents : FileOf(d)'
  BY <1>1, <1>4, <1>5, <1>6 DEF IngestInv, FileOf, RowOf, DeletionMoves
<1>9. \A y \in Deletions : TargetOf(y)'
  BY <1>1, <1>3, <1>4 DEF IngestInv, TypeOK, TargetOf, DeletionMoves
<1>10. \A s \in Searches : HitsOf(s)'
  BY <1>1, <1>4 DEF IngestInv, TypeOK, HitsOf, DeletionMoves, searches
<1>11. NoFileForgotten'
  <2> SUFFICES ASSUME NEW d \in file' \ hurt'
               PROVE  \/ status'[d] = "ready"
                      \/ up'[d] \in {"chunks", "ready"}
                      \/ \E y \in Deletions : down'[y] = "unlink" /\ target'[y] = d
    BY DEF NoFileForgotten
  <2>1. d \in file \ hurt /\ d \in Documents
    BY <1>1, <1>3, <1>5 DEF DeletionMoves, TypeOK
  <2>2. CASE status[d] = "ready" /\ status'[d] # "ready"
    <3>1. down'[x] = "unlink" /\ target'[x] = d
      BY <1>1, <1>2, <2>2 DEF DeletionMoves, IngestInv, TypeOK
    <3> QED
      BY <3>1
  <2>3. CASE up[d] \in {"chunks", "ready"}
    BY <1>1, <2>3 DEF DeletionMoves
  <2>4. ASSUME NEW y \in Deletions, down[y] = "unlink", target[y] = d
        PROVE  down'[y] = "unlink" /\ target'[y] = d
    BY <1>1, <2>4 DEF DeletionMoves, IngestInv, TypeOK
  <2> QED
    BY <2>1, <2>2, <2>3, <2>4 DEF IngestInv, NoFileForgotten
<1> QED
  BY <1>3, <1>7, <1>8, <1>9, <1>10, <1>11 DEF IngestInv

-----------------------------------------------------------------------------
\* and so do searches.
LEMMA SearchKeeps ==
  ASSUME IngestInv, NEW s \in Searches, Ask(s) \/ Select(s) \/ Rank(s)
  PROVE  IngestInv'
<1> DEFINE Hits == SUBSET UNION {{d} \X ChunksOf[d] : d \in Documents}
<1>1. UNCHANGED <<rows, file, up, deletions, hurt>>
  BY DEF Ask, Select, Rank
<1>2. /\ \E l \in {"idle", "select", "embed"} : look' = [look EXCEPT ![s] = l]
      /\ \E v \in SUBSET Documents : scope' = [scope EXCEPT ![s] = v] \/ scope' = scope
      /\ \E v \in SUBSET Documents : missing' = [missing EXCEPT ![s] = v] \/ missing' = missing
      /\ \E v \in Hits : hits' = [hits EXCEPT ![s] = v] \/ hits' = hits
      /\ HitsOf(s)'
  <2> HIDE DEF Hits
  <2>0. {} \in Hits /\ hits \in [Searches -> Hits]
    BY DEF Hits, IngestInv, TypeOK
  <2>1. CASE Ask(s)
    <3>1. PICK v \in SUBSET Documents : scope' = [scope EXCEPT ![s] = v]
      BY <2>1 DEF Ask
    <3>2. missing' = [missing EXCEPT ![s] = {d \in scope'[s] : status[d] = "gone"}]
      BY <2>1 DEF Ask
    <3>3. scope'[s] = v
      BY <3>1 DEF IngestInv, TypeOK
    <3>4. look' = [look EXCEPT ![s] = "select"] /\ UNCHANGED <<hits, status>>
      BY <2>1 DEF Ask, rows
    <3>5. hits[s] = {}
      BY <2>1 DEF Ask, IngestInv, HitsOf
    <3>6. HitsOf(s)'
      BY <3>2, <3>3, <3>4, <3>5 DEF HitsOf, IngestInv, TypeOK
    <3>7. missing' = [missing EXCEPT ![s] = {d \in v : status[d] = "gone"}]
      BY <3>2, <3>3
    <3>8. {d \in v : status[d] = "gone"} \in SUBSET Documents
      OBVIOUS
    <3> QED
      BY <2>0, <3>1, <3>4, <3>6, <3>7, <3>8
  <2>2. CASE Select(s)
    <3>1. UNCHANGED rows
      BY <2>2 DEF Select
    <3>2. CASE Found(s) = {}
      <4>1. /\ look' = [look EXCEPT ![s] = "idle"] /\ scope' = [scope EXCEPT ![s] = {}]
            /\ hits' = [hits EXCEPT ![s] = {}] /\ missing' = [missing EXCEPT ![s] = {}]
        BY <2>2, <3>2 DEF Select, EndSearch
      <4>2. hits'[s] = {} /\ missing'[s] = {}
        BY <2>0, <4>1 DEF IngestInv, TypeOK
      <4>3. HitsOf(s)'
        BY <4>2 DEF HitsOf
      <4>4. {} \in SUBSET Documents
        OBVIOUS
      <4> QED
        BY <2>0, <4>1, <4>3, <4>4
    <3>3. CASE Found(s) # {}
      <4>1. /\ hits' = [hits EXCEPT ![s] = Found(s)] /\ UNCHANGED <<scope, missing>>
            /\ look' = [look EXCEPT ![s] = "embed"]
        BY <2>2, <3>3 DEF Select
      <4>2. \A h \in Found(s) : \E d \in scope[s] :
              /\ d \in Documents /\ status[d] = "ready" /\ chunks[d] = ChunksOf[d]
              /\ \E c \in ChunksOf[d] : h = <<d, c>>
              /\ \A c \in ChunksOf[d] : <<d, c>> \in Found(s)
        BY DEF Found, IngestInv, TypeOK, RowOf
      <4>3. Found(s) \in Hits
        BY <4>2 DEF Hits
      <4>4. HitsOf(s)'
        BY <2>0, <3>1, <4>1, <4>2 DEF HitsOf, IngestInv, TypeOK, rows
      <4> QED
        BY <4>1, <4>3, <4>4
    <3> QED
      BY <3>2, <3>3
  <2>3. CASE Rank(s)
    BY <2>3, <2>0 DEF Rank, EndSearch, IngestInv, TypeOK, HitsOf
  <2> QED
    BY <2>1, <2>2, <2>3
<1>3. TypeOK'
  <2> HIDE DEF Hits
  <2>1. hits \in [Searches -> Hits]
    BY DEF Hits, IngestInv, TypeOK
  <2>2. hits' \in [Searches -> Hits]
    BY <1>2, <2>1
  <2> QED
    BY <1>1, <1>2, <2>2 DEF IngestInv, TypeOK, rows, deletions, Hits
<1>4. \A d \in Documents : RowOf(d)' /\ FileOf(d)'
  BY <1>1 DEF IngestInv, RowOf, FileOf, rows
<1>5. \A x \in Deletions : TargetOf(x)'
  BY <1>1 DEF IngestInv, TargetOf, rows, deletions
<1>6. \A t \in Searches : HitsOf(t)'
  BY <1>1, <1>2, <1>3 DEF IngestInv, TypeOK, HitsOf, rows
<1>7. NoFileForgotten'
  BY <1>1 DEF IngestInv, NoFileForgotten, rows, deletions
<1> QED
  BY <1>3, <1>4, <1>5, <1>6, <1>7 DEF IngestInv
-----------------------------------------------------------------------------
\* Every step preserves the invariant.
LEMMA IngestKept == IngestInv /\ [Next]_vars => IngestInv'
<1> SUFFICES ASSUME IngestInv, [Next]_vars PROVE IngestInv'
  OBVIOUS
<1>1. ASSUME NEW d \in Documents, Upload(d) \/ HandleUpload(d) \/ LoseUpload(d)
      PROVE  IngestInv'
  BY <1>1, UploadKeeps
<1>2. ASSUME NEW x \in Deletions, Delete(x) \/ HandleDeletion(x) \/ LoseDeletion(x)
      PROVE  IngestInv'
  BY <1>2, DeletionKeeps
<1>3. ASSUME NEW s \in Searches, Ask(s) \/ Select(s) \/ Rank(s)
      PROVE  IngestInv'
  BY <1>3, SearchKeeps
<1>4. CASE UNCHANGED vars
  BY <1>4 DEF vars, rows, deletions, searches, IngestInv, TypeOK, RowOf, FileOf,
              TargetOf, HitsOf, NoFileForgotten
<1> QED
  BY <1>1, <1>2, <1>3, <1>4 DEF Next

\* The invariant about rows, chunks, files and the hits of searches.
THEOREM IngestInvariant == Spec => []IngestInv
<1> QED
  BY IngestInit, IngestKept, PTL DEF Spec

\* No stop, failure or deletion leaves a document ready without its file, or
\* without a chunk that holds a passage of its text.
THEOREM ReadyIsWhole == Spec => []ReadyIsComplete
<1>1. IngestInv => ReadyIsComplete
  <2> SUFFICES ASSUME IngestInv, NEW d \in Documents, status[d] = "ready"
               PROVE  d \in file /\ KeepsPassages(TextOf[d], chunks[d])
    BY DEF ReadyIsComplete
  <2>1. d \in file /\ chunks[d] = TextChunker(TextOf[d])
    BY DEF IngestInv, RowOf, FileOf, ChunksOf
  <2>2. TextOf[d] \in Seq(Seq(BOOLEAN))
    BY IngestAssumption
  <2> QED
    BY <2>1, <2>2, ChunkerKeepsPassages
<1> QED
  BY <1>1, IngestInvariant, PTL

\* A search loads documents whole or not at all, and none that was gone before.
THEOREM SearchIsOfOneMoment == Spec => []SearchesSeeWhole
<1>1. IngestInv => SearchesSeeWhole
  BY DEF IngestInv, HitsOf, SearchesSeeWhole
<1> QED
  BY <1>1, IngestInvariant, PTL

\* A file whose document nothing happened to is in use or about to be removed.
THEOREM FilesAreRemembered == Spec => []NoFileForgotten
<1>1. IngestInv => NoFileForgotten
  BY DEF IngestInv
<1> QED
  BY <1>1, IngestInvariant, PTL

\* Ready, failed and gone are final, but for a deletion.
THEOREM DocumentsSettle == Spec => SettledStays
<1>1. IngestInv /\ [Next]_vars =>
        \A d \in Documents :
          /\ status[d] = "gone" => status'[d] = "gone"
          /\ status[d] \in {"ready", "failed"} => status'[d] \in {status[d], "gone"}
  <2> SUFFICES ASSUME IngestInv, [Next]_vars, NEW d \in Documents
               PROVE  /\ status[d] = "gone" => status'[d] = "gone"
                      /\ status[d] \in {"ready", "failed"} => status'[d] \in {status[d], "gone"}
    OBVIOUS
  <2>1. ASSUME NEW e \in Documents, Upload(e) \/ HandleUpload(e) \/ LoseUpload(e)
        PROVE  /\ status[d] = "gone" => status'[d] = "gone"
               /\ status[d] \in {"ready", "failed"} => status'[d] \in {status[d], "gone"}
    BY <2>1, UploadStep DEF UploadMoves, IngestInv, TypeOK
  <2>2. ASSUME NEW x \in Deletions, Delete(x) \/ HandleDeletion(x) \/ LoseDeletion(x)
        PROVE  status'[d] \in {status[d], "gone"}
    BY <2>2, DeletionStep DEF DeletionMoves, IngestInv, TypeOK
  <2>3. ASSUME NEW s \in Searches, Ask(s) \/ Select(s) \/ Rank(s)
        PROVE  status' = status
    BY <2>3 DEF Ask, Select, Rank, rows
  <2> QED
    BY <2>1, <2>2, <2>3 DEF Next, vars, rows
<1> QED
  BY <1>1, IngestInvariant, PTL DEF Spec, SettledStays
==============================================================================
