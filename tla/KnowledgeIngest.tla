-------------------------- MODULE KnowledgeIngest --------------------------
(***************************************************************************)
(* The documents of the knowledge base: their rows and chunks in           *)
(* PostgreSQL, their files on disk, the upload that ingests each of them,  *)
(* the requests that delete them and the searches.  Chunks are those of    *)
(* TextChunks.                                                             *)
(*                                                                         *)
(* An action is one awaited statement with the Python code around it.  An  *)
(* upload that has flushed its chunks locks the document's row against     *)
(* deletion (the foreign key's KEY SHARE) until it commits.                *)
(***************************************************************************)
EXTENDS TextChunks

CONSTANTS
  Documents,
  TextOf,         \* document -> what it says, as pages
  Deletions,      \* slots for DELETE requests that are in flight at once
  NoDocument,     \* what an idle deletion slot deletes
  Users,
  OwnerOf,        \* document -> its user_id, and its chunks'
  Searches,       \* slots for searches that are in flight at once
  DatabaseFails,  \* may the database refuse the chunks of a document?
  Faults          \* may sessions be lost and the server restart?

ASSUME IngestAssumption ==
  /\ TextOf \in [Documents -> Seq(Seq(BOOLEAN))]
  /\ NoDocument \notin Documents
  /\ OwnerOf \in [Documents -> Users]
  /\ {DatabaseFails, Faults} \subseteq BOOLEAN

VARIABLES
  status,  \* document -> its status, "absent" before and "gone" after its row
  chunks,  \* document -> its committed chunks
  file,    \* documents whose file is on disk
  up,      \* document -> the statement its upload is about to issue
  down,    \* deletion slot -> the statement it is about to issue
  target,  \* deletion slot -> the document it deletes
  look,    \* search -> the statement it is about to issue
  scope,   \* search -> the documents it is about
  hits,    \* search -> the chunks it has loaded, each with its document
  missing, \* history: search -> those of them that were gone when it was sent
  hurt     \* history: documents for which a session was lost, or the database
           \* refused a statement

deletions == <<down, target>>
rows == <<status, chunks>>
searches == <<look, scope, hits, missing>>
vars == <<rows, file, up, deletions, searches, hurt>>

DocumentStatus == {"pending", "processing", "ready", "failed"}

\* What its upload would store.
ChunksOf == [d \in Documents |-> TextChunker(TextOf[d])]

\* The document has a row.
Exists(d) == status[d] \in DocumentStatus

-----------------------------------------------------------------------------
(* An upload.                                                              *)

Goto(d, label) == up' = [up EXCEPT ![d] = label]

\* The upload is answered, or raised.
EndUpload(d) == Goto(d, "ended")

SetStatus(d, s) == status' = [status EXCEPT ![d] = s]

\* A valid upload; the row is committed as pending.
Upload(d) ==
  /\ up[d] = "none"
  /\ SetStatus(d, "pending")
  /\ Goto(d, "mark")
  /\ UNCHANGED <<chunks, file, deletions, searches, hurt>>

\* The row is marked, outside of the try block: an UPDATE that finds no row
\* raises.  The text is then extracted and chunked, which can fail, and fails
\* when there is nothing to index.
Mark(d) ==
  /\ up[d] = "mark"
  /\ IF Exists(d)
       THEN /\ SetStatus(d, "processing")
            /\ \/ ChunksOf[d] # {} /\ Goto(d, "embed")
               \/ Goto(d, "fail_get")
       ELSE EndUpload(d) /\ UNCHANGED status
  /\ UNCHANGED <<chunks, file, deletions, searches, hurt>>

\* The chunks are embedded and the file is written; either can fail, and the
\* handler then removes the file.
Embed(d) ==
  /\ up[d] = "embed"
  /\ \/ file' = file \cup {d} /\ Goto(d, "chunks")
     \/ UNCHANGED file /\ Goto(d, "fail_get")
  /\ UNCHANGED <<rows, deletions, searches, hurt>>

\* Mutant of Refused: the file is left where it is.
RefusedKeepsFile(d) ==
  /\ UNCHANGED file
  /\ EndUpload(d)

\* The database refuses a statement.  The handler rolls back and removes the
\* file; the rollback expires the document, so reading document.id raises.
Refused(d) ==
  /\ file' = file \ {d}
  /\ EndUpload(d)

\* The chunks are flushed; their foreign key needs the row.
AddChunks(d) ==
  /\ up[d] = "chunks"
  /\ \/ Exists(d) /\ Goto(d, "ready") /\ UNCHANGED <<file, hurt>>
     \/ ~ Exists(d) /\ Refused(d) /\ UNCHANGED hurt
     \/ DatabaseFails /\ Refused(d) /\ hurt' = hurt \cup {d}
  /\ UNCHANGED <<rows, deletions, searches>>

\* Mutant of Ready: the status is committed first, then chunk after chunk.
ReadyByParts(d) ==
  /\ up[d] = "ready"
  /\ SetStatus(d, "ready")
  /\ \E c \in ChunksOf[d] \ chunks[d] :
       /\ chunks' = [chunks EXCEPT ![d] = @ \cup {c}]
       /\ IF chunks'[d] = ChunksOf[d] THEN EndUpload(d) ELSE UNCHANGED up
  /\ UNCHANGED <<file, deletions, searches, hurt>>

\* The chunks are committed with the status.
Ready(d) ==
  /\ up[d] = "ready"
  /\ \/ /\ SetStatus(d, "ready")
        /\ chunks' = [chunks EXCEPT ![d] = ChunksOf[d]]
        /\ EndUpload(d)
        /\ UNCHANGED <<file, hurt>>
     \/ /\ DatabaseFails
        /\ Refused(d)
        /\ hurt' = hurt \cup {d}
        /\ UNCHANGED <<status, chunks>>
  /\ UNCHANGED <<deletions, searches>>

\* The handler of a failed extraction or embedding reads the row again.
FailGet(d) ==
  /\ up[d] = "fail_get"
  /\ IF Exists(d) THEN Goto(d, "fail_set") ELSE EndUpload(d)
  /\ UNCHANGED <<rows, file, deletions, searches, hurt>>

\* Mutant of FailSet: the failure is answered and not recorded.
FailSetNothing(d) ==
  /\ up[d] = "fail_set"
  /\ EndUpload(d)
  /\ UNCHANGED <<rows, file, deletions, searches, hurt>>

\* Mutant of FailSet: the document is merged, which inserts it again.
FailSetMerged(d) ==
  /\ up[d] = "fail_set"
  /\ SetStatus(d, "failed")
  /\ EndUpload(d)
  /\ UNCHANGED <<chunks, file, deletions, searches, hurt>>

FailSet(d) ==
  /\ up[d] = "fail_set"
  /\ IF Exists(d) THEN SetStatus(d, "failed") ELSE UNCHANGED status
  /\ EndUpload(d)
  /\ UNCHANGED <<chunks, file, deletions, searches, hurt>>

-----------------------------------------------------------------------------
(* A deletion.                                                             *)

EndDeletion(x) ==
  /\ down' = [down EXCEPT ![x] = "idle"]
  /\ target' = [target EXCEPT ![x] = NoDocument]

\* A client deletes a document it knows of, while its upload goes on or after.
Delete(x) ==
  /\ down[x] = "idle"
  /\ \E d \in Documents :
       /\ status[d] # "absent"
       /\ target' = [target EXCEPT ![x] = d]
  /\ down' = [down EXCEPT ![x] = "get"]
  /\ UNCHANGED <<rows, file, up, searches, hurt>>

DeleteGet(x) ==
  /\ down[x] = "get"
  /\ IF Exists(target[x])
       THEN down' = [down EXCEPT ![x] = "commit"] /\ UNCHANGED target
       ELSE EndDeletion(x)
  /\ UNCHANGED <<rows, file, up, searches, hurt>>

\* Mutant of DeleteCommit: the file is removed before the row.
DeleteFileFirst(x) ==
  /\ down[x] = "commit"
  /\ up[target[x]] # "ready"
  /\ IF target[x] \in file
       THEN file' = file \ {target[x]} /\ UNCHANGED <<status, chunks, deletions>>
       ELSE /\ SetStatus(target[x], "gone")
            /\ chunks' = [chunks EXCEPT ![target[x]] = {}]
            /\ EndDeletion(x)
            /\ UNCHANGED file
  /\ UNCHANGED <<up, searches, hurt>>

\* Mutant of DeleteCommit: no cascade to the chunks.
DeleteCommitRowOnly(x) ==
  /\ down[x] = "commit"
  /\ up[target[x]] # "ready"
  /\ SetStatus(target[x], "gone")
  /\ down' = [down EXCEPT ![x] = "unlink"]
  /\ UNCHANGED <<chunks, file, up, target, searches, hurt>>

\* The row goes with its chunks, once no upload has uncommitted ones.  A row
\* that another request has deleted meanwhile is no error.
DeleteCommit(x) ==
  /\ down[x] = "commit"
  /\ up[target[x]] # "ready"
  /\ SetStatus(target[x], "gone")
  /\ chunks' = [chunks EXCEPT ![target[x]] = {}]
  /\ down' = [down EXCEPT ![x] = "unlink"]
  /\ UNCHANGED <<file, up, target, searches, hurt>>

\* Mutant of Unlink: the file is left where it is.
UnlinkNothing(x) ==
  /\ down[x] = "unlink"
  /\ EndDeletion(x)
  /\ UNCHANGED <<rows, file, up, searches, hurt>>

Unlink(x) ==
  /\ down[x] = "unlink"
  /\ file' = file \ {target[x]}
  /\ EndDeletion(x)
  /\ UNCHANGED <<rows, up, searches, hurt>>

-----------------------------------------------------------------------------
(* A search.                                                               *)

EndSearch(s) ==
  /\ look' = [look EXCEPT ![s] = "idle"]
  /\ scope' = [scope EXCEPT ![s] = {}]
  /\ hits' = [hits EXCEPT ![s] = {}]
  /\ missing' = [missing EXCEPT ![s] = {}]

\* A user searches the documents it names, of which only its own count, or, when
\* it names none, all of its own.  A blank query is refused at once.
Ask(s) ==
  /\ look[s] = "idle"
  /\ \E u \in Users : \E ids \in SUBSET Documents :
       scope' = [scope EXCEPT ![s] =
                   {d \in Documents : OwnerOf[d] = u /\ (ids = {} \/ d \in ids)}]
  /\ look' = [look EXCEPT ![s] = "select"]
  /\ missing' = [missing EXCEPT ![s] = {d \in scope'[s] : status[d] = "gone"}]
  /\ UNCHANGED <<rows, file, up, deletions, hits, hurt>>

\* Chunks with their documents, by one statement.  Without any there is nothing
\* to compare the query with.
Found(s) ==
  UNION {{<<d, c>> : c \in chunks[d]} : d \in {e \in scope[s] : status[e] = "ready"}}

Select(s) ==
  /\ look[s] = "select"
  /\ IF Found(s) = {}
       THEN EndSearch(s)
       ELSE /\ hits' = [hits EXCEPT ![s] = Found(s)]
            /\ look' = [look EXCEPT ![s] = "embed"]
            /\ UNCHANGED <<scope, missing>>
  /\ UNCHANGED <<rows, file, up, deletions, hurt>>

\* The query is embedded, or not; what was loaded is ranked and answered.
Rank(s) ==
  /\ look[s] = "embed"
  /\ EndSearch(s)
  /\ UNCHANGED <<rows, file, up, deletions, hurt>>

-----------------------------------------------------------------------------
(* Lost sessions: the client went away or the server stopped.              *)

LoseUpload(d) ==
  /\ Faults
  /\ up[d] \notin {"none", "ended"}
  /\ EndUpload(d)
  /\ hurt' = hurt \cup {d}
  /\ UNCHANGED <<rows, file, deletions, searches>>

LoseDeletion(x) ==
  /\ Faults
  /\ down[x] # "idle"
  /\ EndDeletion(x)
  /\ hurt' = hurt \cup {target[x]}
  /\ UNCHANGED <<rows, file, up, searches>>

-----------------------------------------------------------------------------
Init ==
  /\ status = [d \in Documents |-> "absent"]
  /\ chunks = [d \in Documents |-> {}]
  /\ file = {}
  /\ hurt = {}
  /\ up = [d \in Documents |-> "none"]
  /\ down = [x \in Deletions |-> "idle"]
  /\ target = [x \in Deletions |-> NoDocument]
  /\ look = [s \in Searches |-> "idle"]
  /\ scope = [s \in Searches |-> {}]
  /\ hits = [s \in Searches |-> {}]
  /\ missing = [s \in Searches |-> {}]

HandleUpload(d) ==
  \/ Mark(d) \/ Embed(d) \/ AddChunks(d) \/ Ready(d) \/ FailGet(d) \/ FailSet(d)

HandleDeletion(x) == DeleteGet(x) \/ DeleteCommit(x) \/ Unlink(x)

Next ==
  \/ \E d \in Documents : Upload(d) \/ HandleUpload(d) \/ LoseUpload(d)
  \/ \E x \in Deletions : Delete(x) \/ HandleDeletion(x) \/ LoseDeletion(x)
  \/ \E s \in Searches : Ask(s) \/ Select(s) \/ Rank(s)

Spec == Init /\ [][Next]_vars

\* The event loop runs every ready handler.  Clients need not send anything.
Fairness ==
  /\ \A d \in Documents : WF_vars(HandleUpload(d))
  /\ \A x \in Deletions : WF_vars(HandleDeletion(x))

FairSpec == Spec /\ Fairness

-----------------------------------------------------------------------------
\* Every variable ranges over the values the columns and the handlers allow.
TypeOK ==
  /\ status \in [Documents -> DocumentStatus \cup {"absent", "gone"}]
  /\ chunks \in [Documents -> {{}} \cup {ChunksOf[d] : d \in Documents}]
  /\ file \subseteq Documents
  /\ hurt \subseteq Documents
  /\ up \in [Documents -> {"none", "mark", "embed", "chunks", "ready",
                           "fail_get", "fail_set", "ended"}]
  /\ down \in [Deletions -> {"idle", "get", "commit", "unlink"}]
  /\ target \in [Deletions -> Documents \cup {NoDocument}]
  /\ look \in [Searches -> {"idle", "select", "embed"}]
  /\ scope \in [Searches -> SUBSET Documents]
  /\ missing \in [Searches -> SUBSET Documents]
  /\ hits \in [Searches -> SUBSET UNION {{d} \X ChunksOf[d] : d \in Documents}]

-----------------------------------------------------------------------------
(* What holds however requests interleave, whatever is lost.               *)

\* A document that is ready has its file and can be searched for every passage
\* of its text: no deletion, no clean-up of a failed upload and no edge of a
\* chunk takes any of that away.
ReadyIsComplete ==
  \A d \in Documents : status[d] = "ready" =>
    d \in file /\ KeepsPassages(TextOf[d], chunks[d])

\* A search sees a document whole or not at all: no chunk of an upload that has
\* not been committed with all the others, and none of a document that was gone
\* when the search was sent.  (One that goes while the query is embedded is still
\* answered with.)
SearchesSeeWhole ==
  \A s \in Searches : \A h \in hits[s] :
    /\ \A c \in ChunksOf[h[1]] : <<h[1], c>> \in hits[s]
    /\ h[1] \in scope[s] \ missing[s]

\* A document that was deleted does not come back, and ready and failed change
\* only by a deletion.
SettledStays ==
  [][\A d \in Documents :
       /\ status[d] = "gone" => status'[d] = "gone"
       /\ status[d] \in {"ready", "failed"} => status'[d] \in {status[d], "gone"}]_vars

-----------------------------------------------------------------------------
(* What holds for the documents nothing has happened to, whatever happens  *)
(* to others.                                                              *)

\* A file without a ready document is on its way to be removed, or to be the
\* file of a document: no interleaving of upload and deletion forgets it.
NoFileForgotten ==
  \A d \in file \ hurt :
    \/ status[d] = "ready"
    \/ up[d] \in {"chunks", "ready"}
    \/ \E x \in Deletions : down[x] = "unlink" /\ target[x] = d

\* Every upload ends, and leaves its document ready, failed or gone.
UploadsSettle ==
  \A d \in Documents :
    (status[d] = "pending") ~> (status[d] \in {"ready", "failed", "gone"} \/ d \in hurt)

\* Every deletion ends with its document gone, row and file, though it may have
\* to wait for the upload.
DeletionsEnd ==
  \A x \in Deletions : \A d \in Documents :
    (down[x] # "idle" /\ target[x] = d)
      ~> ((status[d] = "gone" /\ d \notin file) \/ d \in hurt)
=============================================================================
