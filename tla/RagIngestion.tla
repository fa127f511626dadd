---------------------------- MODULE RagIngestion ----------------------------
(***************************************************************************)
(* Uploaded documents of one collection: the request that stores a file,   *)
(* its tracking row and a task (services/rag_document.py), the worker that *)
(* runs the task (worker/tasks/rag_tasks.py, services/rag/ingestion.py),   *)
(* and the requests that delete a document, drop the collection or retry.  *)
(*                                                                         *)
(* The database, the vector store, the file storage and the queue share no *)
(* transaction.  An upload gives its name to its row, its file, its task   *)
(* and its document in the vector store.                                   *)
(***************************************************************************)
EXTENDS Naturals, FiniteSets

CONSTANTS
  Doc,        \* uploads
  NameOf,     \* the filename of every upload, its source_path
  ContentOf,  \* its content, for content_hash
  Replacing,  \* the uploads with replace
  NoDoc       \* stands for no document

ASSUME RagAssumption ==
  /\ DOMAIN NameOf = Doc /\ DOMAIN ContentOf = Doc
  /\ Replacing \subseteq Doc
  /\ NoDoc \notin Doc

VARIABLES
  faults,   \* whether workers die, and databases and storage fail; never changes
  row,      \* the committed status of every rag_documents row
  known,    \* the rows with a vector_document_id
  files,    \* the files in storage
  vectors,  \* the documents in the vector store
  upload,   \* where every upload request is
  task,     \* where every ingestion task is
  target,   \* the existing document it is to replace
  result,   \* whether ingest_file reported success
  erase,    \* where the request that deletes a document is
  dropping  \* drop_collection, between the vector store and the database

ragVars == <<faults, row, known, files, vectors, upload, task, target, result, erase, dropping>>

Live    == {"processing", "done", "error"}
Running == {"queued", "find", "remove", "insert", "complete"}

RagTypeOK ==
  /\ faults \in BOOLEAN
  /\ row \in [Doc -> Live \cup {"none", "deleted"}]
  /\ known \subseteq Doc
  /\ files \subseteq Doc
  /\ vectors \subseteq Doc
  /\ upload \in [Doc -> {"new", "stored", "sent", "accepted", "failed"}]
  /\ task \in [Doc -> Running \cup {"none", "fail", "failAgain", "ended", "lost"}]
  /\ target \in [Doc -> Doc \cup {NoDoc}]
  /\ result \in [Doc -> BOOLEAN]
  /\ erase \in [Doc -> {"none", "vectors", "file", "row", "ended"}]
  /\ dropping \in BOOLEAN
  /\ \A d \in Doc : task[d] = "remove" => target[d] # NoDoc

-----------------------------------------------------------------------------
(* dispatch_upload: the file, the row of an open transaction, the task.     *)

Store(d) ==
  /\ upload[d] = "new"
  /\ upload' = [upload EXCEPT ![d] = "stored"]
  /\ files' = files \cup {d}
  /\ UNCHANGED <<row, known, vectors, task, target, result, erase, dropping>>

\* The broker has the task.
DispatchUpload(d) ==
  /\ upload[d] = "stored"
  /\ upload' = [upload EXCEPT ![d] = "sent"]
  /\ task' = [task EXCEPT ![d] = "queued"]
  /\ UNCHANGED <<row, known, files, vectors, target, result, erase, dropping>>

\* get_db_session commits when the request ends.
Accept(d) ==
  /\ upload[d] = "sent"
  /\ upload' = [upload EXCEPT ![d] = "accepted"]
  /\ row' = [row EXCEPT ![d] = "processing"]
  /\ UNCHANGED <<known, files, vectors, task, target, result, erase, dropping>>

\* create_collection, the staged copy, the dispatch or the commit raises.  The
\* call is ingest_document_task.delay, and taskiq's tasks have kiq instead.
UploadFails(d) ==
  /\ upload[d] \in {"stored", "sent"}
  /\ upload' = [upload EXCEPT ![d] = "failed"]
  /\ UNCHANGED <<row, known, files, vectors, task, target, result, erase, dropping>>

-----------------------------------------------------------------------------
(* ingest_document_task, ingest_file *)

TaskGoes(d, l) == task' = [task EXCEPT ![d] = l]

\* process_file has read the staged copy.
Parse(d) ==
  /\ task[d] = "queued"
  /\ TaskGoes(d, IF d \in Replacing THEN "find" ELSE "insert")
  /\ UNCHANGED <<row, known, files, vectors, upload, target, result, erase, dropping>>

SameName(d)    == {v \in vectors : NameOf[v] = NameOf[d]}
SameContent(d) == {v \in vectors : ContentOf[v] = ContentOf[d]}

\* By source path or filename, then by hash.
Existing(d) == IF SameName(d) # {} THEN SameName(d) ELSE SameContent(d)

FindUnchecked(d) ==
  /\ task[d] = "find"
  /\ \E v \in Existing(d) \cup {NoDoc} : target' = [target EXCEPT ![d] = v]
  /\ TaskGoes(d, "remove")
  /\ UNCHANGED <<row, known, files, vectors, upload, result, erase, dropping>>

\* A failing lookup finds nothing, and so does one beyond its limit of rows.
Find(d) ==
  /\ task[d] = "find"
  /\ \/ \E v \in Existing(d) : target' = [target EXCEPT ![d] = v] /\ TaskGoes(d, "remove")
     \/ TaskGoes(d, "insert") /\ UNCHANGED target
  /\ UNCHANGED <<row, known, files, vectors, upload, result, erase, dropping>>

RemoveOld(d) ==
  /\ task[d] = "remove"
  /\ vectors' = vectors \ {target[d]}
  /\ TaskGoes(d, "insert")
  /\ UNCHANGED <<row, known, files, upload, target, result, erase, dropping>>

\* insert_document creates the collection if there is none.
Insert(d) ==
  /\ task[d] = "insert"
  /\ vectors' = vectors \cup {d}
  /\ result' = [result EXCEPT ![d] = TRUE]
  /\ TaskGoes(d, "complete")
  /\ UNCHANGED <<row, known, files, upload, target, erase, dropping>>

\* ingest_file catches whatever is raised and returns an error result.
IngestFails(d) ==
  /\ task[d] \in {"queued", "remove", "insert"}
  /\ TaskGoes(d, "complete")
  /\ UNCHANGED <<row, known, files, vectors, upload, target, result, erase, dropping>>

CompleteWithoutId(d) ==
  /\ task[d] = "complete"
  /\ row[d] \in Live
  /\ row' = [row EXCEPT ![d] = "done"]
  /\ TaskGoes(d, "ended")
  /\ UNCHANGED <<known, files, vectors, upload, target, result, erase, dropping>>

CompleteIfIngested(d) ==
  /\ task[d] = "complete"
  /\ row[d] \in Live
  /\ row' = IF result[d] THEN [row EXCEPT ![d] = "done"] ELSE row
  /\ known' = IF result[d] THEN known \cup {d} ELSE known
  /\ TaskGoes(d, "ended")
  /\ UNCHANGED <<files, vectors, upload, target, result, erase, dropping>>

\* complete_ingestion, whatever the result says; an error result has no id.
CompleteIngestion(d) ==
  /\ task[d] = "complete"
  /\ row[d] \in Live
  /\ row' = [row EXCEPT ![d] = "done"]
  /\ known' = IF result[d] THEN known \cup {d} ELSE known
  /\ TaskGoes(d, "ended")
  /\ UNCHANGED <<files, vectors, upload, target, result, erase, dropping>>

\* get_document finds no row, or the database fails.
CompleteFails(d) ==
  /\ task[d] = "complete"
  /\ row[d] \notin Live \/ faults
  /\ TaskGoes(d, "fail")
  /\ UNCHANGED <<row, known, files, vectors, upload, target, result, erase, dropping>>

\* fail_ingestion, from _run_ingestion and again from the task; its own errors
\* are logged.
FailIngestion(d) ==
  /\ task[d] \in {"fail", "failAgain"}
  /\ \/ row[d] \in Live /\ row' = [row EXCEPT ![d] = "error"]
     \/ (row[d] \notin Live \/ faults) /\ UNCHANGED row
  /\ TaskGoes(d, IF task[d] = "fail" THEN "failAgain" ELSE "ended")
  /\ UNCHANGED <<known, files, vectors, upload, target, result, erase, dropping>>

\* The worker dies with the task: ListQueueBroker pops a task to deliver it.
WorkerDies(d) ==
  /\ faults
  /\ task[d] \in Running \cup {"fail", "failAgain"}
  /\ TaskGoes(d, "lost")
  /\ UNCHANGED <<row, known, files, vectors, upload, target, result, erase, dropping>>

-----------------------------------------------------------------------------
(* retry_ingestion *)

RetryAny(d) ==
  /\ row[d] \in Live
  /\ row' = [row EXCEPT ![d] = "processing"]
  /\ UNCHANGED <<known, files, vectors, upload, task, target, result, erase, dropping>>

\* Only failed documents; no task is dispatched.
Retry(d) ==
  /\ row[d] = "error"
  /\ row' = [row EXCEPT ![d] = "processing"]
  /\ UNCHANGED <<known, files, vectors, upload, task, target, result, erase, dropping>>

-----------------------------------------------------------------------------
(* delete_document: the row is read first and deleted last; what goes wrong *)
(* with the vectors or the file is logged.                                  *)

Erasing(d, from, to) == erase[d] = from /\ erase' = [erase EXCEPT ![d] = to]

BeginErase(d) ==
  /\ row[d] \in Live
  /\ Erasing(d, "none", IF d \in known THEN "vectors" ELSE "file")
  /\ UNCHANGED <<row, known, files, vectors, upload, task, target, result, dropping>>

EraseVectors(d) ==
  /\ Erasing(d, "vectors", "file")
  /\ \/ vectors' = vectors \ {d}
     \/ faults /\ UNCHANGED vectors
  /\ UNCHANGED <<row, known, files, upload, task, target, result, dropping>>

EraseFile(d) ==
  /\ Erasing(d, "file", "row")
  /\ \/ files' = files \ {d}
     \/ faults /\ UNCHANGED files
  /\ UNCHANGED <<row, known, vectors, upload, task, target, result, dropping>>

\* The commit may fail: the row stays, without its vectors and its file.
EraseRow(d) ==
  /\ Erasing(d, "row", "ended")
  /\ \/ row' = [row EXCEPT ![d] = "deleted"]
     \/ faults /\ UNCHANGED row
  /\ UNCHANGED <<known, files, vectors, upload, task, target, result, dropping>>

\* DELETE /rag/collections/{name}/documents/{document_id}
RemoveVectors(d) ==
  /\ d \in vectors
  /\ vectors' = vectors \ {d}
  /\ UNCHANGED <<row, known, files, upload, task, target, result, erase, dropping>>

\* drop_collection; the second part may fail.
DropVectors ==
  /\ ~dropping
  /\ vectors' = {}
  /\ dropping' = TRUE
  /\ UNCHANGED <<row, known, files, upload, task, target, result, erase>>

DropRows ==
  /\ dropping
  /\ \/ row' = [d \in Doc |-> IF row[d] \in Live THEN "deleted" ELSE row[d]]
     \/ faults /\ UNCHANGED row
  /\ dropping' = FALSE
  /\ UNCHANGED <<known, files, vectors, upload, task, target, result, erase>>

-----------------------------------------------------------------------------
RagInit ==
  /\ faults \in BOOLEAN
  /\ row = [d \in Doc |-> "none"]
  /\ known = {}
  /\ files = {}
  /\ vectors = {}
  /\ upload = [d \in Doc |-> "new"]
  /\ task = [d \in Doc |-> "none"]
  /\ target = [d \in Doc |-> NoDoc]
  /\ result = [d \in Doc |-> FALSE]
  /\ erase = [d \in Doc |-> "none"]
  /\ dropping = FALSE

Request(d) == (DispatchUpload(d) \/ Accept(d) \/ UploadFails(d)) /\ UNCHANGED faults

Ingest(d) ==
  /\ \/ Parse(d) \/ Find(d) \/ RemoveOld(d) \/ Insert(d) \/ IngestFails(d)
     \/ CompleteIngestion(d) \/ CompleteFails(d) \/ FailIngestion(d)
  /\ UNCHANGED faults

Administer(d) ==
  \/ Retry(d) \/ BeginErase(d) \/ EraseVectors(d) \/ EraseFile(d) \/ EraseRow(d)
  \/ RemoveVectors(d)

RagNext ==
  \/ \E d \in Doc : Request(d) \/ Ingest(d)
  \/ /\ (\E d \in Doc : Store(d) \/ WorkerDies(d) \/ Administer(d)) \/ DropVectors \/ DropRows
     /\ UNCHANGED faults

RagSpec == RagInit /\ [][RagNext]_ragVars

\* The worker goes on with the tasks it takes.
RagFairness == \A d \in Doc : WF_ragVars(Ingest(d))

RagFairSpec == RagSpec /\ RagFairness

-----------------------------------------------------------------------------
(* Properties *)

\* A row that says done knows the document it has in the vector store, so that
\* deleting the row also removes the vectors (complete_ingestion).
DoneCanBeErased == \A d \in Doc : row[d] = "done" /\ d \in vectors => d \in known

\* A row in error has no ingestion under way that could still write vectors, so
\* a retry never races one (retry_ingestion).
ErrorsAreIdle == \A d \in Doc : row[d] = "error" => task[d] \notin Running

\* What an administrator does with a row, deleting a done one or retrying one in
\* error, finds the vectors as the row says.
RowsAreTrue == DoneCanBeErased /\ ErrorsAreIdle

\* A finished document never goes back to processing or to an error, although
\* retries, failures and deletions come in any order.
DoneIsFinal == [][\A d \in Doc : row[d] = "done" => row'[d] \in {"done", "deleted"}]_row

\* While workers, databases and storage hold, a row its worker can see leaves
\* processing, whatever the administrator does meanwhile.
SeenIsSettled ==
  \A d \in Doc :
    (~faults /\ row[d] = "processing" /\ task[d] \in Running) ~> (row[d] # "processing")

\* Said at rag_document.py:172 of complete_ingestion: "Mark a document as
\* successfully ingested."  A document that is done has been ingested.
DoneMeansIngested == \A d \in Doc : row[d] = "done" => result[d]

\* Said at rag_document.py:163: "File accepted. Processing in background."  An
\* accepted upload does not stay in processing.
AcceptedIsProcessed ==
  \A d \in Doc :
    (~faults /\ upload[d] = "accepted") ~> (row[d] \in {"done", "error", "deleted"})

\* Said at docs/file-processing.md:195: "Failed ingestions can be retried".  A
\* retry that is accepted has a task.
RetriesRun ==
  [][\A d \in Doc : row[d] = "error" /\ row'[d] = "processing" => task'[d] \in Running]_row

\* Said at routes/v1/rag.py:233: a document is deleted "from SQL, vector store,
\* and file storage".  When nothing is under way, no deleted document is found.
DeletedIsGone ==
  \A d \in Doc :
    (~faults /\ row[d] = "deleted" /\ erase[d] = "ended" /\ task[d] = "ended")
      => d \notin vectors

\* Said at ingestion.py:99: replace replaces the "existing document with same
\* source_path".  The document it is about to remove has the same name.
ReplacesSameSource ==
  \A d \in Doc : target[d] # NoDoc => NameOf[target[d]] = NameOf[d]

\* Said at the same place: uploads with replace leave one document of a name.
OneOfEachName ==
  (\A d \in Doc : task[d] \in {"none", "ended"}) =>
    \A d, e \in Replacing \cap vectors : NameOf[d] = NameOf[e] => d = e
=============================================================================
