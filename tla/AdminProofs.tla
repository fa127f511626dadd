----------------------------- MODULE AdminProofs -----------------------------
(***************************************************************************)
(* Proofs about what is kept beside the chat.  RagIngestion, for any       *)
(* uploads, filenames and contents, with workers, databases and storage    *)
(* that fail or hold; SyncSources, for any sources, any number of jobs and *)
(* any number of files; AdminPages, for any users, conversations and       *)
(* ratings, any size of a page and of a chunk, and any number of calls.    *)
(***************************************************************************)
EXTENDS RagIngestion, SyncSources, AdminPages, ListFilterProofs

-----------------------------------------------------------------------------
(* RagIngestion: what ties the row of an upload to its request, its task   *)
(* and its vectors.                                                         *)

\* An upload has no row before its request commits.
Uncommitted(d) == upload[d] \in {"new", "stored", "sent"} => row[d] = "none"

\* What is in the vector store was put there by a task that noted its success.
Inserted(d) == d \in vectors => result[d]

\* The only task of a done row is over, and told its row about the vectors.
DoneIsOver(d) == row[d] = "done" => task[d] = "ended" /\ (d \in vectors => d \in known)

\* A row fails when its task gives up, for the first or for the second time.
ErrorIsOver(d) == row[d] = "error" => task[d] \in {"failAgain", "ended", "lost"}

\* A request that deletes a document has read its row, which is never un-made.
ErasedExists(d) == erase[d] # "none" => row[d] # "none"

Tied(d) ==
  Uncommitted(d) /\ Inserted(d) /\ DoneIsOver(d) /\ ErrorIsOver(d) /\ ErasedExists(d)

RagInv == RagTypeOK /\ \A d \in Doc : Tied(d)

\* Nothing has been uploaded yet.
LEMMA InitTied == ASSUME RagInit PROVE RagInv
  BY RagAssumption
  DEF RagInit, RagInv, RagTypeOK, Tied, Uncommitted, Inserted, DoneIsOver, ErrorIsOver, ErasedExists,
      Live, Running

\* The request of an upload: no task of it has seen a row yet, and no row of it
\* is there before the commit.
LEMMA RequestStep ==
  ASSUME RagInv, NEW d \in Doc, Store(d) \/ Request(d), UNCHANGED faults
  PROVE  RagInv'
<1>1. RagTypeOK'
  BY DEF Store, Request, DispatchUpload, Accept, UploadFails, RagInv, RagTypeOK, Live, Running
<1>2. ASSUME NEW e \in Doc PROVE Tied(e)'
  <2>1. Tied(e) /\ Tied(d)
    BY DEF RagInv
  <2>2. UNCHANGED <<vectors, result, known, erase>>
    BY DEF Store, Request, DispatchUpload, Accept, UploadFails
  <2>3. CASE e # d
    <3>1. upload'[e] = upload[e] /\ task'[e] = task[e] /\ row'[e] = row[e]
      BY <2>3 DEF Store, Request, DispatchUpload, Accept, UploadFails, RagInv, RagTypeOK
    <3> QED
      BY <2>1, <2>2, <3>1 DEF Tied, Uncommitted, Inserted, DoneIsOver, ErrorIsOver, ErasedExists
  <2>4. CASE e = d
    <3>1. row[d] \notin {"done", "error"} \/ (row'[d] = row[d] /\ task'[d] = task[d])
      BY <2>1 DEF Store, Request, DispatchUpload, Accept, UploadFails, Tied, Uncommitted
    <3>2. row'[d] \in {row[d], "processing"}
      BY DEF Store, Request, DispatchUpload, Accept, UploadFails, RagInv, RagTypeOK
    <3>3. Uncommitted(d)'
      BY <2>1 DEF Store, Request, DispatchUpload, Accept, UploadFails, RagInv, RagTypeOK, Tied, Uncommitted
    <3> QED
      BY <2>1, <2>2, <2>4, <3>1, <3>2, <3>3
      DEF Tied, Uncommitted, Inserted, DoneIsOver, ErrorIsOver, ErasedExists
  <2> QED
    BY <2>3, <2>4
<1> QED
  BY <1>1, <1>2 DEF RagInv

\* The task, up to its report to the row; the row keeps its status.
LEMMA IngestStep ==
  ASSUME RagInv, NEW d \in Doc, UNCHANGED faults,
         \/ Parse(d) \/ Find(d) \/ RemoveOld(d) \/ Insert(d) \/ IngestFails(d)
         \/ CompleteFails(d) \/ WorkerDies(d)
  PROVE  RagInv'
<1>1. /\ UNCHANGED <<row, known, files, upload, erase, dropping>>
      /\ task[d] \in Running \cup {"fail", "failAgain"}
      /\ \E l \in {"find", "remove", "insert", "complete", "fail", "lost"} :
           task' = [task EXCEPT ![d] = l] /\ (l # "lost" => task[d] \in Running)
  BY DEF Parse, Find, RemoveOld, Insert, IngestFails, CompleteFails, WorkerDies, TaskGoes, Running
<1>2. RagTypeOK'
  <2>1. target' \in [Doc -> Doc \cup {NoDoc}]
    BY DEF Parse, Find, RemoveOld, Insert, IngestFails, CompleteFails, WorkerDies, RagInv, RagTypeOK,
           Existing, SameName, SameContent
  <2>2. ASSUME NEW e \in Doc, task'[e] = "remove" PROVE target'[e] # NoDoc
    <3>1. CASE e = d
      BY <2>2, <3>1, RagAssumption
      DEF Parse, Find, RemoveOld, Insert, IngestFails, CompleteFails, WorkerDies, TaskGoes, RagInv, RagTypeOK,
          Existing, SameName, SameContent
    <3>2. CASE e # d
      BY <1>1, <2>2, <3>2
      DEF Parse, Find, RemoveOld, Insert, IngestFails, CompleteFails, WorkerDies, RagInv, RagTypeOK
    <3> QED
      BY <3>1, <3>2
  <2>3. vectors' \subseteq Doc /\ result' \in [Doc -> BOOLEAN]
    BY DEF Parse, Find, RemoveOld, Insert, IngestFails, CompleteFails, WorkerDies, RagInv, RagTypeOK
  <2>4. task' \in [Doc -> Running \cup {"none", "fail", "failAgain", "ended", "lost"}]
    BY <1>1 DEF RagInv, RagTypeOK, Running
  <2> QED
    BY <1>1, <2>1, <2>2, <2>3, <2>4 DEF RagInv, RagTypeOK
<1>3. ASSUME NEW e \in Doc PROVE Tied(e)'
  <2>1. Tied(e)
    BY DEF RagInv
  <2>2. Inserted(e)'
    BY <2>1 DEF Parse, Find, RemoveOld, Insert, IngestFails, CompleteFails, WorkerDies, RagInv, RagTypeOK,
                Tied, Inserted
  <2>3. e # d => task'[e] = task[e] /\ (e \in vectors' => e \in vectors)
    BY <1>1 DEF Parse, Find, RemoveOld, Insert, IngestFails, CompleteFails, WorkerDies, RagInv, RagTypeOK
  <2>4. e = d => row[d] # "done" /\ (row[d] = "error" => task'[d] = "lost")
    BY <1>1, <2>1 DEF RagInv, RagTypeOK, Tied, DoneIsOver, ErrorIsOver, ErasedExists, Running
  <2> QED
    BY <1>1, <2>1, <2>2, <2>3, <2>4 DEF Tied, Uncommitted, DoneIsOver, ErrorIsOver, ErasedExists
<1> QED
  BY <1>2, <1>3 DEF RagInv

\* The task's report to the row, of an end or of a failure.
LEMMA ReportStep ==
  ASSUME RagInv, NEW d \in Doc, UNCHANGED faults, CompleteIngestion(d) \/ FailIngestion(d)
  PROVE  RagInv' /\ (row[d] = "done" => row' = row)
<1>1. RagTypeOK'
  BY DEF CompleteIngestion, FailIngestion, TaskGoes, RagInv, RagTypeOK, Live, Running
<1>2. row[d] # "done"
  BY DEF CompleteIngestion, FailIngestion, RagInv, Tied, DoneIsOver
<1>3. ASSUME NEW e \in Doc PROVE Tied(e)'
  <2>1. Tied(e)
    BY DEF RagInv
  <2>2. UNCHANGED <<upload, vectors, result, erase>>
    BY DEF CompleteIngestion, FailIngestion
  <2>3. CASE e # d
    <3>1. task'[e] = task[e] /\ row'[e] = row[e] /\ (e \in known <=> e \in known')
      BY <2>3 DEF CompleteIngestion, FailIngestion, TaskGoes, RagInv, RagTypeOK
    <3> QED
      BY <2>1, <2>2, <3>1 DEF Tied, Uncommitted, Inserted, DoneIsOver, ErrorIsOver, ErasedExists
  <2>4. CASE e = d /\ CompleteIngestion(d)
    BY <2>1, <2>4
    DEF CompleteIngestion, TaskGoes, Live, RagInv, RagTypeOK, Tied, Uncommitted, Inserted, DoneIsOver, ErrorIsOver, ErasedExists
  <2>5. CASE e = d /\ FailIngestion(d)
    <3>1. task'[d] \in {"failAgain", "ended"} /\ row'[d] \in {row[d], "error"}
      BY <2>5 DEF FailIngestion, TaskGoes, RagInv, RagTypeOK
    <3>2. row[d] \notin Live => row'[d] = row[d]
      BY <2>5 DEF FailIngestion
    <3> QED
      BY <1>2, <2>1, <2>2, <2>5, <3>1, <3>2
      DEF Live, Tied, Uncommitted, Inserted, DoneIsOver, ErrorIsOver, ErasedExists
  <2> QED
    BY <2>3, <2>4, <2>5
<1> QED
  BY <1>1, <1>2, <1>3 DEF RagInv

\* What an administrator does with a row takes vectors away and puts the row to
\* processing from an error, or away; it leaves the task alone.
LEMMA AdminStep ==
  ASSUME RagInv, UNCHANGED faults,
         (\E d \in Doc : Administer(d)) \/ DropVectors \/ DropRows
  PROVE  RagInv' /\ \A d \in Doc : row[d] = "done" => row'[d] \in {"done", "deleted"}
<1>1. UNCHANGED <<known, upload, task, target, result>> /\ vectors' \subseteq vectors
  BY DEF Administer, Retry, BeginErase, EraseVectors, EraseFile, EraseRow, RemoveVectors,
         DropVectors, DropRows
<1>2. RagTypeOK'
  <2>1. row' \in [Doc -> Live \cup {"none", "deleted"}]
    BY DEF Administer, Retry, BeginErase, EraseVectors, EraseFile, EraseRow, RemoveVectors,
           DropVectors, DropRows, RagInv, RagTypeOK, Live
  <2>2. erase' \in [Doc -> {"none", "vectors", "file", "row", "ended"}]
    BY DEF Administer, Retry, BeginErase, EraseVectors, EraseFile, EraseRow, RemoveVectors,
           DropVectors, DropRows, Erasing, RagInv, RagTypeOK
  <2>3. files' \subseteq Doc /\ dropping' \in BOOLEAN
    BY DEF Administer, Retry, BeginErase, EraseVectors, EraseFile, EraseRow, RemoveVectors,
           DropVectors, DropRows, RagInv, RagTypeOK
  <2> QED
    BY <1>1, <2>1, <2>2, <2>3 DEF RagInv, RagTypeOK
<1>3. \A e \in Doc : \/ row'[e] = row[e]
                     \/ row[e] = "error" /\ row'[e] = "processing"
                     \/ row'[e] = "deleted" /\ (row[e] \in Live \/ erase[e] = "row")
  BY DEF Administer, Retry, BeginErase, EraseVectors, EraseFile, EraseRow, RemoveVectors,
         DropVectors, DropRows, Erasing, RagInv, RagTypeOK
<1>4. \A e \in Doc : erase'[e] # "none" => erase[e] # "none" \/ row'[e] # "none"
  BY DEF Administer, Retry, BeginErase, EraseVectors, EraseFile, EraseRow, RemoveVectors,
         DropVectors, DropRows, Erasing, RagInv, RagTypeOK, Live
<1> QED
  BY <1>1, <1>2, <1>3, <1>4
  DEF RagInv, Tied, Uncommitted, Inserted, DoneIsOver, ErrorIsOver, ErasedExists, Live

\* What no step may do to a row, beside keeping the invariant.
DoneStays == \A d \in Doc : row[d] = "done" => row'[d] \in {"done", "deleted"}

LEMMA NextInv == ASSUME RagInv, [RagNext]_ragVars PROVE RagInv' /\ DoneStays
<1>1. CASE UNCHANGED ragVars
  BY <1>1
  DEF ragVars, DoneStays, RagInv, RagTypeOK, Tied, Uncommitted, Inserted, DoneIsOver, ErrorIsOver,
      ErasedExists
<1>2. ASSUME NEW d \in Doc, Store(d) \/ Request(d), UNCHANGED faults PROVE RagInv' /\ DoneStays
  <2>1. \A e \in Doc : row'[e] # row[e] => row[e] = "none"
    BY <1>2 DEF Store, Request, DispatchUpload, Accept, UploadFails, RagInv, RagTypeOK, Tied, Uncommitted
  <2> QED
    BY <1>2, <2>1, RequestStep DEF DoneStays
<1>3. ASSUME NEW d \in Doc, Ingest(d) PROVE RagInv' /\ DoneStays
  <2>1. CASE CompleteIngestion(d) \/ FailIngestion(d)
    <3>1. UNCHANGED faults
      BY <1>3 DEF Ingest
    <3>2. \A e \in Doc : e # d => row'[e] = row[e]
      BY <2>1 DEF CompleteIngestion, FailIngestion, RagInv, RagTypeOK
    <3> QED
      BY <2>1, <3>1, <3>2, ReportStep DEF DoneStays
  <2>2. CASE ~(CompleteIngestion(d) \/ FailIngestion(d))
    <3>1. UNCHANGED row
      BY <1>3, <2>2 DEF Ingest, Parse, Find, RemoveOld, Insert, IngestFails, CompleteFails
    <3> QED
      BY <1>3, <2>2, <3>1, IngestStep DEF Ingest, DoneStays
  <2> QED
    BY <2>1, <2>2
<1>4. ASSUME NEW d \in Doc, WorkerDies(d), UNCHANGED faults PROVE RagInv' /\ DoneStays
  BY <1>4, IngestStep DEF WorkerDies, DoneStays
<1>5. ASSUME UNCHANGED faults, (\E d \in Doc : Administer(d)) \/ DropVectors \/ DropRows
      PROVE  RagInv' /\ DoneStays
  BY <1>5, AdminStep DEF DoneStays
<1> QED
  BY <1>1, <1>2, <1>3, <1>4, <1>5 DEF RagNext, Request

-----------------------------------------------------------------------------
(* Theorems about RagIngestion *)

\* The invariant of a collection's uploads.
THEOREM Ingestion == RagSpec => []RagInv
<1>1. RagInit => RagInv
  BY InitTied
<1>2. RagInv /\ [RagNext]_ragVars => RagInv'
  BY NextInv
<1> QED
  BY <1>1, <1>2, PTL DEF RagSpec

\* Rows, tasks, files and vectors stay what the model says they are, and a task
\* only removes a document that it has found.
THEOREM RagTypeCorrect == RagSpec => []RagTypeOK
<1>1. RagInv => RagTypeOK
  BY DEF RagInv
<1> QED
  BY <1>1, Ingestion, PTL

\* A done row knows its vectors, and a row in error has no ingestion under way,
\* whatever fails and however uploads, tasks, retries and deletions interleave.
THEOREM RowsHoldTrue == RagSpec => []RowsAreTrue
<1>1. RagInv => RowsAreTrue
  BY DEF RagInv, Tied, DoneIsOver, ErrorIsOver, RowsAreTrue, DoneCanBeErased, ErrorsAreIdle, Running
<1> QED
  BY <1>1, Ingestion, PTL

\* No step takes a finished document back to processing or to an error.
THEOREM DoneHolds == RagSpec => DoneIsFinal
<1>1. RagInv /\ [RagNext]_ragVars => [DoneStays]_row
  BY NextInv
<1>2. [DoneStays]_row => [\A d \in Doc : row[d] = "done" => row'[d] \in {"done", "deleted"}]_row
  BY DEF DoneStays
<1> QED
  BY <1>1, <1>2, Ingestion, PTL DEF RagSpec, DoneIsFinal

-----------------------------------------------------------------------------
(* SyncSources: what ties a job to its source and to its log.               *)

\* Who dispatched a job, what it syncs and which log it uses.
Origins(j) ==
  /\ pc[j] = "free" <=> origin[j] = "none"
  /\ pc[j] = "free" => of[j] = None /\ uses[j] = None /\ log[j] = "none"
  /\ pc[j] # "free" => of[j] # None
  /\ of[j] = Local => origin[j] = "request"
  /\ origin[j] \in {"request", "task"} => uses[j] = j
  /\ origin[j] = "schedule" => uses[j] # j

\* A log of another job is the one that trigger_sync made for a scheduled job.
Borrowed(j) ==
  uses[j] \in Job /\ uses[j] # j =>
    /\ origin[j] = "schedule" /\ origin[uses[j]] = "task"
    /\ of[j] \in Source /\ of[uses[j]] = of[j]

\* Where a job is, against its source and its log.
Places(j) ==
  /\ pc[j] \in {"commit", "files", "report"} => of[j] \in Source
  /\ pc[j] \in {"check", "file", "fail"} => of[j] = Local
  /\ pc[j] = "commit" => origin[j] = "schedule" /\ log[uses[j]] = "pending"
  /\ pc[j] = "report" => Committed(uses[j])
  /\ pc[j] = "file" => left[j] > 0

\* A local job that looked at a file too late sees it before the next.
Punctual(j) ==
  /\ late[j] <= 1
  /\ pc[j] \in {"free", "queued", "file"} => late[j] = 0
  /\ pc[j] = "check" /\ late[j] = 1 => log[j] = "cancelled"

CancelSeen == cancel # None => Committed(cancel)

Shape == \A j \in Job : Origins(j) /\ Borrowed(j) /\ Places(j) /\ Punctual(j)

\* A log has at most one user beside the job it was made for.
OneBorrower ==
  \A i, j \in Job : uses[i] \in Job /\ uses[i] = uses[j] /\ uses[i] # i /\ uses[j] # j => i = j

IInv == TypeOK /\ Shape /\ CancelSeen /\ OneBorrower

LEMMA NoneIsNoJob == None \notin Job
  BY SyncAssumption DEF Job

\* Nothing refers to a job that was not dispatched.
LEMMA Unused ==
  ASSUME IInv, NEW j \in Job, pc[j] = "free"
  PROVE  /\ uses[j] = None /\ origin[j] = "none" /\ log[j] = "none" /\ late[j] = 0
         /\ \A i \in Job : uses[i] # j
<1>1. uses[j] = None /\ origin[j] = "none" /\ log[j] = "none" /\ late[j] = 0
  BY DEF IInv, Shape, Origins, Punctual
<1>2. ASSUME NEW i \in Job, uses[i] = j PROVE FALSE
  <2>1. i # j
    BY <1>1, <1>2, NoneIsNoJob
  <2>2. Borrowed(i)
    BY DEF IInv, Shape
  <2> QED
    BY <1>1, <1>2, <2>1, <2>2 DEF Borrowed
<1> QED
  BY <1>1, <1>2

\* Steps that leave the jobs, the logs and the cancellation alone.
LEMMA SourceStep ==
  ASSUME IInv,
         \/ Tick
         \/ \E s \in Source : CreateSource(s) \/ Reschedule(s) \/ BeginDelete(s) \/ EndDelete(s)
  PROVE  IInv'
<1>1. UNCHANGED <<origin, of, uses, pc, failed, left, late, log, cancel>>
  BY DEF Tick, CreateSource, Reschedule, BeginDelete, EndDelete, jobVars
<1>2. TypeOK'
  <2>1. CASE Tick
    BY <2>1, <1>1 DEF Tick, IInv, TypeOK
  <2>2. ASSUME NEW s \in Source, CreateSource(s) \/ Reschedule(s) PROVE TypeOK'
    BY <2>2, <1>1 DEF CreateSource, Reschedule, IInv, TypeOK
  <2>3. ASSUME NEW s \in Source, BeginDelete(s) \/ EndDelete(s) PROVE TypeOK'
    BY <2>3, <1>1 DEF BeginDelete, EndDelete, IInv, TypeOK
  <2> QED
    BY <2>1, <2>2, <2>3
<1> QED
  BY <1>1, <1>2
  DEF IInv, Shape, Origins, Borrowed, Places, Punctual, CancelSeen, Committed, OneBorrower

\* The steps of a job that change nothing but where it is, and what it counts.
LEMMA MoveStep ==
  ASSUME IInv, NEW j \in Job,
         \/ Start(j) \/ SyncFiles(j) \/ ReportLog(j) \/ StartLocal(j) \/ Check(j)
  PROVE  IInv'
<1> USE SyncAssumption DEF Job
<1>1. /\ UNCHANGED <<origin, of, uses, log, cancel, late, source, due, last, ticking>>
      /\ \E l \in (Busy \ {"free", "queued", "commit"}) \cup {"ended"} : pc' = [pc EXCEPT ![j] = l]
      /\ pc[j] # "free"
  BY DEF Start, SyncFiles, ReportLog, StartLocal, Check, Goto, Busy, srcVars
<1>2. TypeOK'
  <2>1. uses[j] \in Job
    BY <1>1 DEF Start, SyncFiles, ReportLog, StartLocal, Check, IInv, TypeOK, Busy, Shape, Origins
  <2>2. left' \in [Job -> 0..MaxFiles]
    BY DEF Start, SyncFiles, ReportLog, StartLocal, Check, IInv, TypeOK
  <2>3. failed' \subseteq Job
    BY ZenonT(40) DEF Start, SyncFiles, ReportLog, StartLocal, Check, IInv, TypeOK
  <2>4. pc' \in [Job -> Busy \cup {"free", "ended", "lost"}]
    BY <1>1 DEF IInv, TypeOK
  <2> QED
    BY <1>1, <2>1, <2>2, <2>3, <2>4 DEF IInv, TypeOK
<1>3. \A i \in Job : Origins(i)' /\ Borrowed(i)'
  BY <1>1 DEF IInv, TypeOK, Shape, Origins, Borrowed, Busy
<1>4. \A i \in Job : Places(i)'
  <2>1. ASSUME NEW i \in Job, i # j PROVE Places(i)'
    <3>1. pc'[i] = pc[i] /\ left'[i] = left[i]
      BY <1>1, <2>1 DEF Start, SyncFiles, ReportLog, StartLocal, Check, IInv, TypeOK
    <3> QED
      BY <1>1, <3>1 DEF IInv, Shape, Places, Committed
  <2>2. /\ pc'[j] \in {"files", "report"} => of[j] \in Source
        /\ pc'[j] \in {"check", "file", "fail"} => of[j] = Local
    <3>1. pc \in [Job -> Busy \cup {"free", "ended", "lost"}] /\ Places(j)
      BY DEF IInv, TypeOK, Shape
    <3>2. CASE Start(j) \/ SyncFiles(j) \/ ReportLog(j)
      BY <3>1, <3>2 DEF Start, SyncFiles, ReportLog, Goto, Places
    <3>3. CASE StartLocal(j) \/ Check(j)
      BY <3>1, <3>3 DEF StartLocal, Check, Goto, Places
    <3> QED
      BY <3>2, <3>3
  <2>3. /\ pc'[j] # "commit"
        /\ pc'[j] = "report" => Committed(uses[j])
        /\ pc'[j] = "file" => left'[j] > 0
    BY SMTT(20) DEF Start, SyncFiles, ReportLog, StartLocal, Check, Goto, IInv, TypeOK
  <2>4. Places(j)'
    BY <1>1, <2>2, <2>3 DEF Places, Committed
  <2> QED
    BY <2>1, <2>4
<1>5. \A i \in Job : Punctual(i)'
  BY <1>1 DEF Start, SyncFiles, ReportLog, StartLocal, Check, Goto, IInv, TypeOK, Shape, Places, Origins, Punctual
<1> QED
  BY <1>1, <1>2, <1>3, <1>4, <1>5 DEF IInv, Shape, CancelSeen, Committed, OneBorrower

\* A scheduled job is dispatched without a log.
LEMMA DispatchStep ==
  ASSUME IInv, NEW j \in Job, NEW s \in Source, Dispatch(j, s)
  PROVE  IInv'
<1>1. /\ pc[j] = "free" /\ pc' = [pc EXCEPT ![j] = "queued"]
      /\ origin' = [origin EXCEPT ![j] = "schedule"] /\ of' = [of EXCEPT ![j] = s]
      /\ UNCHANGED <<uses, log, cancel, late, left, failed, source, due, last>>
      /\ ticking' = ticking \ {s}
  BY DEF Dispatch, Queued
<1>2. TypeOK'
  BY <1>1 DEF IInv, TypeOK, Busy
<1>3. /\ uses[j] = None /\ origin[j] = "none" /\ log[j] = "none" /\ late[j] = 0
      /\ \A i \in Job : uses[i] # j
  BY <1>1, Unused
<1>4. \A i \in Job : Origins(i)' /\ Borrowed(i)'
  BY <1>1, <1>3, SyncAssumption, NoneIsNoJob DEF IInv, TypeOK, Shape, Origins, Borrowed
<1>5. \A i \in Job : Places(i)' /\ Punctual(i)'
  BY <1>1, <1>3 DEF IInv, TypeOK, Shape, Origins, Places, Punctual, Committed
<1>6. OneBorrower'
  BY <1>1 DEF IInv, OneBorrower
<1> QED
  BY <1>1, <1>2, <1>4, <1>5, <1>6 DEF IInv, Shape, CancelSeen, Committed

\* A request dispatches a job with a log of its own.
LEMMA TriggerStep ==
  ASSUME IInv, NEW j \in Job, NEW x \in Source \cup {Local}, Trigger(j, x)
  PROVE  IInv'
<1>1. /\ pc[j] = "free" /\ pc' = [pc EXCEPT ![j] = "queued"]
      /\ origin' = [origin EXCEPT ![j] = "request"] /\ of' = [of EXCEPT ![j] = x]
      /\ uses' = [uses EXCEPT ![j] = j] /\ log' = [log EXCEPT ![j] = "pending"]
      /\ UNCHANGED <<cancel, late, left, failed, source, due, last, ticking>>
  BY DEF Trigger, Queued, srcVars
<1>2. /\ uses[j] = None /\ origin[j] = "none" /\ log[j] = "none" /\ late[j] = 0
      /\ \A i \in Job : uses[i] # j
  BY <1>1, Unused
<1>3. TypeOK'
  BY <1>1 DEF IInv, TypeOK, Busy
<1>4. \A i \in Job : Origins(i)'
  BY <1>1, <1>2, SyncAssumption DEF IInv, TypeOK, Shape, Origins
<1>5. \A i \in Job : Borrowed(i)'
  BY <1>1, <1>2 DEF IInv, TypeOK, Shape, Borrowed
<1>6. \A i \in Job : Places(i)'
  BY <1>1, <1>2 DEF IInv, TypeOK, Shape, Places, Committed, Busy
<1>7. \A i \in Job : Punctual(i)'
  BY <1>1, <1>2 DEF IInv, TypeOK, Shape, Punctual
<1>8. OneBorrower'
  BY <1>1, <1>2 DEF IInv, TypeOK, OneBorrower
<1>9. CancelSeen'
  BY <1>1, <1>2 DEF IInv, TypeOK, CancelSeen, Committed, Ended
<1> QED
  BY <1>3, <1>4, <1>5, <1>6, <1>7, <1>8, <1>9 DEF IInv, Shape

\* A scheduled job takes a log, and a job more is dispatched with it.
LEMMA ScheduledStep ==
  ASSUME IInv, NEW k \in Job, StartScheduled(k)
  PROVE  IInv'
<1>1. /\ pc[k] = "queued" /\ of[k] \in Source /\ uses[k] = None
      /\ UNCHANGED <<cancel, late, left, failed, source, due, last, ticking>>
  BY DEF StartScheduled, srcVars
<1>2. origin[k] = "schedule" /\ late[k] = 0
  <2>1. Origins(k) /\ Punctual(k)
    BY DEF IInv, Shape
  <2>2. origin[k] \in {"none", "request", "schedule", "task"}
    BY DEF IInv, TypeOK
  <2> QED
    BY <1>1, <2>1, <2>2, NoneIsNoJob DEF Origins, Punctual
<1>3. ASSUME NEW j \in Job, Queued(j, "task", of[k]),
             uses' = [uses EXCEPT ![j] = j, ![k] = j],
             pc' = [pc EXCEPT ![j] = "queued", ![k] = "commit"],
             log' = [log EXCEPT ![j] = "pending"]
      PROVE  IInv'
  <2>1. /\ pc[j] = "free" /\ j # k
        /\ origin' = [origin EXCEPT ![j] = "task"] /\ of' = [of EXCEPT ![j] = of[k]]
    BY <1>1, <1>3 DEF Queued
  <2>2. /\ uses[j] = None /\ origin[j] = "none" /\ log[j] = "none" /\ late[j] = 0
        /\ \A i \in Job : uses[i] # j
    BY <2>1, Unused
  <2>3. TypeOK'
    BY <1>1, <1>3, <2>1 DEF IInv, TypeOK, Busy
  <2>4. \A i \in Job : Origins(i)'
    BY <1>1, <1>2, <1>3, <2>1, <2>2, SyncAssumption DEF IInv, TypeOK, Shape, Origins
  <2>5. \A i \in Job : Borrowed(i)'
    BY <1>1, <1>2, <1>3, <2>1, <2>2 DEF IInv, TypeOK, Shape, Borrowed
  <2>6. \A i \in Job : Places(i)'
    BY <1>1, <1>2, <1>3, <2>1, <2>2 DEF IInv, TypeOK, Shape, Places, Committed, Busy
  <2>7. \A i \in Job : Punctual(i)'
    BY <1>1, <1>2, <1>3, <2>1, <2>2 DEF IInv, TypeOK, Shape, Punctual
  <2>8. OneBorrower'
    BY <1>1, <1>3, <2>1, <2>2 DEF IInv, TypeOK, OneBorrower
  <2>9. CancelSeen'
    BY <1>1, <1>3, <2>2 DEF IInv, TypeOK, CancelSeen, Committed, Ended
  <2> QED
    BY <2>3, <2>4, <2>5, <2>6, <2>7, <2>8, <2>9 DEF IInv, Shape
<1>4. ASSUME Goto(k, "ended"), UNCHANGED <<origin, of, uses, log>>
      PROVE  IInv'
  <2>1. TypeOK'
    BY <1>1, <1>4 DEF Goto, IInv, TypeOK, Busy
  <2>2. \A i \in Job : Origins(i)' /\ Borrowed(i)'
    BY <1>1, <1>4 DEF Goto, IInv, TypeOK, Shape, Origins, Borrowed
  <2>3. \A i \in Job : Places(i)' /\ Punctual(i)'
    BY <1>1, <1>4 DEF Goto, IInv, TypeOK, Shape, Places, Punctual, Committed
  <2> QED
    BY <1>1, <1>4, <2>1, <2>2, <2>3 DEF IInv, Shape, CancelSeen, Committed, OneBorrower
<1> QED
  BY <1>3, <1>4 DEF StartScheduled

\* A request ends, with its transaction.
LEMMA AnswerStep ==
  ASSUME IInv, NEW j \in Job, Answer(j)
  PROVE  IInv'
<1>1. PICK x \in {"running", "none"} : log' = [log EXCEPT ![j] = x]
  BY DEF Answer
<1>2. /\ origin[j] = "request" /\ log[j] = "pending"
      /\ UNCHANGED <<origin, of, uses, pc, failed, left, late, cancel, source, due, last, ticking>>
  BY DEF Answer, srcVars, jobVars
<1>3. pc[j] # "free"
  BY <1>2 DEF IInv, Shape, Origins
<1>4. TypeOK'
  BY <1>1, <1>2 DEF IInv, TypeOK
<1>5. \A i \in Job : pc[i] = "commit" => uses[i] \in Job /\ uses[i] # j
  <2> SUFFICES ASSUME NEW i \in Job, pc[i] = "commit" PROVE uses[i] \in Job /\ uses[i] # j
    OBVIOUS
  <2>1. uses[i] \in Job
    BY DEF IInv, TypeOK, Busy
  <2>2. origin[i] = "schedule" /\ uses[i] # i
    BY DEF IInv, Shape, Origins, Places
  <2>3. origin[uses[i]] = "task"
    BY <2>1, <2>2 DEF IInv, Shape, Borrowed
  <2> QED
    BY <1>2, <2>1, <2>3
<1>6. \A i \in Job : Origins(i)' /\ Borrowed(i)'
  BY <1>1, <1>2, <1>3 DEF IInv, TypeOK, Shape, Origins, Borrowed
<1>7. \A i \in Job : Places(i)'
  BY <1>1, <1>2, <1>5 DEF IInv, TypeOK, Shape, Places, Committed, Ended, Busy
<1>8. \A i \in Job : Punctual(i)'
  BY <1>1, <1>2 DEF IInv, TypeOK, Shape, Punctual
<1>9. CancelSeen' /\ OneBorrower'
  BY <1>1, <1>2 DEF IInv, TypeOK, CancelSeen, OneBorrower, Committed, Ended
<1> QED
  BY <1>4, <1>6, <1>7, <1>8, <1>9 DEF IInv, Shape

\* The log that a scheduled job took commits, or is rolled back.
LEMMA CommitStartStep ==
  ASSUME IInv, NEW k \in Job, CommitStart(k)
  PROVE  IInv'
<1>1. PICK x \in {"running", "none"}, l \in {"files", "ended"} :
        log' = [log EXCEPT ![uses[k]] = x] /\ pc' = [pc EXCEPT ![k] = l]
  BY DEF CommitStart, Goto
<1>2. /\ pc[k] = "commit"
      /\ UNCHANGED <<origin, of, uses, failed, left, late, cancel, source, due, last, ticking>>
  BY DEF CommitStart, srcVars
<1>3. /\ uses[k] \in Job /\ uses[k] # k /\ origin[k] = "schedule" /\ log[uses[k]] = "pending"
      /\ of[k] \in Source
  BY <1>2 DEF IInv, TypeOK, Busy, Shape, Origins, Places
<1>4. origin[uses[k]] = "task" /\ pc[uses[k]] # "free"
  <2>1. origin[uses[k]] = "task"
    BY <1>3 DEF IInv, Shape, Borrowed
  <2> QED
    BY <1>3, <2>1 DEF IInv, Shape, Origins
<1>5. TypeOK'
  BY <1>1, <1>2, <1>3 DEF IInv, TypeOK, Busy
<1>6. \A i \in Job : pc[i] = "commit" /\ uses[i] = uses[k] => i = k
  BY <1>3 DEF IInv, Shape, Origins, Places, OneBorrower
<1>7. \A i \in Job : Origins(i)' /\ Borrowed(i)'
  BY <1>1, <1>2, <1>3, <1>4 DEF IInv, TypeOK, Shape, Origins, Borrowed
<1>8. \A i \in Job : Places(i)'
  BY <1>1, <1>2, <1>3, <1>6 DEF IInv, TypeOK, Shape, Places, Committed, Ended, Busy
<1>9. \A i \in Job : Punctual(i)'
  BY <1>1, <1>2, <1>3 DEF IInv, TypeOK, Shape, Punctual
<1>10. CancelSeen' /\ OneBorrower'
  BY <1>1, <1>2, <1>3 DEF IInv, TypeOK, CancelSeen, OneBorrower, Committed, Ended
<1> QED
  BY <1>5, <1>7, <1>8, <1>9, <1>10 DEF IInv, Shape

\* A job of a source writes its log, that it has read before.
LEMMA ReportSourceStep ==
  ASSUME IInv, NEW j \in Job, ReportSource(j)
  PROVE  IInv'
<1>1. /\ pc[j] = "report" /\ log' = [log EXCEPT ![uses[j]] = Outcome(j)]
      /\ pc' = [pc EXCEPT ![j] = "ended"]
      /\ UNCHANGED <<origin, of, uses, failed, left, late, cancel, source, ticking>>
  BY DEF ReportSource, Goto
<1>2. uses[j] \in Job /\ of[j] \in Source /\ Committed(uses[j]) /\ Outcome(j) \in Ended
  BY <1>1 DEF IInv, TypeOK, Busy, Shape, Places, Outcome, Ended
<1>3. TypeOK'
  <2>1. last' \in [Source -> {"none", "done", "error"}] /\ due' \subseteq Source
    BY DEF ReportSource, Outcome, IInv, TypeOK
  <2> QED
    BY <1>1, <1>2, <2>1 DEF IInv, TypeOK, Busy
<1>4. \A i \in Job : /\ pc[i] = "commit" => uses[i] # uses[j]
                   /\ pc[i] = "free" => uses[j] # i
  BY <1>1, <1>2 DEF IInv, Shape, Origins, Places, Committed, Ended
<1>5. \A i \in Job : pc[i] = "check" => uses[j] # i
  <2> SUFFICES ASSUME NEW i \in Job, pc[i] = "check", uses[j] = i PROVE FALSE
    OBVIOUS
  <2>1. of[i] = Local /\ i # j
    BY <1>1 DEF IInv, Shape, Places
  <2>2. of[uses[j]] = of[j]
    BY <1>2, <2>1 DEF IInv, Shape, Borrowed
  <2> QED
    BY <1>2, <2>1, <2>2, SyncAssumption
<1>6. \A i \in Job : Origins(i)' /\ Borrowed(i)'
  BY <1>1, <1>2, <1>4 DEF IInv, TypeOK, Shape, Origins, Borrowed
<1>7. \A i \in Job : Places(i)'
  BY <1>1, <1>2, <1>4 DEF IInv, TypeOK, Shape, Places, Committed, Ended, Busy
<1>8. \A i \in Job : Punctual(i)'
  BY <1>1, <1>2, <1>5 DEF IInv, TypeOK, Shape, Punctual
<1>9. CancelSeen' /\ OneBorrower'
  BY <1>1, <1>2 DEF IInv, TypeOK, CancelSeen, OneBorrower, Committed
<1> QED
  BY <1>3, <1>6, <1>7, <1>8, <1>9 DEF IInv, Shape

\* A local job looks at a file.
LEMMA OneFileStep ==
  ASSUME IInv, NEW j \in Job, OneFile(j)
  PROVE  IInv'
<1>1. /\ pc[j] = "file" /\ left' = [left EXCEPT ![j] = @ - 1]
      /\ late' = [late EXCEPT ![j] = IF log[uses[j]] = "cancelled" THEN @ + 1 ELSE @]
      /\ UNCHANGED <<origin, of, uses, log, cancel, source, due, last, ticking>>
      /\ failed' \in {failed, failed \cup {j}}
  BY DEF OneFile, srcVars
<1>2. PICK l \in {"check", "fail"} : pc' = [pc EXCEPT ![j] = l]
  BY DEF OneFile, Goto
<1>3. of[j] = Local /\ uses[j] = j /\ late[j] = 0 /\ left[j] \in 1..MaxFiles
  BY <1>1, SyncAssumption DEF IInv, TypeOK, Shape, Origins, Places, Punctual
<1>4. TypeOK'
  <2>1. left' \in [Job -> 0..MaxFiles] /\ late' \in [Job -> 0..MaxFiles]
    BY <1>1, <1>3, SyncAssumption DEF IInv, TypeOK
  <2> QED
    BY <1>1, <1>2, <1>3, <2>1 DEF IInv, TypeOK, Busy
<1>5. \A i \in Job : Origins(i)' /\ Borrowed(i)'
  BY <1>1, <1>2, <1>3 DEF IInv, TypeOK, Shape, Origins, Borrowed
<1>6. \A i \in Job : Places(i)'
  BY <1>1, <1>2, <1>3 DEF IInv, TypeOK, Shape, Places, Committed, Busy
<1>7. \A i \in Job : Punctual(i)'
  BY <1>1, <1>2, <1>3 DEF IInv, TypeOK, Shape, Punctual
<1> QED
  BY <1>1, <1>4, <1>5, <1>6, <1>7 DEF IInv, Shape, CancelSeen, OneBorrower, Committed

\* A local job writes its log, if it finds it.
LEMMA CompleteStep ==
  ASSUME IInv, NEW j \in Job, Complete(j) \/ Fail(j)
  PROVE  IInv'
<1>1. /\ pc[j] \in {"finish", "fail"} /\ of[j] = Local
      /\ UNCHANGED <<origin, of, uses, failed, left, late, cancel, source, due, last, ticking>>
  BY DEF Complete, Fail, srcVars, IInv, Shape, Places
<1>2. uses[j] = j
  BY <1>1 DEF IInv, Shape, Origins
<1>3. PICK l \in {"ended", "fail"} : pc' = [pc EXCEPT ![j] = l]
  BY DEF Complete, Fail, Goto
<1>4. log' = log \/ (Committed(j) /\ \E x \in Ended : log' = [log EXCEPT ![j] = x])
  <2>1. CASE Complete(j)
    BY <2>1, <1>2 DEF Complete, Outcome, Ended
  <2>2. CASE Fail(j)
    <3>1. log' = [log EXCEPT ![j] = IF Committed(j) THEN "error" ELSE @]
      BY <2>2, <1>2 DEF Fail
    <3>2. CASE Committed(j)
      BY <3>1, <3>2 DEF Ended
    <3>3. CASE ~Committed(j)
      BY <3>1, <3>3 DEF IInv, TypeOK
    <3> QED
      BY <3>2, <3>3
  <2> QED
    BY <2>1, <2>2
<1>5. TypeOK'
  BY <1>1, <1>2, <1>3, <1>4 DEF IInv, TypeOK, Busy
<1>6. \A i \in Job : Origins(i)' /\ Borrowed(i)'
  BY <1>1, <1>2, <1>3, <1>4 DEF IInv, TypeOK, Shape, Origins, Borrowed, Committed, Ended
<1>7. \A i \in Job : Places(i)'
  BY <1>1, <1>2, <1>3, <1>4 DEF IInv, TypeOK, Shape, Places, Committed, Ended, Busy
<1>8. \A i \in Job : Punctual(i)'
  BY <1>1, <1>2, <1>3, <1>4 DEF IInv, TypeOK, Shape, Punctual
<1>9. CancelSeen' /\ OneBorrower'
  BY <1>1, <1>4 DEF IInv, TypeOK, CancelSeen, OneBorrower, Committed
<1> QED
  BY <1>5, <1>6, <1>7, <1>8, <1>9 DEF IInv, Shape

\* A job is lost, and its transaction with it.
LEMMA CrashStep ==
  ASSUME IInv, NEW j \in Job, Crash(j)
  PROVE  IInv'
<1>1. /\ pc[j] \in Busy /\ pc' = [pc EXCEPT ![j] = "lost"]
      /\ UNCHANGED <<origin, of, uses, failed, left, late, cancel, source, due, last, ticking>>
  BY DEF Crash, Goto, srcVars
<1>2. TypeOK' /\ \A i \in Job : Origins(i)' /\ Borrowed(i)' /\ Places(i)' /\ Punctual(i)'
  <2>1. CASE pc[j] = "commit"
    <3>1. log' = [log EXCEPT ![uses[j]] = "none"]
      BY <2>1 DEF Crash
    <3>2. /\ uses[j] \in Job /\ uses[j] # j /\ log[uses[j]] = "pending"
          /\ origin[uses[j]] = "task" /\ pc[uses[j]] # "free"
      BY <2>1 DEF IInv, TypeOK, Busy, Shape, Origins, Places, Borrowed
    <3>3. \A i \in Job : pc[i] = "commit" /\ uses[i] = uses[j] => i = j
      BY <2>1, <3>2 DEF IInv, Shape, Origins, Places, OneBorrower
    <3>4. TypeOK'
      BY <1>1, <3>1, <3>2 DEF IInv, TypeOK, Busy
    <3>5. \A i \in Job : Origins(i)' /\ Borrowed(i)'
      BY <1>1, <2>1, <3>1, <3>2 DEF IInv, TypeOK, Shape, Origins, Borrowed
    <3>6. \A i \in Job : Places(i)'
      BY <1>1, <3>1, <3>2, <3>3 DEF IInv, TypeOK, Shape, Places, Committed, Ended, Busy
    <3>7. \A i \in Job : Punctual(i)'
      BY <1>1, <3>1, <3>2 DEF IInv, TypeOK, Shape, Punctual
    <3> QED
      BY <3>4, <3>5, <3>6, <3>7
  <2>2. CASE pc[j] # "commit"
    <3>1. log' = log
      BY <2>2 DEF Crash
    <3>2. TypeOK'
      BY <1>1, <3>1 DEF IInv, TypeOK, Busy
    <3>3. \A i \in Job : Origins(i)' /\ Borrowed(i)'
      BY <1>1, <3>1 DEF IInv, TypeOK, Shape, Origins, Borrowed, Busy
    <3>4. \A i \in Job : Places(i)' /\ Punctual(i)'
      BY <1>1, <3>1 DEF IInv, TypeOK, Shape, Places, Punctual, Committed, Busy
    <3> QED
      BY <3>2, <3>3, <3>4
  <2> QED
    BY <2>1, <2>2
<1>3. CancelSeen'
  BY <1>1 DEF Crash, IInv, TypeOK, Shape, Places, CancelSeen, Committed, Ended
<1> QED
  BY <1>1, <1>2, <1>3 DEF IInv, Shape, OneBorrower

\* The request to cancel a log reads it as running, and then writes it.
LEMMA CancelStep ==
  ASSUME IInv, NEW l \in Job, CancelRead(l) \/ CancelWrite(l)
  PROVE  IInv'
<1>1. UNCHANGED <<origin, of, uses, pc, failed, left, late, source, due, last, ticking>>
  BY DEF CancelRead, CancelWrite, srcVars, jobVars
<1>2. CASE CancelRead(l)
  <2>1. log[l] = "running" /\ cancel' = l /\ log' = log
    BY <1>2 DEF CancelRead
  <2> QED
    BY <1>1, <2>1
    DEF IInv, TypeOK, Shape, Origins, Borrowed, Places, Punctual, CancelSeen, OneBorrower, Committed
<1>3. CASE CancelWrite(l)
  <2>1. cancel = l /\ cancel' = None /\ log' = [log EXCEPT ![l] = "cancelled"]
    BY <1>3 DEF CancelWrite
  <2>2. Committed(l)
    BY <2>1, NoneIsNoJob DEF IInv, CancelSeen
  <2>3. TypeOK' /\ CancelSeen'
    BY <1>1, <2>1 DEF IInv, TypeOK, CancelSeen, Ended
  <2>4. \A i \in Job : Origins(i)' /\ Borrowed(i)'
    BY <1>1, <2>1, <2>2 DEF IInv, TypeOK, Shape, Origins, Borrowed, Committed, Ended
  <2>5. \A i \in Job : Places(i)' /\ Punctual(i)'
    BY <1>1, <2>1, <2>2 DEF IInv, TypeOK, Shape, Places, Punctual, Committed, Ended
  <2> QED
    BY <1>1, <2>3, <2>4, <2>5 DEF IInv, Shape, OneBorrower
<1> QED
  BY <1>2, <1>3

\* The database aborts the DELETE, or the transaction of the job.
LEMMA DeadlockStep ==
  ASSUME IInv, NEW s \in Source, BreakDeadlock(s)
  PROVE  IInv'
<1>1. /\ UNCHANGED <<origin, of, uses, log, failed, left, late, cancel, due, last, ticking>>
      /\ \/ source' = [source EXCEPT ![s] = "present"] /\ pc' = pc
         \/ source' = source /\ \E j \in Job : pc[j] = "report" /\ pc' = [pc EXCEPT ![j] = "lost"]
  BY DEF BreakDeadlock
<1>2. TypeOK'
  BY <1>1 DEF IInv, TypeOK, Busy
<1>3. \A i \in Job : Origins(i)' /\ Borrowed(i)'
  BY <1>1 DEF IInv, TypeOK, Shape, Origins, Borrowed
<1>4. \A i \in Job : Places(i)' /\ Punctual(i)'
  BY <1>1 DEF IInv, TypeOK, Shape, Places, Punctual, Committed
<1> QED
  BY <1>1, <1>2, <1>3, <1>4 DEF IInv, Shape, CancelSeen, OneBorrower, Committed

-----------------------------------------------------------------------------
LEMMA Starts == Init => IInv
<1> SUFFICES ASSUME Init PROVE IInv
  OBVIOUS
<1>1. TypeOK
  BY SyncAssumption DEF Init, TypeOK, Busy
<1>2. Shape
  BY SyncAssumption, NoneIsNoJob DEF Init, Shape, Origins, Borrowed, Places, Punctual
<1> QED
  BY <1>1, <1>2, NoneIsNoJob DEF Init, IInv, CancelSeen, OneBorrower

LEMMA Steps == IInv /\ [Next]_vars => IInv'
<1> SUFFICES ASSUME IInv, [Next]_vars PROVE IInv'
  OBVIOUS
<1>1. CASE UNCHANGED vars
  BY <1>1
  DEF vars, IInv, TypeOK, Shape, Origins, Borrowed, Places, Punctual, CancelSeen, OneBorrower, Committed
<1>2. CASE Tick
  BY <1>2, SourceStep
<1>3. ASSUME NEW s \in Source,
             CreateSource(s) \/ Reschedule(s) \/ BeginDelete(s) \/ Settle(s)
      PROVE  IInv'
  BY <1>3, SourceStep, DeadlockStep DEF Settle
<1>4. ASSUME NEW j \in Job, Work(j) PROVE IInv'
  BY <1>4, MoveStep, ScheduledStep, CommitStartStep, ReportSourceStep, OneFileStep, CompleteStep
  DEF Work
<1>5. ASSUME NEW j \in Job,
             \/ \E x \in Source \cup {Local} : Trigger(j, x)
             \/ \E s \in Source : Dispatch(j, s)
             \/ Answer(j) \/ Crash(j) \/ CancelRead(j) \/ CancelWrite(j)
      PROVE  IInv'
  BY <1>5, TriggerStep, DispatchStep, AnswerStep, CrashStep, CancelStep
<1> QED
  BY <1>1, <1>2, <1>3, <1>4, <1>5 DEF Next

LEMMA Inductive == Spec => []IInv
  BY Starts, Steps, PTL DEF Spec

\* Every state of the syncs is one that the types describe.
THEOREM TypeCorrect == Spec => []TypeOK
<1>1. IInv => TypeOK
  BY DEF IInv
<1> QED
  BY <1>1, Inductive, PTL

\* A local sync looks at no more than one file after its log was cancelled,
\* however many files there are.
THEOREM CancelStops == Spec => []CancelStopsSoon
<1>1. IInv => CancelStopsSoon
  BY DEF IInv, Shape, Punctual, CancelStopsSoon
<1> QED
  BY <1>1, Inductive, PTL

\* Two jobs report to one log only when one is scheduled and the other is the
\* job that trigger_sync dispatched for it.
THEOREM LogsShared == Spec => []LogsAreShared
<1>1. IInv => LogsAreShared
  <2> SUFFICES ASSUME IInv, NEW i \in Job, NEW j \in Job,
                      i # j, uses[i] = uses[j], uses[i] # None
               PROVE  {origin[i], origin[j]} = {"schedule", "task"}
    BY DEF LogsAreShared
  <2>1. uses[i] \in Job /\ uses[j] \in Job /\ Borrowed(i) /\ Borrowed(j)
    BY DEF IInv, TypeOK, Shape
  <2>2. (uses[i] = i /\ uses[j] # j) \/ (uses[i] # i /\ uses[j] = j)
    BY <2>1 DEF IInv, OneBorrower
  <2>3. CASE uses[i] = i /\ uses[j] # j
    BY <2>1, <2>3 DEF Borrowed
  <2>4. CASE uses[i] # i /\ uses[j] = j
    BY <2>1, <2>4 DEF Borrowed
  <2> QED
    BY <2>2, <2>3, <2>4
<1> QED
  BY <1>1, Inductive, PTL

-----------------------------------------------------------------------------
(* What happens to a log.                                                   *)

\* Every step that changes a log: it is made, it commits or is rolled back, it
\* is cancelled, or one of its jobs ends with what it counted.
Written(l) ==
  \/ log'[l] = log[l]
  \/ log[l] \in {"none", "pending"} /\ log'[l] \in {"none", "pending", "running"}
  \/ Committed(l) /\ log'[l] = "cancelled"
  \/ Committed(l) /\ of[l] = Local /\ log'[l] = "error"
  \/ /\ Committed(l)
     /\ \E j \in Job : /\ of[l] = Local \/ ReportSource(j)
                      /\ uses[j] = l /\ log'[l] = Outcome(j) /\ pc'[j] = "ended"
                      /\ uses' = uses /\ failed' = failed

LEMMA LogWritten ==
  ASSUME IInv, [Next]_vars, NEW l \in Job
  PROVE  Written(l)
<1> USE DEF IInv, TypeOK
<1>1. CASE UNCHANGED log
  BY <1>1 DEF Written
<1>2. ASSUME NEW j \in Job, NEW x \in Source \cup {Local}, Trigger(j, x) PROVE Written(l)
  <2>1. log[j] = "none" /\ log' = [log EXCEPT ![j] = "pending"]
    BY <1>2, Unused DEF Trigger, Queued
  <2> QED
    BY <2>1 DEF Written
<1>3. ASSUME NEW j \in Job, Answer(j) PROVE Written(l)
  BY <1>3 DEF Answer, Written
<1>4. ASSUME NEW k \in Job, StartScheduled(k), log' # log PROVE Written(l)
  <2>1. PICK j \in Job : pc[j] = "free" /\ log' = [log EXCEPT ![j] = "pending"]
    BY <1>4 DEF StartScheduled, Queued
  <2>2. log[j] = "none"
    BY <2>1, Unused
  <2> QED
    BY <2>1, <2>2 DEF Written
<1>5. ASSUME NEW k \in Job, CommitStart(k) \/ (Crash(k) /\ pc[k] = "commit") PROVE Written(l)
  <2>1. uses[k] \in Job /\ log[uses[k]] = "pending"
    BY <1>5 DEF CommitStart, Crash, Busy, Shape, Places
  <2>2. \E x \in {"none", "running"} : log' = [log EXCEPT ![uses[k]] = x]
    BY <1>5 DEF CommitStart, Crash
  <2> QED
    BY <2>1, <2>2 DEF Written
<1>6. ASSUME NEW j \in Job, ReportSource(j) PROVE Written(l)
  <2>1. /\ pc[j] = "report" /\ log' = [log EXCEPT ![uses[j]] = Outcome(j)]
        /\ pc'[j] = "ended" /\ uses' = uses /\ failed' = failed
    BY <1>6 DEF ReportSource, Goto
  <2>2. uses[j] \in Job /\ Committed(uses[j])
    BY <2>1 DEF Busy, Shape, Places
  <2> QED
    BY <1>6, <2>1, <2>2 DEF Written
<1>7. ASSUME NEW j \in Job, Complete(j), log' # log PROVE Written(l)
  <2>1. /\ pc[j] = "finish" /\ log' = [log EXCEPT ![uses[j]] = Outcome(j)]
        /\ pc'[j] = "ended" /\ uses' = uses /\ failed' = failed /\ Committed(uses[j])
    BY <1>7 DEF Complete, Goto
  <2>2. uses[j] \in Job /\ of[uses[j]] = Local
    BY <1>7, <2>1 DEF Complete, Busy, Shape, Origins
  <2> QED
    BY <2>1, <2>2 DEF Written
<1>8. ASSUME NEW j \in Job, Fail(j) PROVE Written(l)
  <2>1. /\ uses[j] \in Job /\ of[uses[j]] = Local
        /\ log' = [log EXCEPT ![uses[j]] = IF Committed(uses[j]) THEN "error" ELSE @]
    BY <1>8 DEF Fail, Busy, Shape, Origins, Places
  <2> QED
    BY <2>1 DEF Written
<1>9. ASSUME NEW i \in Job, CancelWrite(i) PROVE Written(l)
  <2>1. Committed(i) /\ log' = [log EXCEPT ![i] = "cancelled"]
    BY <1>9, NoneIsNoJob DEF CancelWrite, CancelSeen
  <2> QED
    BY <2>1 DEF Written
<1> QED
  <2>1. ASSUME NEW j \in Job, Work(j) PROVE Written(l)
    BY <2>1, <1>1, <1>4, <1>5, <1>6, <1>7, <1>8
    DEF Work, Start, SyncFiles, ReportLog, StartLocal, Check, OneFile
  <2>2. ASSUME NEW j \in Job, Crash(j) PROVE Written(l)
    BY <2>2, <1>1, <1>5 DEF Crash
  <2>3. ASSUME NEW s \in Source, CreateSource(s) \/ Reschedule(s) \/ BeginDelete(s) \/ Settle(s)
        PROVE  Written(l)
    BY <2>3, <1>1 DEF CreateSource, Reschedule, BeginDelete, Settle, EndDelete, BreakDeadlock
  <2>4. ASSUME NEW j \in Job, NEW s \in Source, Dispatch(j, s) PROVE Written(l)
    BY <2>4, <1>1 DEF Dispatch
  <2>5. ASSUME NEW j \in Job, CancelRead(j) PROVE Written(l)
    BY <2>5, <1>1 DEF CancelRead
  <2>6. ASSUME Tick \/ UNCHANGED vars PROVE Written(l)
    BY <2>6, <1>1 DEF Tick, vars
  <2> QED
    BY <1>2, <1>3, <1>9, <2>1, <2>2, <2>3, <2>4, <2>5, <2>6 DEF Next

\* A log that has ended stays ended, whatever its jobs and a cancellation do.
THEOREM EndedStay == Spec => EndedLogsStay
<1>1. IInv /\ [Next]_vars => [\A l \in Job : log[l] \in Ended => log'[l] \in Ended]_log
  BY LogWritten DEF Written, Outcome, Ended
<1> QED
  BY <1>1, Inductive, PTL DEF Spec, EndedLogsStay

-----------------------------------------------------------------------------
(* What a log says is what its job did.                                     *)

\* A job that has ended stays as it is.
LEMMA EndedJobs ==
  ASSUME IInv, [Next]_vars, NEW i \in Job, pc[i] = "ended"
  PROVE  pc'[i] = "ended" /\ uses'[i] = uses[i] /\ (i \in failed' => i \in failed)
<1> USE DEF IInv, TypeOK
<1>1. ASSUME NEW j \in Job, Work(j)
      PROVE  pc'[i] = "ended" /\ uses'[i] = uses[i] /\ (i \in failed' => i \in failed)
  <2>1. ASSUME StartScheduled(j)
        PROVE  pc'[i] = "ended" /\ uses'[i] = uses[i] /\ failed' = failed
    BY <2>1 DEF StartScheduled, Queued, Goto
  <2> QED
    BY <1>1, <2>1
    DEF Work, Start, SyncFiles, ReportLog, ReportSource, CommitStart, StartLocal, Check, OneFile,
        Complete, Fail, Goto
<1>2. ASSUME NEW j \in Job,
             \/ \E x \in Source \cup {Local} : Trigger(j, x)
             \/ \E s \in Source : Dispatch(j, s)
             \/ Answer(j) \/ Crash(j) \/ CancelRead(j) \/ CancelWrite(j)
      PROVE  pc'[i] = "ended" /\ uses'[i] = uses[i] /\ failed' = failed
  BY <1>2 DEF Trigger, Dispatch, Queued, Answer, Crash, Goto, Busy, CancelRead, CancelWrite, jobVars
<1>3. ASSUME NEW s \in Source, CreateSource(s) \/ Reschedule(s) \/ BeginDelete(s) \/ Settle(s)
      PROVE  pc'[i] = "ended" /\ uses'[i] = uses[i] /\ failed' = failed
  BY <1>3 DEF CreateSource, Reschedule, BeginDelete, Settle, EndDelete, BreakDeadlock, jobVars
<1>4. ASSUME Tick \/ UNCHANGED vars
      PROVE  pc'[i] = "ended" /\ uses'[i] = uses[i] /\ failed' = failed
  BY <1>4 DEF Tick, vars, jobVars
<1> QED
  BY <1>1, <1>2, <1>3, <1>4 DEF Next

\* A log says done only when a job of it ended without a failed file.
THEOREM DoneEarned == Spec => []DoneIsEarned
<1>1. Init => DoneIsEarned
  BY DEF Init, DoneIsEarned
<1>2. IInv /\ DoneIsEarned /\ [Next]_vars => DoneIsEarned'
  <2> SUFFICES ASSUME IInv, DoneIsEarned, [Next]_vars, NEW l \in Job, log'[l] = "done"
               PROVE  \E j \in Job : uses'[j] = l /\ pc'[j] = "ended" /\ j \notin failed'
    BY DEF DoneIsEarned
  <2>1. CASE log[l] = "done"
    BY <2>1, EndedJobs DEF DoneIsEarned
  <2>2. CASE log[l] # "done"
    BY <2>2, LogWritten DEF Written, Outcome
  <2> QED
    BY <2>1, <2>2
<1> QED
  BY <1>1, <1>2, Inductive, PTL DEF Spec

\* The last status of a source is that of a log of the source, or the log was
\* cancelled after it.
THEOREM StatusReported == Spec => []StatusIsReported
<1> DEFINE FilesKept == \A s \in Source : source[s] \in {"none", "deleted"} => last[s] = "none"
<1>1. Init => FilesKept /\ StatusIsReported
  BY DEF Init, StatusIsReported
<1>2. IInv /\ FilesKept /\ [Next]_vars => FilesKept'
  <2> SUFFICES ASSUME IInv, FilesKept, [Next]_vars PROVE FilesKept'
    OBVIOUS
  <2> USE DEF IInv, TypeOK
  <2>1. CASE UNCHANGED <<source, last>>
    BY <2>1
  <2>2. ASSUME NEW j \in Job, ReportSource(j) PROVE FilesKept'
    BY <2>2 DEF ReportSource
  <2>3. ASSUME NEW s \in Source, CreateSource(s) \/ BeginDelete(s) \/ EndDelete(s) \/ BreakDeadlock(s)
        PROVE  FilesKept'
    BY <2>3 DEF CreateSource, BeginDelete, EndDelete, BreakDeadlock
  <2> QED
    BY <2>1, <2>2, <2>3
    DEF Next, vars, srcVars, Reschedule, Settle, Tick, Trigger, Dispatch, Answer, CancelRead, CancelWrite,
        Crash, Work, Start, StartScheduled, CommitStart, SyncFiles, ReportLog, StartLocal, Check,
        OneFile, Complete, Fail
<1>3. IInv /\ FilesKept /\ StatusIsReported /\ [Next]_vars => StatusIsReported'
  <2> SUFFICES ASSUME IInv, FilesKept, StatusIsReported, [Next]_vars,
                      NEW s \in Source, last'[s] # "none"
               PROVE  \E l \in Job : of'[l] = s /\ log'[l] \in {last'[s], "cancelled"}
    BY DEF StatusIsReported
  <2> USE DEF IInv, TypeOK
  <2>1. ASSUME NEW j \in Job, ReportSource(j)
        PROVE  \E l \in Job : of'[l] = s /\ log'[l] \in {last'[s], "cancelled"}
    <3>1. /\ pc[j] = "report" /\ source[of[j]] # "deleting" /\ of' = of
          /\ log' = [log EXCEPT ![uses[j]] = Outcome(j)]
          /\ last' = IF source[of[j]] = "present" THEN [last EXCEPT ![of[j]] = Outcome(j)] ELSE last
      BY <2>1 DEF ReportSource
    <3>2. uses[j] \in Job /\ of[j] \in Source /\ of[uses[j]] = of[j]
      BY <3>1 DEF Busy, Shape, Borrowed, Places
    <3>3. CASE s = of[j]
      <4>1. source[s] = "present"
        BY <3>1, <3>2, <3>3
      <4> QED
        BY <3>1, <3>2, <3>3, <4>1
    <3>4. CASE s # of[j]
      BY <3>1, <3>2, <3>4 DEF StatusIsReported
    <3> QED
      BY <3>3, <3>4
  <2>2. ASSUME \A j \in Job : ~ReportSource(j)
        PROVE  \E l \in Job : of'[l] = s /\ log'[l] \in {last'[s], "cancelled"}
    <3>1. last'[s] = last[s]
      <4>1. ASSUME NEW x \in Source, CreateSource(x) \/ BeginDelete(x) \/ EndDelete(x) \/ BreakDeadlock(x)
            PROVE  last'[s] = last[s]
        BY <4>1 DEF CreateSource, BeginDelete, EndDelete, BreakDeadlock
      <4> QED
        BY <2>2, <4>1
        DEF Next, vars, srcVars, Reschedule, Settle, Tick, Trigger, Dispatch, Answer, CancelRead,
            CancelWrite, Crash, Work, Start, StartScheduled, CommitStart, SyncFiles, ReportLog,
            StartLocal, Check, OneFile, Complete, Fail
    <3>2. PICK l \in Job : of[l] = s /\ log[l] \in {last[s], "cancelled"}
      BY <3>1 DEF StatusIsReported
    <3>3. log[l] \in Ended /\ of[l] # Local /\ pc[l] # "free"
      BY <3>1, <3>2, SyncAssumption DEF Ended, Shape, Origins
    <3>4. log'[l] \in {log[l], "cancelled"}
      BY <2>2, <3>3, LogWritten DEF Written, Ended
    <3>5. of'[l] = of[l]
      <4>1. ASSUME NEW j \in Job, NEW o \in {"request", "schedule", "task"}, NEW x, Queued(j, o, x)
            PROVE  of'[l] = of[l]
        BY <4>1, <3>3 DEF Queued
      <4> QED
        BY <4>1
        DEF Next, vars, srcVars, jobVars, CreateSource, Reschedule, BeginDelete, EndDelete,
            BreakDeadlock, Settle, Tick, Trigger, Dispatch, Answer, CancelRead, CancelWrite, Crash,
            Work, Start, StartScheduled, CommitStart, SyncFiles, ReportLog, ReportSource,
            StartLocal, Check, OneFile, Complete, Fail
    <3> QED
      BY <3>1, <3>2, <3>4, <3>5
  <2> QED
    BY <2>1, <2>2
<1> QED
  BY <1>1, <1>2, <1>3, Inductive, PTL DEF Spec

\* What a log or a source reports was earned by a job of the source, and a log is
\* that of one job, or of two of which one runs for the other.
THEOREM ReportsTrue == Spec => []ReportsAreTrue
BY DoneEarned, StatusReported, LogsShared, PTL DEF ReportsAreTrue

-----------------------------------------------------------------------------
(* AdminPages: what a call, a drawer and an export are, and what ties the   *)
(* table, the drawer and the export to what the server has.                 *)

AdminCall ==
  [kind : {"none", "table", "owners", "recent", "patch", "delete"},
   query : Query \cup {Nothing, "active", "admin"}, item : Item \cup {Nothing}, value : BOOLEAN,
   at : {"free", "sent", "ok", "bad"}, rows : Seq(Row), total : 0 .. Cardinality(Item)]

AdminDrawer ==
  [user : Row \cup {Nothing}, open : BOOLEAN, convs : Item \cup {Nothing}, loading : BOOLEAN]

AdminExport ==
  [at : {"idle", "count", "select", "done"}, filter : {"all", "part"}, skip : Nat, total : Nat,
   out : Seq(Item), base : SUBSET Item, lost : BOOLEAN, grown : BOOLEAN]

\* What a call is, from its kind and where it is.
Formed(c) ==
  /\ c.at = "free" <=> c = Idle
  /\ c.kind = "none" <=> c = Idle
  /\ c.kind = "table" => c.query \in Query /\ kind # "export"
  /\ c.kind \in {"recent", "patch", "delete"} => c.item \in Item /\ kind = "users"
  /\ c.kind = "owners" => kind = "conversations"
  /\ c.kind = "patch" /\ c.at = "ok" => Len(c.rows) = 1 /\ c.rows[1].id = c.item
  /\ c.kind = "patch" /\ c.at = "ok" => ~c.rows[1].admin

ViewTyped ==
  /\ kind \in {"users", "conversations", "ratings", "export"}
  /\ filter \in {"all", "part"} /\ page \in 0 .. Cardinality(Item)
  /\ timer \in Query \cup {Nothing} /\ (kind \in {"ratings", "export"} => timer = Nothing)

TableTyped ==
  /\ list \in Seq(Row) /\ total \in Int /\ total <= Cardinality(Item)
  /\ answers \in Query \cup {Nothing}
  /\ loading \in BOOLEAN /\ mixed \in BOOLEAN /\ missed \in BOOLEAN

ServerTyped ==
  /\ changes \in 0 .. MaxChanges /\ stale \in BOOLEAN
  /\ rows \in Seq(Item) /\ IsInjective(rows) /\ ToSet(rows) \subseteq born /\ born \subseteq Item
  /\ flag \in [Item -> BOOLEAN]
  /\ export \in AdminExport /\ (kind # "export" => export = NoExport)
  /\ export.at = "idle" => export = NoExport

DrawerTyped ==
  /\ drawer \in AdminDrawer /\ (drawer.open <=> drawer.user # Nothing)
  /\ kind # "users" => drawer.user = Nothing
  /\ crossed \in BOOLEAN

CallTyped == call \in [Call -> AdminCall] /\ \A k \in Call : Formed(call[k])

AdminTyped == ViewTyped /\ TableTyped /\ ServerTyped /\ DrawerTyped /\ CallTyped

\* A deletion is a change, and takes one from the total when it is answered.
Counts ==
  /\ Cardinality(Flying({"delete"})) <= changes
  /\ Cardinality(Flying({"delete"})) <= total + changes

\* use-admin-conversations counts its fetches.
LoadInv ==
  IF kind = "conversations"
  THEN count = Cardinality(Flying({"table", "owners"})) /\ (loading <=> count > 0)
  ELSE count = 0 /\ (loading => Flying({"table"}) # {})

DrawerInv ==
  /\ drawer.loading => Flying({"recent"}) # {}
  /\ drawer.open /\ ~crossed =>
       /\ \A k \in Flying({"recent"}) : call[k].item = drawer.user.id
       /\ Flying({"recent"}) = {} => drawer.convs \in {drawer.user.id, Nothing}

\* What the table is to show: the items of the page, the number of rows, the flags.
Now == [ids |-> Ids(PageOf(Shown)), hits |-> Len(Hits(filter)), flags |-> flag]

\* The rows l, of n, are right for v.
Right(l, n, v) ==
  /\ Ids(l) \subseteq v.ids /\ n = v.hits
  /\ \A i \in DOMAIN l : l[i].flag = v.flags[l[i].id] /\ (l[i].admin => l[i].id \in Admins)

Patched(l, c) == [i \in DOMAIN l |-> IF l[i].id = c.item THEN c.rows[1] ELSE l[i]]
Without(l, c) == Keep(l, {r \in Row : r.id # c.item})

\* What the table will show once the change c is answered is right.
ChangeRight(c, l, n, v) ==
  /\ c.at = "sent" => Right(l, n, v) /\ (c.kind = "delete" => c.item \in Ids(l))
  /\ c.at = "ok" /\ c.kind = "patch" => Right(Patched(l, c), n, v)
  /\ c.at = "ok" /\ c.kind = "delete" => Right(Without(l, c), n - 1, v)

AtRest ==
  Flying(Changes) = {} /\ ~missed => answers = Shown /\ (~stale => Right(list, total, Now))

Asked ==
  \A k \in Flying({"table"}) :
    /\ call[k].query = Shown
    /\ call[k].at = "ok" /\ ~stale => Right(call[k].rows, call[k].total, Now)

Changed ==
  ~missed => \A k \in Flying({"patch", "delete"}) :
    answers = Shown /\ (~stale => ChangeRight(call[k], list, total, Now))

ViewInv ==
  /\ timer \in {Nothing, Shown}
  /\ ~mixed => \A j, k \in Flying(Changes) : j = k
  /\ kind # "export" /\ ~mixed /\ timer = Nothing => AtRest /\ Asked /\ Changed

ExportOnce(h) ==
  /\ IsInjective(export.out)
  /\ export.at # "done" => \A p \in DOMAIN h : p > export.skip => h[p] \notin ToSet(export.out)

ExportAll(h) ==
  IF export.at = "done" THEN export.base \subseteq ToSet(export.out)
  ELSE /\ export.base \subseteq ToSet(h)
       /\ \A p \in DOMAIN h : h[p] \in export.base => h[p] \in ToSet(export.out) \/ p > export.skip
       /\ export.at = "select" => Len(h) <= export.total

ExportInv ==
  /\ ~export.grown => ExportOnce(Hits(export.filter))
  /\ ~export.lost => ExportAll(Hits(export.filter))

-----------------------------------------------------------------------------
(* AdminPages: calls, rows and pages, and what others do.                   *)

LEMMA IdleAdmin ==
  /\ Idle \in AdminCall /\ Idle.kind = "none" /\ Idle.at = "free" /\ Formed(Idle)
<1>1. <<>> \in Seq(Row) /\ 0 \in 0 .. Cardinality(Item)
  BY AdminAssumption, FS_CardinalityType
<1>2. Idle \in AdminCall
  BY <1>1 DEF Idle, AdminCall
<1> QED
  BY <1>2 DEF Idle, Formed

LEMMA CallFields ==
  ASSUME AdminTyped, NEW k \in Call
  PROVE  /\ call[k] \in AdminCall /\ Formed(call[k])
         /\ call[k].kind \in {"none", "table", "owners", "recent", "patch", "delete"}
         /\ call[k].item \in Item \cup {Nothing} /\ call[k].value \in BOOLEAN
         /\ call[k].at \in {"free", "sent", "ok", "bad"}
         /\ call[k].rows \in Seq(Row) /\ call[k].total \in 0 .. Cardinality(Item)
BY DEF AdminTyped, ViewTyped, TableTyped, ServerTyped, DrawerTyped, CallTyped, AdminCall

\* A call that is changed.
LEMMA CallsTyped ==
  ASSUME AdminTyped, NEW k \in Call, NEW d \in AdminCall, Formed(d), kind' = kind,
         call' = [call EXCEPT ![k] = d]
  PROVE  /\ call' \in [Call -> AdminCall] /\ \A o \in Call : Formed(call[o])'
         /\ call'[k] = d /\ \A o \in Call : o # k => call'[o] = call[o]
<1>1. call \in [Call -> AdminCall] /\ \A o \in Call : Formed(call[o])
  BY DEF AdminTyped, ViewTyped, TableTyped, ServerTyped, DrawerTyped, CallTyped
<1>2. call' \in [Call -> AdminCall] /\ call'[k] = d /\ \A o \in Call : o # k => call'[o] = call[o]
  BY <1>1
<1>3. ASSUME NEW o \in Call PROVE Formed(call[o])'
  BY <1>1, <1>2 DEF Formed
<1> QED
  BY <1>2, <1>3

-----------------------------------------------------------------------------
LEMMA ItemCount ==
  /\ Cardinality(Item) \in Nat /\ Cardinality(Call) \in Nat
  /\ \A T \in SUBSET Item : IsFiniteSet(T) /\ Cardinality(T) \in Nat /\ Cardinality(T) <= Cardinality(Item)
BY AdminAssumption, FS_CardinalityType, FS_Subset

\* The length of a list that has each entry once.
LEMMA LengthCounts ==
  ASSUME NEW S, NEW s \in Seq(S), IsInjective(s)
  PROVE  IsFiniteSet(ToSet(s)) /\ Cardinality(ToSet(s)) = Len(s)
<1>1. s \in [1 .. Len(s) -> ToSet(s)] /\ Len(s) \in Nat
  BY DEF ToSet
<1>2. /\ \A l, m \in 1 .. Len(s) : s[l] = s[m] => l = m
      /\ \A x \in ToSet(s) : \E m \in 1 .. Len(s) : s[m] = x
  BY DEF IsInjective, ToSet
<1> QED
  BY <1>1, <1>2, Counted

LEMMA HitsTyped ==
  ASSUME NEW rs \in Seq(Item), IsInjective(rs), NEW flags, NEW f
  PROVE  /\ HitsIn(rs, flags, f) \in Seq(Item) /\ IsInjective(HitsIn(rs, flags, f))
         /\ ToSet(HitsIn(rs, flags, f)) = {i \in ToSet(rs) : Fits(i, f, flags)}
         /\ Len(HitsIn(rs, flags, f)) \in 0 .. Cardinality(Item)
<1> DEFINE T == {i \in Item : Fits(i, f, flags)}
           h == Keep(rs, T)
<1>1. h \in Seq(Item) /\ ToSet(h) = ToSet(rs) \cap T /\ IsInjective(h)
  BY Kept
<1>2. ToSet(rs) \subseteq Item /\ ToSet(h) \subseteq Item
  BY <1>1, Entries
<1>3. ToSet(h) = {i \in ToSet(rs) : Fits(i, f, flags)}
  BY <1>1, <1>2
<1>4. Cardinality(ToSet(h)) = Len(h) /\ Len(h) \in Nat
  BY <1>1, LengthCounts
<1> HIDE DEF h
<1>5. Len(h) <= Cardinality(Item)
  BY <1>2, <1>4, ItemCount
<1> QED
  BY <1>1, <1>3, <1>4, <1>5, ItemCount DEF h, HitsIn

\* A page, or a chunk, of a list.
LEMMA Sliced ==
  ASSUME NEW S, NEW s \in Seq(S), NEW skip \in Nat, NEW limit \in Nat
  PROVE  /\ Slice(s, skip, limit) \in Seq(S)
         /\ ToSet(Slice(s, skip, limit)) = {s[i] : i \in {j \in DOMAIN s : j > skip /\ j <= skip + limit}}
         /\ IsInjective(s) => IsInjective(Slice(s, skip, limit))
         /\ Slice(s, skip, limit) = <<>> => Len(s) <= skip \/ limit = 0
<1> DEFINE b == Least(skip + limit, Len(s))
<1>1. b \in Nat /\ b <= Len(s) /\ \A j \in DOMAIN s : j <= b <=> j <= skip + limit
  BY DEF Least
<1>2. b = skip + limit \/ b = Len(s)
  BY DEF Least
<1>3. Slice(s, skip, limit) = SubSeq(s, skip + 1, b)
  BY DEF Slice
<1> DEFINE t == SubSeq(s, skip + 1, b)
<1> HIDE DEF b
<1>4. /\ t \in Seq(S) /\ ToSet(t) = {s[i] : i \in skip + 1 .. b}
      /\ Len(t) = IF skip + 1 <= b THEN b - (skip + 1) + 1 ELSE 0
      /\ IsInjective(s) => IsInjective(t)
  <2>1. skip + 1 \in Nat \ {0}
    OBVIOUS
  <2> QED
    BY <1>1, <2>1, Stretch
<1>5. skip + 1 .. b = {j \in DOMAIN s : j > skip /\ j <= skip + limit}
  BY <1>1
<1>6. t = <<>> => Len(s) <= skip \/ limit = 0
  BY <1>1, <1>2, <1>4
<1> QED
  BY <1>3, <1>4, <1>5, <1>6

\* The rows of a page.
LEMMA PageRows ==
  ASSUME AdminTyped, NEW q \in Query
  PROVE  /\ PageOf(q) \in Seq(Row)
         /\ Ids(PageOf(q)) = ToSet(Slice(Hits(q.filter), q.page * PageSize, PageSize))
         /\ \A i \in DOMAIN PageOf(q) :
              /\ PageOf(q)[i].flag = flag[PageOf(q)[i].id]
              /\ PageOf(q)[i].admin => PageOf(q)[i].id \in Admins
         /\ Len(Hits(q.filter)) \in 0 .. Cardinality(Item)
<1> DEFINE ids == Slice(Hits(q.filter), q.page * PageSize, PageSize)
           p == PageOf(q)
<1>1. rows \in Seq(Item) /\ IsInjective(rows) /\ flag \in [Item -> BOOLEAN]
  BY DEF AdminTyped, ViewTyped, TableTyped, ServerTyped, DrawerTyped, CallTyped
<1>2. /\ Hits(q.filter) \in Seq(Item) /\ Len(Hits(q.filter)) \in 0 .. Cardinality(Item)
  BY <1>1, HitsTyped DEF Hits
<1>3. q.page \in Nat /\ PageSize \in Nat /\ q.page * PageSize \in Nat
  <2>1. q.page \in Nat /\ PageSize \in Nat
    BY AdminAssumption, ItemCount DEF Query
  <2> QED
    BY <2>1
<1>4. ids \in Seq(Item)
  BY <1>2, <1>3, Sliced
<1>5. p = [j \in DOMAIN ids |-> RowOf(ids[j])]
  BY DEF PageOf
<1> HIDE DEF ids, p
<1>6. \A j \in DOMAIN ids : ids[j] \in Item
  BY <1>4
<1>7. \A i \in Item :
        /\ RowOf(i) \in Row /\ RowOf(i).id = i /\ RowOf(i).flag = flag[i]
        /\ RowOf(i).admin => i \in Admins
  BY <1>1 DEF RowOf, Row
<1>8. DOMAIN p = DOMAIN ids /\ \A j \in DOMAIN p : p[j] = RowOf(ids[j]) /\ ids[j] \in Item
  BY <1>5, <1>6
<1>9. p \in Seq(Row)
  BY <1>4, <1>5, <1>6, <1>7
<1>10. Ids(p) = ToSet(ids)
  BY <1>7, <1>8 DEF Ids, ToSet
<1>11. \A i \in DOMAIN p : p[i].flag = flag[p[i].id] /\ (p[i].admin => p[i].id \in Admins)
  BY <1>7, <1>8
<1> QED
  BY <1>2, <1>9, <1>10, <1>11 DEF p, ids

-----------------------------------------------------------------------------
\* A call that is sent, one that has an answer, and one that has ended.
LEMMA SentIs ==
  ASSUME AdminTyped, NEW k \in Call, NEW what \in {"table", "owners", "recent", "patch", "delete"},
         NEW query \in Query \cup {Nothing, "active", "admin"}, NEW item \in Item \cup {Nothing},
         NEW value \in BOOLEAN, Sent(k, what, query, item, value),
         what = "table" => query \in Query /\ kind # "export",
         what \in {"recent", "patch", "delete"} => item \in Item /\ kind = "users",
         what = "owners" => kind = "conversations"
  PROVE  \E d \in AdminCall :
           /\ call' = [call EXCEPT ![k] = d] /\ Formed(d)
           /\ d.kind = what /\ d.at = "sent" /\ d.query = query /\ d.item = item
<1> DEFINE d == [Idle EXCEPT !.kind = what, !.at = "sent", !.query = query, !.item = item,
                              !.value = value]
<1>1. call' = [call EXCEPT ![k] = d]
  BY DEF Sent
<1>2. d \in AdminCall
  BY IdleAdmin DEF AdminCall
<1>3. /\ d.kind = what /\ d.at = "sent" /\ d.query = query /\ d.item = item
  BY IdleAdmin DEF AdminCall
<1> HIDE DEF d
<1>4. Formed(d)
  BY <1>3, IdleAdmin DEF Formed
<1> WITNESS d \in AdminCall
<1> QED
  BY <1>1, <1>3, <1>4

LEMMA ReplyIs ==
  ASSUME AdminTyped, NEW k \in Call, NEW at \in {"ok", "bad"}, NEW rs \in Seq(Row),
         NEW n \in 0 .. Cardinality(Item), Reply(k, at, rs, n),
         call[k].kind = "patch" /\ at = "ok" =>
           Len(rs) = 1 /\ rs[1].id = call[k].item /\ ~rs[1].admin
  PROVE  /\ call[k].at = "sent" /\ call[k].kind # "none"
         /\ \E d \in AdminCall :
              /\ call' = [call EXCEPT ![k] = d] /\ Formed(d)
              /\ d.kind = call[k].kind /\ d.at = at /\ d.query = call[k].query
              /\ d.item = call[k].item /\ d.rows = rs /\ d.total = n
<1> DEFINE c == call[k]
           d == [c EXCEPT !.at = at, !.rows = rs, !.total = n]
<1>1. c \in AdminCall /\ Formed(c) /\ call \in [Call -> AdminCall]
  BY DEF AdminTyped, ViewTyped, TableTyped, ServerTyped, DrawerTyped, CallTyped
<1>2. c.at = "sent" /\ call' = [call EXCEPT ![k] = d]
  BY <1>1 DEF Reply
<1>3. d \in AdminCall
  BY <1>1 DEF AdminCall
<1>4. /\ d.kind = c.kind /\ d.at = at /\ d.query = c.query
      /\ d.item = c.item /\ d.rows = rs /\ d.total = n
  BY <1>1 DEF AdminCall
<1>5. c.kind # "none"
  BY <1>1, <1>2, IdleAdmin DEF Formed
<1> HIDE DEF c, d
<1>6. Formed(d)
  <2>1. d # Idle
    BY <1>4, IdleAdmin
  <2> QED
    BY <1>1, <1>4, <1>5, <2>1, IdleAdmin DEF Formed, c
<1> QED
  BY <1>2, <1>3, <1>4, <1>5, <1>6 DEF c

LEMMA GoneIs ==
  ASSUME AdminTyped, NEW k \in Call, Gone(k)
  PROVE  call' = [call EXCEPT ![k] = Idle]
BY DEF Gone

\* The calls of some kinds, when one has changed.
LEMMA FlyingBecomes ==
  ASSUME NEW K, NEW k \in Call, \A o \in Call : o # k => call'[o] = call[o]
  PROVE  Flying(K)' = IF call'[k].kind \in K THEN Flying(K) \cup {k} ELSE Flying(K) \ {k}
<1>1. \A o \in Call : o # k => (o \in Flying(K)' <=> o \in Flying(K))
  BY DEF Flying
<1>2. k \in Flying(K)' <=> call'[k].kind \in K
  BY DEF Flying
<1>3. Flying(K)' \subseteq Call /\ Flying(K) \subseteq Call
  BY DEF Flying
<1> QED
  BY <1>1, <1>2, <1>3

LEMMA FlyingCount ==
  ASSUME NEW K
  PROVE  /\ IsFiniteSet(Flying(K)) /\ Cardinality(Flying(K)) \in 0 .. Cardinality(Call)
         /\ Cardinality(Flying(K)) = 0 <=> Flying(K) = {}
         /\ \A k \in Call :
              /\ k \in Flying(K) => /\ Cardinality(Flying(K) \cup {k}) = Cardinality(Flying(K))
                                    /\ Cardinality(Flying(K) \ {k}) = Cardinality(Flying(K)) - 1
              /\ k \notin Flying(K) => /\ Cardinality(Flying(K) \cup {k}) = Cardinality(Flying(K)) + 1
                                       /\ Cardinality(Flying(K) \ {k}) = Cardinality(Flying(K))
<1>1. Flying(K) \in SUBSET Call
  BY DEF Flying
<1>2. IsFiniteSet(Flying(K)) /\ Cardinality(Flying(K)) <= Cardinality(Call)
  BY <1>1, AdminAssumption, FS_Subset
<1> DEFINE F == Flying(K)
<1> HIDE DEF F
<1>3. IsFiniteSet(F) /\ Cardinality(F) \in 0 .. Cardinality(Call)
  BY <1>2, ItemCount, FS_CardinalityType DEF F
<1>4. Cardinality(F) = 0 <=> F = {}
  BY <1>3, FS_EmptySet
<1>5. \A k \in Call :
        /\ Cardinality(F \cup {k}) = IF k \in F THEN Cardinality(F) ELSE Cardinality(F) + 1
        /\ Cardinality(F \ {k}) = IF k \in F THEN Cardinality(F) - 1 ELSE Cardinality(F)
  BY <1>3, FS_AddElement, FS_RemoveElement
<1> QED
  BY <1>3, <1>4, <1>5 DEF F

\* What an open drawer does with new objects of the users.
LEMMA FoundAt ==
  ASSUME NEW news \in Seq(Row), NEW i \in Item, i \in Ids(news)
  PROVE  /\ news[SelectInSeq(news, LAMBDA r : r.id = i)] \in Row
         /\ news[SelectInSeq(news, LAMBDA r : r.id = i)].id = i
<1> DEFINE I == {j \in 1 .. Len(news) : news[j].id = i}
           first == IF I # {} THEN Min(I) ELSE 0
<1>1. I \in SUBSET (1 .. Len(news)) /\ Len(news) \in Nat
  OBVIOUS
<1>2. I # {}
  BY DEF Ids
<1>3. \E j \in I : \A m \in I : j <= m
  BY <1>1, <1>2, LeastPlace
<1>4. Min(I) \in I
  BY <1>3 DEF Min
<1>5. first \in I
  BY <1>2, <1>4
<1>6. SelectInSeq(news, LAMBDA r : r.id = i) = first
  BY DEF SelectInSeq
<1> QED
  BY <1>1, <1>5, <1>6

LEMMA RecentIs ==
  ASSUME AdminTyped, kind = "users", NEW k \in Call, NEW user \in Row, Recent(k, user)
  PROVE  /\ \E d \in AdminCall :
              /\ call' = [call EXCEPT ![k] = d] /\ Formed(d)
              /\ d.kind = "recent" /\ d.at = "sent" /\ d.item = user.id
         /\ crossed' \in BOOLEAN
         /\ ~crossed' => \A o \in Flying({"recent"}) \ {k} : call[o].item = user.id
<1>1. user.id \in Item
  BY DEF Row
<1>2. PICK v \in BOOLEAN : Sent(k, "recent", Nothing, user.id, v)
  BY Zenon DEF Recent
<1>3. \E d \in AdminCall :
        /\ call' = [call EXCEPT ![k] = d] /\ Formed(d)
        /\ d.kind = "recent" /\ d.at = "sent" /\ d.item = user.id
  <2>1. PICK d \in AdminCall :
          /\ call' = [call EXCEPT ![k] = d] /\ Formed(d)
          /\ d.kind = "recent" /\ d.at = "sent" /\ d.query = Nothing /\ d.item = user.id
    <3>1. "recent" \in {"table", "owners", "recent", "patch", "delete"} /\ v \in BOOLEAN
          /\ Nothing \in Query \cup {Nothing, "active", "admin"} /\ user.id \in Item \cup {Nothing}
      BY <1>1
    <3>2. /\ "recent" = "table" => Nothing \in Query
          /\ "recent" \in {"recent", "patch", "delete"} => user.id \in Item /\ kind = "users"
          /\ "recent" = "owners" => kind = "conversations"
      BY <1>1
    <3> QED
      BY <1>2, <3>1, <3>2, SentIs
  <2> QED
    BY <2>1
<1>4. crossed' \in BOOLEAN
  BY DEF Recent, AdminTyped, DrawerTyped
<1>5. ~crossed' => \A o \in Flying({"recent"}) \ {k} : call[o].item = user.id
  BY DEF Recent
<1> QED
  BY <1>3, <1>4, <1>5

LEMMA SyncIs ==
  ASSUME AdminTyped, NEW k \in Call, NEW news \in Seq(Row), Sync(k, news)
  PROVE  \/ call' = [call EXCEPT ![k] = Idle] /\ drawer' = drawer /\ crossed' = crossed
         \/ /\ drawer.open /\ kind = "users"
            /\ \E fresh \in Row :
                 /\ fresh.id = drawer.user.id /\ Recent(k, fresh)
                 /\ drawer' = [drawer EXCEPT !.user = fresh, !.loading = TRUE]
<1>1. CASE drawer.open /\ drawer.user.id \in Ids(news)
  <2> DEFINE fresh == news[SelectInSeq(news, LAMBDA r : r.id = drawer.user.id)]
  <2>1. kind = "users" /\ drawer.user \in Row /\ drawer.user.id \in Item
    BY <1>1 DEF AdminTyped, ViewTyped, TableTyped, ServerTyped, DrawerTyped, CallTyped, AdminDrawer, Row
  <2>2. fresh \in Row /\ fresh.id = drawer.user.id
    BY <1>1, <2>1, FoundAt
  <2>3. Recent(k, fresh) /\ drawer' = [drawer EXCEPT !.user = fresh, !.loading = TRUE]
    BY <1>1 DEF Sync
  <2> QED
    BY <1>1, <2>1, <2>2, <2>3
<1>2. CASE ~(drawer.open /\ drawer.user.id \in Ids(news))
  BY <1>2 DEF Sync, Gone, drawerVars
<1> QED
  BY <1>1, <1>2

-----------------------------------------------------------------------------
(* Types                                                                    *)

\* What a step does not change is typed as before.
LEMMA TypedStays ==
  ASSUME AdminTyped, kind' = kind
  PROVE  /\ UNCHANGED viewVars => ViewTyped'
         /\ UNCHANGED tableVars => TableTyped'
         /\ UNCHANGED serverVars => ServerTyped'
         /\ UNCHANGED drawerVars => DrawerTyped'
         /\ call' = call => CallTyped'
<1>1. UNCHANGED viewVars => ViewTyped'
  BY DEF AdminTyped, ViewTyped, viewVars
<1>2. UNCHANGED tableVars => TableTyped'
  BY DEF AdminTyped, TableTyped, tableVars
<1>3. UNCHANGED serverVars => ServerTyped'
  BY DEF AdminTyped, ServerTyped, serverVars
<1>4. UNCHANGED drawerVars => DrawerTyped'
  BY DEF AdminTyped, DrawerTyped, drawerVars
<1>5. call' = call => CallTyped'
  BY DEF AdminTyped, CallTyped, Formed
<1> QED
  BY <1>1, <1>2, <1>3, <1>4, <1>5

\* The calls, when one is sent, answered or ended.
LEMMA CallChanges ==
  ASSUME AdminTyped, kind' = kind, NEW k \in Call, NEW d \in AdminCall, Formed(d),
         call' = [call EXCEPT ![k] = d]
  PROVE  /\ CallTyped' /\ call'[k] = d /\ \A o \in Call : o # k => call'[o] = call[o]
         /\ \A K : Flying(K)' = IF d.kind \in K THEN Flying(K) \cup {k} ELSE Flying(K) \ {k}
<1>1. /\ CallTyped' /\ call'[k] = d /\ \A o \in Call : o # k => call'[o] = call[o]
  BY CallsTyped DEF CallTyped
<1>2. ASSUME NEW K PROVE Flying(K)' = IF d.kind \in K THEN Flying(K) \cup {k} ELSE Flying(K) \ {k}
  BY <1>1, FlyingBecomes
<1> QED
  BY <1>1, <1>2

LEMMA CallEnds ==
  ASSUME AdminTyped, kind' = kind, NEW k \in Call, Gone(k)
  PROVE  /\ CallTyped' /\ call'[k] = Idle /\ \A o \in Call : o # k => call'[o] = call[o]
         /\ \A K : "none" \notin K => Flying(K)' = Flying(K) \ {k}
<1>1. call' = [call EXCEPT ![k] = Idle]
  BY GoneIs
<1>2. /\ CallTyped' /\ call'[k] = Idle /\ \A o \in Call : o # k => call'[o] = call[o]
      /\ \A K : Flying(K)' = IF Idle.kind \in K THEN Flying(K) \cup {k} ELSE Flying(K) \ {k}
  BY <1>1, CallChanges, IdleAdmin
<1> QED
  BY <1>2, IdleAdmin

\* A fetch of the table.
LEMMA FetchIs ==
  ASSUME AdminTyped, kind' = kind, kind # "export", NEW k \in Call, NEW query \in Query,
         Fetch(k, query)
  PROVE  /\ CallTyped' /\ TableTyped'
         /\ call[k] = Idle /\ call'[k] \in AdminCall /\ Formed(call[k])'
         /\ call'[k].kind = "table" /\ call'[k].at = "sent" /\ call'[k].query = query
         /\ \A o \in Call : o # k => call'[o] = call[o]
         /\ \A K : Flying(K)' = IF "table" \in K THEN Flying(K) \cup {k} ELSE Flying(K) \ {k}
         /\ list' = list /\ total' = total /\ answers' = answers /\ missed' = missed
         /\ loading' = TRUE /\ count' = (IF kind = "conversations" THEN count + 1 ELSE count)
         /\ mixed' = (Flying(Changes) # {})
<1>1. /\ call[k] = Idle /\ Sent(k, "table", query, Nothing, FALSE)
      /\ list' = list /\ total' = total /\ answers' = answers /\ missed' = missed
      /\ loading' = TRUE /\ count' = (IF kind = "conversations" THEN count + 1 ELSE count)
      /\ mixed' = (Flying(Changes) # {})
  BY CallFields DEF Fetch, StartLoad, Formed
<1>2. PICK v \in BOOLEAN : Sent(k, "table", query, Nothing, v)
  BY <1>1, Zenon
<1>3. PICK d \in AdminCall :
        /\ call' = [call EXCEPT ![k] = d] /\ Formed(d)
        /\ d.kind = "table" /\ d.at = "sent" /\ d.query = query /\ d.item = Nothing
  <2>1. "table" \in {"table", "owners", "recent", "patch", "delete"} /\ v \in BOOLEAN
        /\ query \in Query \cup {Nothing, "active", "admin"} /\ Nothing \in Item \cup {Nothing}
    OBVIOUS
  <2>2. /\ "table" = "table" => query \in Query /\ kind # "export"
        /\ "table" \in {"recent", "patch", "delete"} => Nothing \in Item /\ kind = "users"
        /\ "table" = "owners" => kind = "conversations"
    OBVIOUS
  <2> QED
    BY <1>2, <2>1, <2>2, SentIs
<1>4. /\ CallTyped' /\ call'[k] = d /\ \A o \in Call : o # k => call'[o] = call[o]
      /\ \A K : Flying(K)' = IF "table" \in K THEN Flying(K) \cup {k} ELSE Flying(K) \ {k}
  <2>1. /\ CallTyped' /\ call'[k] = d /\ \A o \in Call : o # k => call'[o] = call[o]
        /\ \A K : Flying(K)' = IF d.kind \in K THEN Flying(K) \cup {k} ELSE Flying(K) \ {k}
    BY <1>3, CallChanges
  <2> QED
    BY <1>3, <2>1
<1>5. TableTyped'
  BY <1>1 DEF TableTyped, AdminTyped
<1>6. Formed(call[k])'
  BY <1>4 DEF CallTyped
<1> QED
  BY <1>1, <1>3, <1>4, <1>5, <1>6

\* The last page is not beyond the rows.
LEMMA PagesBound ==
  ASSUME NEW n \in Int, Pages(n) > 1
  PROVE  Pages(n) \in Nat /\ Pages(n) <= n
<1> DEFINE b == PageSize
           q == (n + b - 1) \div b
<1>1. b \in Nat \ {0} /\ n > b /\ Pages(n) = q
  BY AdminAssumption DEF Pages
<1> HIDE DEF b
<1>2. n + b - 1 \in Nat /\ q \in Nat
  BY <1>1
<1>3. b * q <= n + b - 1
  BY <1>1, <1>2
<1> HIDE DEF q
<1>4. ASSUME q >= n + 1 PROVE FALSE
  <2>1. b * q >= b * (n + 1)
    BY <1>1, <1>2, <1>4
  <2>2. b * (n + 1) = b * n + b
    BY <1>1
  <2>3. b * n >= n
    BY <1>1
  <2> QED
    BY <1>1, <1>2, <1>3, <2>1, <2>2, <2>3
<1> QED
  BY <1>1, <1>2, <1>4

\* A page that the buttons lead to.
LEMMA TurnedTo ==
  ASSUME AdminTyped, NEW p \in {page - 1, page + 1},
         \/ p = page - 1 /\ page > 0
         \/ p = page + 1 /\ page < Pages(total) - 1
  PROVE  p \in 0 .. Cardinality(Item)
<1>1. page \in 0 .. Cardinality(Item) /\ total \in Int /\ total <= Cardinality(Item)
  BY DEF AdminTyped, ViewTyped, TableTyped
<1>2. CASE p = page - 1 /\ page > 0
  BY <1>1, <1>2, ItemCount
<1>3. CASE p = page + 1 /\ page < Pages(total) - 1
  <2>1. Pages(total) \in Int
    BY <1>1, AdminAssumption DEF Pages
  <2>2. Pages(total) > 1
    BY <1>1, <1>3, <2>1
  <2>3. Pages(total) <= total
    BY <1>1, <2>2, PagesBound
  <2> QED
    BY <1>1, <1>3, <2>1, <2>3, ItemCount
<1> QED
  BY <1>2, <1>3

\* What an export under way is told of a change of the server.
LEMMA NotedIs ==
  ASSUME ServerTyped, NEW rs \in Seq(Item), IsInjective(rs), NEW flags, Noted(rs, flags)
  PROVE  /\ export' \in AdminExport
         /\ export.at \notin {"count", "select"} => export' = export
         /\ export.at \in {"count", "select"} =>
              /\ export'.at = export.at /\ export'.filter = export.filter
              /\ export'.skip = export.skip /\ export'.total = export.total
              /\ export'.out = export.out
              /\ export'.base = export.base \cap ToSet(HitsIn(rs, flags, export.filter))
              /\ ~export'.lost =>
                   /\ ~export.lost
                   /\ ToSet(Hits(export.filter)) \subseteq ToSet(HitsIn(rs, flags, export.filter))
                   /\ export.at = "select" =>
                        ToSet(HitsIn(rs, flags, export.filter)) \subseteq ToSet(Hits(export.filter))
              /\ ~export'.grown =>
                   /\ ~export.grown
                   /\ ToSet(HitsIn(rs, flags, export.filter)) \subseteq ToSet(Hits(export.filter))
<1> DEFINE was == ToSet(Hits(export.filter))
           is  == ToSet(HitsIn(rs, flags, export.filter))
           more == ~(is \subseteq was)
           less == ~(was \subseteq is) \/ (more /\ export.at = "select")
<1>0. export \in AdminExport
  BY DEF ServerTyped
<1>1. CASE export.at \notin {"count", "select"}
  BY <1>0, <1>1 DEF Noted
<1>2. CASE export.at \in {"count", "select"}
  <2>1. export' = [export EXCEPT !.base = @ \cap is, !.lost = @ \/ less, !.grown = @ \/ more]
    BY <1>2 DEF Noted
  <2> HIDE DEF was, is, more, less
  <2>2. /\ export.at \in {"idle", "count", "select", "done"} /\ export.filter \in {"all", "part"}
        /\ export.skip \in Nat /\ export.total \in Nat /\ export.out \in Seq(Item)
        /\ export.base \in SUBSET Item /\ export.lost \in BOOLEAN /\ export.grown \in BOOLEAN
    BY <1>0 DEF AdminExport
  <2>3. less \in BOOLEAN /\ more \in BOOLEAN
    BY DEF less, more
  <2>4. export' \in AdminExport
    BY <1>0, <2>1, <2>2, <2>3 DEF AdminExport
  <2>5. /\ export'.at = export.at /\ export'.filter = export.filter
        /\ export'.skip = export.skip /\ export'.total = export.total
        /\ export'.out = export.out /\ export'.base = export.base \cap is
    BY <1>0, <2>1 DEF AdminExport
  <2>6. export'.lost = (export.lost \/ less) /\ export'.grown = (export.grown \/ more)
    BY <1>0, <2>1, <2>2, <2>3 DEF AdminExport
  <2>7. ~export'.lost => ~export.lost /\ was \subseteq is /\ (export.at = "select" => is \subseteq was)
    BY <2>2, <2>3, <2>6 DEF less, more
  <2>8. ~export'.grown => ~export.grown /\ is \subseteq was
    BY <2>2, <2>3, <2>6 DEF more
  <2> QED
    BY <1>2, <2>4, <2>5, <2>7, <2>8 DEF was, is
<1> QED
  BY <1>1, <1>2

\* What others do to the rows.
LEMMA OthersAre ==
  ASSUME AdminTyped, Others
  PROVE  /\ rows' \in Seq(Item) /\ IsInjective(rows') /\ ToSet(rows') \subseteq born'
         /\ born' \subseteq Item /\ flag' \in [Item -> BOOLEAN] /\ Noted(rows', flag')
         /\ changes' = changes + 1 /\ changes < MaxChanges /\ stale' = TRUE /\ kind' = kind
         /\ UNCHANGED viewVars /\ UNCHANGED tableVars /\ UNCHANGED drawerVars /\ call' = call
         /\ \/ \E i \in Item \ born :
                 rows' = <<i>> \o rows /\ flag' = [flag EXCEPT ![i] = TRUE]
            \/ \E i \in ToSet(rows) : rows' = Keep(rows, Item \ {i}) /\ flag' = flag
            \/ \E i \in ToSet(rows) : rows' = rows /\ flag' = [flag EXCEPT ![i] = ~@]
            \/ kind = "conversations"
<1>0. /\ rows \in Seq(Item) /\ IsInjective(rows) /\ ToSet(rows) \subseteq born /\ born \subseteq Item
      /\ flag \in [Item -> BOOLEAN] /\ ToSet(rows) \subseteq Item
  BY Entries DEF AdminTyped, ServerTyped
<1>1. /\ changes' = changes + 1 /\ changes < MaxChanges /\ stale' = TRUE /\ kind' = kind
      /\ UNCHANGED viewVars /\ UNCHANGED tableVars /\ UNCHANGED drawerVars /\ call' = call
  BY DEF Others
<1>2. ASSUME NEW i \in Item \ born, Becomes(<<i>> \o rows, [flag EXCEPT ![i] = TRUE]),
             born' = born \cup {i}
      PROVE  /\ rows' \in Seq(Item) /\ IsInjective(rows') /\ ToSet(rows') \subseteq born'
             /\ born' \subseteq Item /\ flag' \in [Item -> BOOLEAN] /\ Noted(rows', flag')
             /\ rows' = <<i>> \o rows /\ flag' = [flag EXCEPT ![i] = TRUE]
  <2> DEFINE t == <<i>> \o rows
             g == [flag EXCEPT ![i] = TRUE]
  <2>1. i \in Item /\ i \notin ToSet(rows)
    BY <1>0, <1>2
  <2>2. t \in Seq(Item) /\ IsInjective(t) /\ ToSet(t) = {i} \cup ToSet(rows)
    BY <1>0, <2>1, Fronted
  <2>3. g \in [Item -> BOOLEAN]
    BY <1>0
  <2>4. rows' = t /\ flag' = g /\ Noted(t, g)
    BY <1>2 DEF Becomes
  <2> HIDE DEF t, g
  <2>5. /\ rows' \in Seq(Item) /\ IsInjective(rows') /\ ToSet(rows') \subseteq born'
        /\ born' \subseteq Item /\ flag' \in [Item -> BOOLEAN] /\ Noted(rows', flag')
    BY <1>0, <1>2, <2>1, <2>2, <2>3, <2>4
  <2> QED
    BY <2>4, <2>5 DEF t, g
<1>3. ASSUME NEW i \in ToSet(rows), Becomes(Keep(rows, Item \ {i}), flag), born' = born
      PROVE  /\ rows' \in Seq(Item) /\ IsInjective(rows') /\ ToSet(rows') \subseteq born'
             /\ born' \subseteq Item /\ flag' \in [Item -> BOOLEAN] /\ Noted(rows', flag')
             /\ rows' = Keep(rows, Item \ {i}) /\ flag' = flag
  <2>1. rows' = Keep(rows, Item \ {i}) /\ flag' = flag /\ Noted(rows', flag')
    BY <1>3 DEF Becomes
  <2>2. /\ Keep(rows, Item \ {i}) \in Seq(Item) /\ IsInjective(Keep(rows, Item \ {i}))
        /\ ToSet(Keep(rows, Item \ {i})) = ToSet(rows) \cap (Item \ {i})
    BY <1>0, Kept
  <2> QED
    BY <1>0, <1>3, <2>1, <2>2
<1>4. ASSUME NEW i \in ToSet(rows), Becomes(rows, [flag EXCEPT ![i] = ~@]), born' = born
      PROVE  /\ rows' \in Seq(Item) /\ IsInjective(rows') /\ ToSet(rows') \subseteq born'
             /\ born' \subseteq Item /\ flag' \in [Item -> BOOLEAN] /\ Noted(rows', flag')
             /\ rows' = rows /\ flag' = [flag EXCEPT ![i] = ~@]
  <2>1. rows' = rows /\ flag' = [flag EXCEPT ![i] = ~@] /\ Noted(rows', flag')
    BY <1>4 DEF Becomes
  <2> QED
    BY <1>0, <1>4, <2>1
<1>5. ASSUME NEW i \in ToSet(rows), kind = "conversations", born' = born,
             NEW p \in DOMAIN rows, Becomes(InsertAt(Keep(rows, Item \ {i}), p, i), flag)
      PROVE  /\ rows' \in Seq(Item) /\ IsInjective(rows') /\ ToSet(rows') \subseteq born'
             /\ born' \subseteq Item /\ flag' \in [Item -> BOOLEAN] /\ Noted(rows', flag')
  <2> DEFINE rest == Keep(rows, Item \ {i})
             t == InsertAt(rest, p, i)
  <2>1. /\ rest \in Seq(Item) /\ IsInjective(rest) /\ ToSet(rest) = ToSet(rows) \cap (Item \ {i})
    BY <1>0, Kept
  <2>2. PICK j \in DOMAIN rows : rows[j] = i
    BY DEF ToSet
  <2>3. Len(rest) = Len(rows) - 1
    <3>1. \A x \in ToSet(rows) : x \in Item \ {i} <=> x # rows[j]
      BY <1>0, <2>2
    <3> QED
      BY <1>0, <3>1, KeepWithout
  <2> HIDE DEF rest
  <2>4. i \in Item /\ i \notin ToSet(rest) /\ p \in 1 .. Len(rest) + 1
    BY <1>0, <2>1, <2>3
  <2>5. t \in Seq(Item) /\ ToSet(t) = ToSet(rest) \cup {i} /\ IsInjective(t)
    BY <2>1, <2>4, PutInto
  <2>6. rows' = t /\ flag' = flag /\ Noted(rows', flag')
    BY <1>5 DEF Becomes, rest
  <2> HIDE DEF t
  <2> QED
    BY <1>0, <1>5, <2>1, <2>5, <2>6
<1> QED
  BY <1>1, <1>2, <1>3, <1>4, <1>5 DEF Others

LEMMA OthersTyped == ASSUME AdminTyped, Others PROVE AdminTyped'
<1>1. ServerTyped
  BY DEF AdminTyped
<1>2. /\ export' \in AdminExport /\ (kind # "export" => export' = NoExport)
      /\ export'.at = "idle" => export' = NoExport
  <2>1. export' \in AdminExport /\ (export.at \notin {"count", "select"} => export' = export)
        /\ (export.at \in {"count", "select"} => export'.at = export.at)
    BY <1>1, OthersAre, NotedIs
  <2>2. NoExport.at = "idle"
    BY DEF NoExport
  <2> QED
    BY <1>1, <2>1, <2>2 DEF ServerTyped
<1>3. ServerTyped'
  BY <1>1, <1>2, OthersAre, AdminAssumption DEF ServerTyped
<1> QED
  BY <1>3, TypedStays, OthersAre DEF AdminTyped

-----------------------------------------------------------------------------
(* AdminPages: the types of the steps of the server and of the view.        *)

\* An answer without rows.
LEMMA EmptyReply ==
  ASSUME AdminTyped, NEW k \in Call, NEW at \in {"ok", "bad"}, Reply(k, at, <<>>, 0),
         at = "ok" => call[k].kind # "patch"
  PROVE  /\ call[k].at = "sent" /\ call[k].kind # "none"
         /\ \E d \in AdminCall :
              /\ call' = [call EXCEPT ![k] = d] /\ Formed(d)
              /\ d.kind = call[k].kind /\ d.at = at /\ d.query = call[k].query
              /\ d.item = call[k].item
<1> DEFINE rs == <<>>
           n == 0
<1>1. rs \in Seq(Row) /\ n \in 0 .. Cardinality(Item) /\ Reply(k, at, rs, n)
  BY ItemCount
<1> HIDE DEF rs, n
<1> QED
  BY <1>1, ReplyIs

\* An answer that comes, or does not.
LEMMA ServeIs ==
  ASSUME AdminTyped, NEW k \in Call, Serve(k)
  PROVE  /\ kind' = kind /\ UNCHANGED viewVars /\ UNCHANGED tableVars /\ UNCHANGED drawerVars
         /\ rows' \in Seq(Item) /\ IsInjective(rows') /\ ToSet(rows') \subseteq ToSet(rows)
         /\ flag' \in [Item -> BOOLEAN] /\ stale' \in BOOLEAN
         /\ born' = born /\ changes' = changes /\ export' = export
         /\ kind # "users" => rows' = rows /\ flag' = flag
         /\ call[k].at = "sent" /\ call[k].kind # "none"
         /\ \E d \in AdminCall :
              /\ call' = [call EXCEPT ![k] = d] /\ Formed(d)
              /\ d.kind = call[k].kind /\ d.query = call[k].query /\ d.item = call[k].item
              /\ \/ d.at = "bad" /\ UNCHANGED serverVars
                 \/ d.at = "ok" /\ d.kind \in {"owners", "recent"} /\ UNCHANGED serverVars
                 \/ /\ d.at = "ok" /\ d.kind = "table"
                    /\ d.rows = PageOf(d.query) /\ d.total = Len(Hits(d.query.filter))
                    /\ stale' = FALSE /\ rows' = rows /\ flag' = flag
                 \/ /\ d.at = "ok" /\ d.kind = "patch" /\ stale' = stale /\ rows' = rows
                    /\ \A i \in Item : i # d.item => flag'[i] = flag[i]
                    /\ d.rows = <<[id |-> d.item, flag |-> flag'[d.item], admin |-> FALSE]>>
                 \/ /\ d.at = "ok" /\ d.kind = "delete" /\ stale' = stale /\ flag' = flag
                    /\ rows' = Keep(rows, Item \ {d.item})
<1> DEFINE c == call[k]
<1>0. /\ rows \in Seq(Item) /\ IsInjective(rows) /\ flag \in [Item -> BOOLEAN] /\ stale \in BOOLEAN
      /\ ToSet(rows) \subseteq Item
  BY Entries DEF AdminTyped, ServerTyped
<1>1. /\ c \in AdminCall /\ Formed(c) /\ c.item \in Item \cup {Nothing}
      /\ (c.kind = "table" => c.query \in Query)
      /\ (c.kind \in {"recent", "patch", "delete"} => c.item \in Item /\ kind = "users")
  BY CallFields DEF Formed
<1>2. kind' = kind /\ UNCHANGED viewVars /\ UNCHANGED tableVars /\ UNCHANGED drawerVars
  BY DEF Serve
<1> HIDE DEF c
<1>3. CASE Refuse(k)
  <2>1. Reply(k, "bad", <<>>, 0) /\ UNCHANGED serverVars
    BY <1>3 DEF Refuse
  <2>3. /\ call[k].at = "sent" /\ call[k].kind # "none"
        /\ \E d \in AdminCall :
             /\ call' = [call EXCEPT ![k] = d] /\ Formed(d)
             /\ d.kind = call[k].kind /\ d.at = "bad" /\ d.query = call[k].query
             /\ d.item = call[k].item
    BY <2>1, EmptyReply
  <2>4. rows' = rows /\ flag' = flag /\ born' = born /\ changes' = changes /\ stale' = stale
        /\ export' = export
    BY <2>1 DEF serverVars
  <2> QED
    BY <1>0, <1>2, <2>1, <2>3, <2>4
<1>4. CASE ServeTable(k)
  <2>1. /\ c.kind = "table" /\ Reply(k, "ok", PageOf(c.query), Len(Hits(c.query.filter)))
        /\ stale' = FALSE /\ UNCHANGED <<rows, flag, born, changes, export>>
    BY <1>4 DEF ServeTable, c
  <2>2. PageOf(c.query) \in Seq(Row) /\ Len(Hits(c.query.filter)) \in 0 .. Cardinality(Item)
    BY <1>1, <2>1, PageRows
  <2>3. /\ call[k].at = "sent" /\ call[k].kind # "none"
        /\ \E d \in AdminCall :
             /\ call' = [call EXCEPT ![k] = d] /\ Formed(d)
             /\ d.kind = call[k].kind /\ d.at = "ok" /\ d.query = call[k].query
             /\ d.item = call[k].item /\ d.rows = PageOf(c.query)
             /\ d.total = Len(Hits(c.query.filter))
    BY <2>1, <2>2, ReplyIs DEF c
  <2> QED
    BY <1>0, <1>2, <2>1, <2>3 DEF c
<1>5. CASE ServeOther(k)
  <2>1. c.kind \in {"owners", "recent"} /\ Reply(k, "ok", <<>>, 0) /\ UNCHANGED serverVars
    BY <1>5 DEF ServeOther, c
  <2>3. /\ call[k].at = "sent" /\ call[k].kind # "none"
        /\ \E d \in AdminCall :
             /\ call' = [call EXCEPT ![k] = d] /\ Formed(d)
             /\ d.kind = call[k].kind /\ d.at = "ok" /\ d.query = call[k].query
             /\ d.item = call[k].item
    BY <2>1, EmptyReply DEF c
  <2>4. rows' = rows /\ flag' = flag /\ born' = born /\ changes' = changes /\ stale' = stale
        /\ export' = export
    BY <2>1 DEF serverVars
  <2> QED
    BY <1>0, <1>2, <2>1, <2>3, <2>4 DEF c
<1>6. CASE ServePatch(k)
  <2> DEFINE r == [id |-> c.item, flag |-> flag'[c.item], admin |-> FALSE]
  <2>1. /\ c.kind = "patch" /\ c.item \in ToSet(rows)
        /\ flag' = IF c.query = "active" THEN [flag EXCEPT ![c.item] = c.value] ELSE flag
        /\ Reply(k, "ok", <<r>>, 0) /\ UNCHANGED <<rows, born, changes, stale, export>>
    BY <1>6 DEF ServePatch, c
  <2>2. c.item \in Item /\ c.value \in BOOLEAN
    BY <1>1, <2>1, CallFields DEF c
  <2>3. flag' \in [Item -> BOOLEAN] /\ \A i \in Item : i # c.item => flag'[i] = flag[i]
    BY <1>0, <2>1, <2>2
  <2>4. r \in Row /\ r.id = c.item /\ ~r.admin
    BY <2>2, <2>3 DEF Row
  <2> HIDE DEF r
  <2> DEFINE rs == <<r>>
  <2>5. /\ rs \in Seq(Row) /\ Len(rs) = 1 /\ rs[1] = r
        /\ 0 \in 0 .. Cardinality(Item) /\ "ok" \in {"ok", "bad"}
    BY <2>4, ItemCount
  <2>8. Reply(k, "ok", rs, 0)
    BY <2>1
  <2> HIDE DEF rs
  <2>6. /\ call[k].at = "sent" /\ call[k].kind # "none"
        /\ \E d \in AdminCall :
             /\ call' = [call EXCEPT ![k] = d] /\ Formed(d)
             /\ d.kind = call[k].kind /\ d.at = "ok" /\ d.query = call[k].query
             /\ d.item = call[k].item /\ d.rows = rs /\ d.total = 0
    BY <2>4, <2>5, <2>8, ReplyIs DEF c
  <2>7. kind = "users"
    BY <1>1, <2>1
  <2> QED
    <3>1. PICK d \in AdminCall :
            /\ call' = [call EXCEPT ![k] = d] /\ Formed(d)
            /\ d.kind = call[k].kind /\ d.at = "ok" /\ d.query = call[k].query
            /\ d.item = call[k].item /\ d.rows = rs /\ d.total = 0
      BY <2>6
    <3>2. d.kind = "patch" /\ d.item = c.item
      BY <2>1, <3>1 DEF c
    <3>3. d.rows = <<[id |-> d.item, flag |-> flag'[d.item], admin |-> FALSE]>>
      BY <3>1, <3>2 DEF rs, r
    <3>4. \A i \in Item : i # d.item => flag'[i] = flag[i]
      BY <2>3, <3>2
    <3> QED
      BY <1>0, <1>2, <2>1, <2>3, <2>6, <2>7, <3>1, <3>2, <3>3, <3>4
<1>7. CASE ServeDelete(k)
  <2>1. /\ c.kind = "delete" /\ rows' = Keep(rows, Item \ {c.item})
        /\ Reply(k, "ok", <<>>, 0) /\ UNCHANGED <<flag, born, changes, stale, export>>
    BY <1>7 DEF ServeDelete, c
  <2>3. /\ call[k].at = "sent" /\ call[k].kind # "none"
        /\ \E d \in AdminCall :
             /\ call' = [call EXCEPT ![k] = d] /\ Formed(d)
             /\ d.kind = call[k].kind /\ d.at = "ok" /\ d.query = call[k].query
             /\ d.item = call[k].item
    BY <2>1, EmptyReply DEF c
  <2>4. /\ rows' \in Seq(Item) /\ IsInjective(rows') /\ ToSet(rows') \subseteq ToSet(rows)
        /\ kind = "users"
    <3>1. /\ Keep(rows, Item \ {c.item}) \in Seq(Item) /\ IsInjective(Keep(rows, Item \ {c.item}))
          /\ ToSet(Keep(rows, Item \ {c.item})) = ToSet(rows) \cap (Item \ {c.item})
      BY <1>0, Kept
    <3> QED
      BY <1>1, <2>1, <3>1
  <2> QED
    BY <1>0, <1>2, <2>1, <2>3, <2>4 DEF c
<1> QED
  BY <1>3, <1>4, <1>5, <1>6, <1>7 DEF Serve

LEMMA ServeTyped == ASSUME AdminTyped, NEW k \in Call, Serve(k) PROVE AdminTyped'
<1>1. ServerTyped'
  BY ServeIs DEF AdminTyped, ServerTyped
<1>2. PICK d \in AdminCall : call' = [call EXCEPT ![k] = d] /\ Formed(d)
  BY ServeIs
<1>3. CallTyped' /\ kind' = kind
  BY <1>2, ServeIs, CallChanges
<1> QED
  BY <1>1, <1>3, ServeIs, TypedStays DEF AdminTyped

LEMMA LoseIs ==
  ASSUME AdminTyped, NEW k \in Call, Lose(k)
  PROVE  /\ kind' = kind /\ UNCHANGED viewVars /\ UNCHANGED tableVars /\ UNCHANGED drawerVars
         /\ UNCHANGED serverVars
         /\ call[k].kind \in {"patch", "delete"} /\ call[k].at = "ok"
         /\ \E d \in AdminCall :
              /\ call' = [call EXCEPT ![k] = d] /\ Formed(d)
              /\ d.kind = call[k].kind /\ d.at = "bad" /\ d.query = call[k].query
              /\ d.item = call[k].item
<1> DEFINE c == call[k]
           d == [c EXCEPT !.at = "bad", !.rows = <<>>, !.total = 0]
<1>1. c \in AdminCall /\ Formed(c) /\ call \in [Call -> AdminCall]
  BY DEF AdminTyped, ViewTyped, TableTyped, ServerTyped, DrawerTyped, CallTyped
<1>2. c.kind \in {"patch", "delete"} /\ c.at = "ok" /\ call' = [call EXCEPT ![k] = d]
  BY <1>1 DEF Lose
<1>3. d \in AdminCall
  <2>1. <<>> \in Seq(Row) /\ 0 \in 0 .. Cardinality(Item)
    BY ItemCount
  <2> QED
    BY <1>1, <2>1 DEF AdminCall
<1>4. d.kind = c.kind /\ d.at = "bad" /\ d.query = c.query /\ d.item = c.item
  BY <1>1 DEF AdminCall
<1> HIDE DEF c, d
<1>5. Formed(d)
  BY <1>1, <1>2, <1>4, IdleAdmin DEF Formed
<1> QED
  BY <1>2, <1>3, <1>4, <1>5 DEF Lose, c

LEMMA LoseTyped == ASSUME AdminTyped, NEW k \in Call, Lose(k) PROVE AdminTyped'
<1>1. PICK d \in AdminCall : call' = [call EXCEPT ![k] = d] /\ Formed(d)
  BY LoseIs
<1>2. CallTyped' /\ kind' = kind
  BY <1>1, LoseIs, CallChanges
<1> QED
  BY <1>2, LoseIs, TypedStays DEF AdminTyped

-----------------------------------------------------------------------------
LEMMA ViewChangesTyped ==
  ASSUME AdminTyped,
         \/ \E f \in {"all", "part"} : Filter(f)
         \/ \E p \in {page - 1, page + 1} : Turn(p)
  PROVE  /\ AdminTyped' /\ kind \in {"users", "conversations"} /\ kind' = kind
         /\ timer' = Shown' /\ timer' # Nothing
         /\ call' = call /\ UNCHANGED tableVars /\ UNCHANGED serverVars /\ UNCHANGED drawerVars
<1>0. /\ filter \in {"all", "part"} /\ page \in 0 .. Cardinality(Item)
  BY DEF AdminTyped, ViewTyped
<1>1. /\ filter' \in {"all", "part"} /\ page' \in 0 .. Cardinality(Item)
      /\ timer' = [filter |-> filter', page |-> page']
      /\ kind \in {"users", "conversations"} /\ kind' = kind
      /\ call' = call /\ UNCHANGED tableVars /\ UNCHANGED serverVars /\ UNCHANGED drawerVars
  <2>1. CASE \E f \in {"all", "part"} : Filter(f)
    BY <2>1, ItemCount DEF Filter, Views
  <2>2. CASE \E p \in {page - 1, page + 1} : Turn(p)
    <3>1. PICK p \in {page - 1, page + 1} : Turn(p)
      BY <2>2
    <3>2. p \in 0 .. Cardinality(Item)
      BY <3>1, TurnedTo DEF Turn
    <3> QED
      BY <1>0, <3>1, <3>2 DEF Turn, Views
  <2> QED
    BY <2>1, <2>2
<1>2. timer' = Shown' /\ timer' \in Query /\ timer' # Nothing
  BY <1>1, AdminAssumption DEF Shown, Query
<1>3. ViewTyped'
  BY <1>1, <1>2 DEF ViewTyped
<1> QED
  BY <1>1, <1>2, <1>3, TypedStays DEF AdminTyped

-----------------------------------------------------------------------------
(* AdminPages: the drawer.                                                  *)

\* The drawer, when an object of a user is put into it.
LEMMA DrawnTyped ==
  ASSUME AdminTyped, kind' = kind, kind = "users", NEW user \in Row, crossed' \in BOOLEAN,
         \/ drawer' = [drawer EXCEPT !.user = user, !.loading = TRUE] /\ drawer.open
         \/ drawer' = [drawer EXCEPT !.user = user, !.open = TRUE, !.loading = TRUE]
  PROVE  /\ DrawerTyped' /\ drawer'.user = user /\ drawer'.open = TRUE /\ drawer'.loading = TRUE
         /\ drawer'.convs = drawer.convs
<1>1. /\ drawer \in AdminDrawer /\ Nothing \notin Row /\ drawer.open \in BOOLEAN
  BY AdminAssumption DEF AdminTyped, DrawerTyped, AdminDrawer
<1>2. drawer' \in AdminDrawer
  BY <1>1 DEF AdminDrawer
<1>3. drawer'.user = user /\ drawer'.open = TRUE /\ drawer'.loading = TRUE
      /\ drawer'.convs = drawer.convs
  BY <1>1 DEF AdminDrawer
<1>4. user # Nothing
  BY <1>1
<1> QED
  BY <1>2, <1>3, <1>4 DEF DrawerTyped

LEMMA OpenDrawerIs ==
  ASSUME AdminTyped, NEW k \in Call, NEW shown \in ToSet(list), OpenDrawer(k, shown)
  PROVE  /\ AdminTyped' /\ kind = "users" /\ kind' = kind
         /\ shown \in Row /\ Recent(k, shown) /\ call[k] = Idle
         /\ drawer'.user = shown /\ drawer'.open /\ drawer'.loading /\ drawer'.convs = drawer.convs
         /\ UNCHANGED viewVars /\ UNCHANGED tableVars /\ UNCHANGED serverVars
<1>1. /\ kind = "users" /\ kind' = kind /\ Recent(k, shown) /\ call[k].at = "free"
      /\ drawer' = [drawer EXCEPT !.user = shown, !.open = TRUE, !.loading = TRUE]
      /\ UNCHANGED viewVars /\ UNCHANGED tableVars /\ UNCHANGED serverVars
  BY DEF OpenDrawer
<1>2. shown \in Row
  BY Entries DEF AdminTyped, TableTyped
<1>3. call[k] = Idle
  BY <1>1, CallFields DEF Formed
<1>4. /\ crossed' \in BOOLEAN
      /\ \E d \in AdminCall :
           /\ call' = [call EXCEPT ![k] = d] /\ Formed(d)
           /\ d.kind = "recent" /\ d.at = "sent" /\ d.item = shown.id
  BY <1>1, <1>2, RecentIs
<1>5. CallTyped'
  BY <1>1, <1>4, CallChanges
<1>6. /\ DrawerTyped' /\ drawer'.user = shown /\ drawer'.open = TRUE /\ drawer'.loading = TRUE
      /\ drawer'.convs = drawer.convs
  BY <1>1, <1>2, <1>4, DrawnTyped
<1> QED
  BY <1>1, <1>2, <1>3, <1>5, <1>6, TypedStays DEF AdminTyped

\* The drawer that closes.
LEMMA ShutTyped ==
  ASSUME AdminTyped, kind' = kind, drawer' = [Closed EXCEPT !.loading = drawer.loading],
         crossed' = crossed
  PROVE  /\ DrawerTyped' /\ drawer'.open = FALSE /\ drawer'.loading = drawer.loading
         /\ drawer'.user = Nothing
<1>1. drawer \in AdminDrawer /\ drawer.loading \in BOOLEAN /\ crossed \in BOOLEAN
  BY DEF AdminTyped, DrawerTyped, AdminDrawer
<1>2. /\ Closed \in AdminDrawer /\ Closed.open = FALSE /\ Closed.user = Nothing
  BY DEF Closed, AdminDrawer
<1>3. drawer' \in AdminDrawer /\ drawer'.open = FALSE /\ drawer'.loading = drawer.loading
      /\ drawer'.user = Nothing
  BY <1>1, <1>2 DEF AdminDrawer
<1> QED
  BY <1>1, <1>3 DEF DrawerTyped

LEMMA CloseDrawerIs ==
  ASSUME AdminTyped, CloseDrawer
  PROVE  /\ AdminTyped' /\ kind' = kind /\ call' = call /\ crossed' = crossed
         /\ drawer'.open = FALSE /\ drawer'.loading = drawer.loading
         /\ UNCHANGED viewVars /\ UNCHANGED tableVars /\ UNCHANGED serverVars
<1>1. /\ kind' = kind /\ call' = call /\ crossed' = crossed
      /\ drawer' = [Closed EXCEPT !.loading = drawer.loading]
      /\ UNCHANGED viewVars /\ UNCHANGED tableVars /\ UNCHANGED serverVars
  BY DEF CloseDrawer
<1>2. DrawerTyped' /\ drawer'.open = FALSE /\ drawer'.loading = drawer.loading
  BY <1>1, ShutTyped
<1> QED
  BY <1>1, <1>2, TypedStays DEF AdminTyped

LEMMA ApplyRecentIs ==
  ASSUME AdminTyped, NEW k \in Call, ApplyRecent(k)
  PROVE  /\ AdminTyped' /\ kind' = kind /\ crossed' = crossed
         /\ call[k].kind = "recent" /\ Gone(k)
         /\ drawer'.open = drawer.open /\ drawer'.user = drawer.user /\ drawer'.loading = FALSE
         /\ drawer'.convs \in {call[k].item, Nothing}
         /\ UNCHANGED viewVars /\ UNCHANGED tableVars /\ UNCHANGED serverVars
<1> DEFINE w == IF drawer.open /\ call[k].at = "ok" THEN call[k].item ELSE Nothing
<1>1. /\ kind' = kind /\ crossed' = crossed /\ call[k].kind = "recent" /\ Gone(k)
      /\ drawer' = [drawer EXCEPT !.loading = FALSE, !.convs = w]
      /\ UNCHANGED viewVars /\ UNCHANGED tableVars /\ UNCHANGED serverVars
  BY DEF ApplyRecent
<1>2. w \in {call[k].item, Nothing} /\ w \in Item \cup {Nothing}
  BY CallFields
<1> HIDE DEF w
<1>3. drawer \in AdminDrawer
  BY DEF AdminTyped, DrawerTyped
<1>4. drawer' \in AdminDrawer
  BY <1>1, <1>2, <1>3 DEF AdminDrawer
<1>5. /\ drawer'.open = drawer.open /\ drawer'.user = drawer.user /\ drawer'.loading = FALSE
      /\ drawer'.convs = w
  BY <1>1, <1>3 DEF AdminDrawer
<1>6. DrawerTyped'
  BY <1>1, <1>4, <1>5 DEF AdminTyped, DrawerTyped
<1>7. CallTyped'
  BY <1>1, CallEnds
<1> QED
  BY <1>1, <1>2, <1>5, <1>6, <1>7, TypedStays DEF AdminTyped

\* A change is sent.
LEMMA ChangeSent ==
  ASSUME AdminTyped, drawer.open, NEW k \in Call, call[k].at = "free", kind' = kind,
         NEW what \in {"patch", "delete"}, NEW query \in {Nothing, "active", "admin"},
         NEW value \in BOOLEAN, Sent(k, what, query, drawer.user.id, value)
  PROVE  /\ kind = "users" /\ CallTyped' /\ call[k] = Idle /\ drawer.user.id \in Item
         /\ call'[k].kind = what /\ call'[k].at = "sent" /\ call'[k].item = drawer.user.id
         /\ \A o \in Call : o # k => call'[o] = call[o]
         /\ \A K : Flying(K)' = IF what \in K THEN Flying(K) \cup {k} ELSE Flying(K) \ {k}
<1>1. kind = "users" /\ drawer.user.id \in Item
  BY DEF AdminTyped, DrawerTyped, AdminDrawer, Row
<1>2. call[k] = Idle
  BY CallFields DEF Formed
<1>3. PICK d \in AdminCall :
        /\ call' = [call EXCEPT ![k] = d] /\ Formed(d)
        /\ d.kind = what /\ d.at = "sent" /\ d.query = query /\ d.item = drawer.user.id
  <2>1. /\ what \in {"table", "owners", "recent", "patch", "delete"}
        /\ query \in Query \cup {Nothing, "active", "admin"}
        /\ drawer.user.id \in Item \cup {Nothing}
    BY <1>1
  <2>2. /\ what = "table" => query \in Query
        /\ what \in {"recent", "patch", "delete"} => drawer.user.id \in Item /\ kind = "users"
        /\ what = "owners" => kind = "conversations"
    BY <1>1
  <2> QED
    BY <2>1, <2>2, SentIs
<1>4. /\ CallTyped' /\ call'[k] = d /\ \A o \in Call : o # k => call'[o] = call[o]
      /\ \A K : Flying(K)' = IF d.kind \in K THEN Flying(K) \cup {k} ELSE Flying(K) \ {k}
  BY <1>3, CallChanges
<1> QED
  BY <1>1, <1>2, <1>3, <1>4

LEMMA PatchIs ==
  ASSUME AdminTyped, NEW k \in Call, NEW field \in {"active", "admin"}, Patch(k, field)
  PROVE  /\ AdminTyped' /\ kind = "users" /\ kind' = kind /\ call[k] = Idle
         /\ call'[k].kind = "patch" /\ call'[k].at = "sent"
         /\ \A o \in Call : o # k => call'[o] = call[o]
         /\ \A K : Flying(K)' = IF "patch" \in K THEN Flying(K) \cup {k} ELSE Flying(K) \ {k}
         /\ changes' = changes + 1
         /\ mixed' = (mixed \/ timer # Nothing \/ Flying(Changes) # {})
         /\ UNCHANGED <<list, total, loading, count, answers, missed>>
         /\ UNCHANGED viewVars /\ UNCHANGED <<rows, flag, born, stale, export>>
         /\ UNCHANGED drawerVars
<1>1. /\ drawer.open /\ call[k].at = "free" /\ kind' = kind
      /\ changes < MaxChanges /\ changes' = changes + 1
      /\ mixed' = (mixed \/ timer # Nothing \/ Flying(Changes) # {})
      /\ UNCHANGED <<list, total, loading, count, answers, missed>>
      /\ UNCHANGED viewVars /\ UNCHANGED <<rows, flag, born, stale, export>>
      /\ UNCHANGED drawerVars
  BY DEF Patch
<1>2. PICK v \in BOOLEAN : Sent(k, "patch", field, drawer.user.id, v)
  <2> DEFINE v == IF field = "active" THEN ~drawer.user.flag ELSE ~drawer.user.admin
  <2>1. v \in BOOLEAN
    OBVIOUS
  <2>2. Sent(k, "patch", field, drawer.user.id, v)
    BY Zenon DEF Patch
  <2> HIDE DEF v
  <2> QED
    BY <2>1, <2>2
<1>3. /\ kind = "users" /\ CallTyped' /\ call[k] = Idle
      /\ call'[k].kind = "patch" /\ call'[k].at = "sent"
      /\ \A o \in Call : o # k => call'[o] = call[o]
      /\ \A K : Flying(K)' = IF "patch" \in K THEN Flying(K) \cup {k} ELSE Flying(K) \ {k}
  <2>1. "patch" \in {"patch", "delete"} /\ field \in {Nothing, "active", "admin"}
    OBVIOUS
  <2> QED
    BY <1>1, <1>2, <2>1, ChangeSent
<1>4. ServerTyped' /\ TableTyped'
  BY <1>1, AdminAssumption DEF AdminTyped, ServerTyped, TableTyped
<1> QED
  BY <1>1, <1>3, <1>4, TypedStays DEF AdminTyped

LEMMA DeleteIs ==
  ASSUME AdminTyped, NEW k \in Call, Delete(k)
  PROVE  /\ AdminTyped' /\ kind = "users" /\ kind' = kind /\ call[k] = Idle
         /\ call'[k].kind = "delete" /\ call'[k].at = "sent" /\ call'[k].item = drawer.user.id
         /\ \A o \in Call : o # k => call'[o] = call[o]
         /\ \A K : Flying(K)' = IF "delete" \in K THEN Flying(K) \cup {k} ELSE Flying(K) \ {k}
         /\ changes' = changes + 1 /\ crossed' = crossed
         /\ mixed' = (mixed \/ timer # Nothing \/ Flying(Changes) # {}
                        \/ drawer.user.id \notin Ids(list))
         /\ UNCHANGED <<list, total, loading, count, answers, missed>>
         /\ UNCHANGED viewVars /\ UNCHANGED <<rows, flag, born, stale, export>>
         /\ drawer'.open = FALSE /\ drawer'.loading = drawer.loading
<1>1. /\ drawer.open /\ call[k].at = "free" /\ kind' = kind
      /\ changes < MaxChanges /\ changes' = changes + 1 /\ crossed' = crossed
      /\ Sent(k, "delete", Nothing, drawer.user.id, FALSE)
      /\ drawer' = [Closed EXCEPT !.loading = drawer.loading]
      /\ mixed' = (mixed \/ timer # Nothing \/ Flying(Changes) # {}
                     \/ drawer.user.id \notin Ids(list))
      /\ UNCHANGED <<list, total, loading, count, answers, missed>>
      /\ UNCHANGED viewVars /\ UNCHANGED <<rows, flag, born, stale, export>>
  BY DEF Delete
<1>2. PICK v \in BOOLEAN : Sent(k, "delete", Nothing, drawer.user.id, v)
  BY <1>1, Zenon
<1>3. /\ kind = "users" /\ CallTyped' /\ call[k] = Idle
      /\ call'[k].kind = "delete" /\ call'[k].at = "sent" /\ call'[k].item = drawer.user.id
      /\ \A o \in Call : o # k => call'[o] = call[o]
      /\ \A K : Flying(K)' = IF "delete" \in K THEN Flying(K) \cup {k} ELSE Flying(K) \ {k}
  <2>1. "delete" \in {"patch", "delete"} /\ Nothing \in {Nothing, "active", "admin"}
    OBVIOUS
  <2> QED
    BY <1>1, <1>2, <2>1, ChangeSent
<1>4. ServerTyped' /\ TableTyped'
  BY <1>1, AdminAssumption DEF AdminTyped, ServerTyped, TableTyped
<1>5. DrawerTyped' /\ drawer'.open = FALSE /\ drawer'.loading = drawer.loading
  BY <1>1, ShutTyped
<1> QED
  BY <1>1, <1>3, <1>4, <1>5, TypedStays DEF AdminTyped

-----------------------------------------------------------------------------
(* AdminPages: the answers.                                                 *)

\* After the table has new rows: the call in slot k has ended, and an open drawer may
\* have taken the slot to fetch anew the conversations of the user whom it shows.
LEMMA SyncTyped ==
  ASSUME AdminTyped, kind' = kind, NEW k \in Call, NEW news \in Seq(Row), Sync(k, news)
  PROVE  /\ CallTyped' /\ DrawerTyped' /\ \A o \in Call : o # k => call'[o] = call[o]
         /\ \/ call'[k] = Idle /\ drawer' = drawer /\ crossed' = crossed
            \/ /\ drawer.open /\ kind = "users"
               /\ call'[k].kind = "recent" /\ call'[k].item = drawer.user.id
               /\ drawer'.open /\ drawer'.loading /\ drawer'.user.id = drawer.user.id
               /\ ~crossed' => \A o \in Flying({"recent"}) \ {k} : call[o].item = drawer.user.id
         /\ \A K : "none" \notin K /\ "recent" \notin K => Flying(K)' = Flying(K) \ {k}
<1>1. CASE call' = [call EXCEPT ![k] = Idle] /\ drawer' = drawer /\ crossed' = crossed
  <2>1. /\ CallTyped' /\ call'[k] = Idle /\ \A o \in Call : o # k => call'[o] = call[o]
        /\ \A K : Flying(K)' = IF Idle.kind \in K THEN Flying(K) \cup {k} ELSE Flying(K) \ {k}
    BY <1>1, CallChanges, IdleAdmin
  <2>2. DrawerTyped'
    BY <1>1, TypedStays DEF drawerVars
  <2> QED
    BY <1>1, <2>1, <2>2, IdleAdmin
<1>2. CASE /\ drawer.open /\ kind = "users"
           /\ \E fresh \in Row :
                /\ fresh.id = drawer.user.id /\ Recent(k, fresh)
                /\ drawer' = [drawer EXCEPT !.user = fresh, !.loading = TRUE]
  <2>1. PICK fresh \in Row :
          /\ fresh.id = drawer.user.id /\ Recent(k, fresh)
          /\ drawer' = [drawer EXCEPT !.user = fresh, !.loading = TRUE]
    BY <1>2
  <2>2. PICK d \in AdminCall :
          /\ call' = [call EXCEPT ![k] = d] /\ Formed(d)
          /\ d.kind = "recent" /\ d.at = "sent" /\ d.item = fresh.id
    BY <1>2, <2>1, RecentIs
  <2>3. /\ crossed' \in BOOLEAN
        /\ ~crossed' => \A o \in Flying({"recent"}) \ {k} : call[o].item = fresh.id
    BY <1>2, <2>1, RecentIs
  <2>4. /\ CallTyped' /\ call'[k] = d /\ \A o \in Call : o # k => call'[o] = call[o]
        /\ \A K : Flying(K)' = IF d.kind \in K THEN Flying(K) \cup {k} ELSE Flying(K) \ {k}
    BY <2>2, CallChanges
  <2>5. /\ DrawerTyped' /\ drawer'.user = fresh /\ drawer'.open = TRUE /\ drawer'.loading = TRUE
    BY <1>2, <2>1, <2>3, DrawnTyped
  <2>6. /\ call'[k].kind = "recent" /\ call'[k].item = drawer.user.id
        /\ drawer'.open /\ drawer'.loading /\ drawer'.user.id = drawer.user.id
        /\ ~crossed' => \A o \in Flying({"recent"}) \ {k} : call[o].item = drawer.user.id
    BY <2>1, <2>2, <2>3, <2>4, <2>5
  <2>7. \A K : "none" \notin K /\ "recent" \notin K => Flying(K)' = Flying(K) \ {k}
    BY <2>2, <2>4
  <2> QED
    BY <1>2, <2>4, <2>5, <2>6, <2>7
<1> QED
  BY <1>1, <1>2, SyncIs

LEMMA EndLoadIs ==
  ASSUME EndLoad, count \in Nat
  PROVE  /\ loading' \in BOOLEAN /\ count' = (IF count = 0 THEN 0 ELSE count - 1)
         /\ (loading' <=> count' > 0)
<1>1. count' = (IF count = 0 THEN 0 ELSE count - 1) /\ loading' = (count' > 0)
  BY DEF EndLoad
<1>2. (count' > 0) \in BOOLEAN
  OBVIOUS
<1> QED
  BY <1>1, <1>2, Zenon

\* What is left of a call, from what is known of it.
LEMMA ApplyTableIs ==
  ASSUME AdminTyped, NEW k \in Call, ApplyTable(k)
  PROVE  /\ AdminTyped' /\ kind' = kind /\ mixed' = mixed
         /\ call[k].kind = "table" /\ EndLoad /\ \A o \in Call : o # k => call'[o] = call[o]
         /\ \A K : "none" \notin K /\ "recent" \notin K => Flying(K)' = Flying(K) \ {k}
         /\ UNCHANGED viewVars /\ UNCHANGED serverVars
         /\ \/ /\ call[k].at = "ok"
               /\ list' = call[k].rows /\ total' = call[k].total /\ answers' = call[k].query
               /\ missed' = FALSE /\ Sync(k, call[k].rows)
            \/ /\ missed' = TRUE /\ Gone(k)
               /\ UNCHANGED <<list, total, answers>> /\ UNCHANGED drawerVars
<1> DEFINE c == call[k]
<1>1. /\ c.kind = "table" /\ EndLoad /\ kind' = kind /\ mixed' = mixed
      /\ UNCHANGED viewVars /\ UNCHANGED serverVars
      /\ \/ /\ c.at = "ok" /\ list' = c.rows /\ total' = c.total /\ answers' = c.query
            /\ missed' = FALSE /\ Sync(k, c.rows)
         \/ /\ missed' = TRUE /\ Gone(k)
            /\ UNCHANGED <<list, total, answers>> /\ UNCHANGED drawerVars
  BY DEF ApplyTable
<1>2. /\ c.query \in Query /\ c.rows \in Seq(Row) /\ c.total \in Int
      /\ c.total <= Cardinality(Item)
  BY <1>1, CallFields, ItemCount DEF Formed
<1>3. loading' \in BOOLEAN
  BY <1>1 DEF EndLoad
<1> HIDE DEF c
<1>4. TableTyped'
  BY <1>1, <1>2, <1>3 DEF AdminTyped, TableTyped
<1>5. /\ CallTyped' /\ DrawerTyped' /\ \A o \in Call : o # k => call'[o] = call[o]
      /\ \A K : "none" \notin K /\ "recent" \notin K => Flying(K)' = Flying(K) \ {k}
  <2>1. CASE Sync(k, c.rows)
    BY <1>1, <1>2, <2>1, SyncTyped
  <2>2. CASE Gone(k) /\ UNCHANGED drawerVars
    BY <1>1, <2>2, CallEnds, TypedStays
  <2> QED
    BY <1>1, <2>1, <2>2
<1> QED
  BY <1>1, <1>4, <1>5, TypedStays DEF AdminTyped, c

LEMMA ApplyOwnersIs ==
  ASSUME AdminTyped, NEW k \in Call, ApplyOwners(k)
  PROVE  /\ AdminTyped' /\ kind' = kind /\ kind = "conversations"
         /\ call[k].kind = "owners" /\ EndLoad /\ Gone(k)
         /\ UNCHANGED <<list, total, answers, mixed, missed>>
         /\ UNCHANGED viewVars /\ UNCHANGED serverVars /\ UNCHANGED drawerVars
<1>1. /\ call[k].kind = "owners" /\ EndLoad /\ Gone(k) /\ kind' = kind
      /\ UNCHANGED <<list, total, answers, mixed, missed>>
      /\ UNCHANGED viewVars /\ UNCHANGED serverVars /\ UNCHANGED drawerVars
  BY DEF ApplyOwners
<1>2. kind = "conversations"
  BY <1>1, CallFields DEF Formed
<1>3. TableTyped'
  BY <1>1 DEF AdminTyped, TableTyped, EndLoad
<1>4. CallTyped'
  BY <1>1, CallEnds
<1> QED
  BY <1>1, <1>2, <1>3, <1>4, TypedStays DEF AdminTyped

\* A row that a change replaces.
LEMMA PatchedTyped ==
  ASSUME NEW l \in Seq(Row), NEW i, NEW r \in Row
  PROVE  /\ [j \in DOMAIN l |-> IF l[j].id = i THEN r ELSE l[j]] \in Seq(Row)
<1> DEFINE t == [j \in DOMAIN l |-> IF l[j].id = i THEN r ELSE l[j]]
<1>1. \A j \in 1 .. Len(l) : (IF l[j].id = i THEN r ELSE l[j]) \in Row
  OBVIOUS
<1>2. t \in [1 .. Len(l) -> Row] /\ Len(l) \in Nat
  BY <1>1
<1> HIDE DEF t
<1>3. t \in Seq(Row)
  BY <1>2
<1> QED
  BY <1>3 DEF t

LEMMA ApplyPatchIs ==
  ASSUME AdminTyped, NEW k \in Call, ApplyPatch(k)
  PROVE  /\ AdminTyped' /\ kind' = kind /\ kind = "users" /\ call[k].kind = "patch"
         /\ \A o \in Call : o # k => call'[o] = call[o]
         /\ \A K : "none" \notin K /\ "recent" \notin K => Flying(K)' = Flying(K) \ {k}
         /\ UNCHANGED <<total, loading, count, answers, mixed>>
         /\ UNCHANGED viewVars /\ UNCHANGED serverVars
         /\ \/ /\ call[k].at = "ok" /\ list' = Patched(list, call[k]) /\ missed' = missed
               /\ \E news \in Seq(Row) : Sync(k, news)
            \/ /\ missed' = TRUE /\ Gone(k) /\ list' = list /\ UNCHANGED drawerVars
<1> DEFINE c == call[k]
           news == IF c.item \in Ids(list) THEN c.rows ELSE <<>>
<1>1. /\ c.kind = "patch" /\ kind' = kind
      /\ UNCHANGED <<total, loading, count, answers, mixed>>
      /\ UNCHANGED viewVars /\ UNCHANGED serverVars
      /\ \/ c.at = "ok" /\ list' = Patched(list, c) /\ Sync(k, news) /\ missed' = missed
         \/ missed' = TRUE /\ Gone(k) /\ list' = list /\ UNCHANGED drawerVars
  BY DEF ApplyPatch, Patched
<1>2. /\ c.item \in Item /\ kind = "users" /\ c.rows \in Seq(Row)
      /\ c.at = "ok" => Len(c.rows) = 1 /\ c.rows[1] \in Row
  BY <1>1, CallFields DEF Formed
<1>3. news \in Seq(Row)
  BY <1>2
<1> HIDE DEF c, news
<1>4. list \in Seq(Row) /\ missed \in BOOLEAN
  BY DEF AdminTyped, TableTyped
<1>5. list' \in Seq(Row) /\ missed' \in BOOLEAN
  <2>1. CASE c.at = "ok" /\ list' = Patched(list, c) /\ missed' = missed
    BY <1>2, <1>4, <2>1, PatchedTyped DEF Patched
  <2> QED
    BY <1>1, <1>4, <2>1
<1>6. TableTyped'
  BY <1>1, <1>5 DEF AdminTyped, TableTyped
<1>7. /\ CallTyped' /\ DrawerTyped' /\ \A o \in Call : o # k => call'[o] = call[o]
      /\ \A K : "none" \notin K /\ "recent" \notin K => Flying(K)' = Flying(K) \ {k}
  <2>1. CASE Sync(k, news)
    BY <1>1, <1>3, <2>1, SyncTyped
  <2>2. CASE Gone(k) /\ UNCHANGED drawerVars
    BY <1>1, <2>2, CallEnds, TypedStays
  <2> QED
    BY <1>1, <2>1, <2>2
<1> QED
  BY <1>1, <1>2, <1>3, <1>6, <1>7, TypedStays DEF AdminTyped, c

LEMMA ApplyDeleteIs ==
  ASSUME AdminTyped, NEW k \in Call, ApplyDelete(k)
  PROVE  /\ AdminTyped' /\ kind' = kind /\ kind = "users" /\ call[k].kind = "delete" /\ Gone(k)
         /\ UNCHANGED <<loading, count, answers, mixed>>
         /\ UNCHANGED viewVars /\ UNCHANGED serverVars /\ UNCHANGED drawerVars
         /\ \/ /\ call[k].at = "ok" /\ list' = Without(list, call[k]) /\ total' = total - 1
               /\ missed' = missed
            \/ missed' = TRUE /\ UNCHANGED <<list, total>>
<1> DEFINE c == call[k]
<1>1. /\ c.kind = "delete" /\ kind' = kind /\ Gone(k)
      /\ UNCHANGED <<loading, count, answers, mixed>>
      /\ UNCHANGED viewVars /\ UNCHANGED serverVars /\ UNCHANGED drawerVars
      /\ \/ c.at = "ok" /\ list' = Without(list, c) /\ total' = total - 1 /\ missed' = missed
         \/ missed' = TRUE /\ UNCHANGED <<list, total>>
  BY DEF ApplyDelete, Without
<1>2. kind = "users"
  BY <1>1, CallFields DEF Formed
<1> HIDE DEF c
<1>3. list \in Seq(Row) /\ total \in Int /\ total <= Cardinality(Item) /\ missed \in BOOLEAN
  BY DEF AdminTyped, TableTyped
<1>4. Without(list, c) \in Seq(Row)
  <2> DEFINE T == {r \in Row : r.id # c.item}
  <2>1. Keep(list, T) \in Seq(Row)
    BY <1>3, Kept
  <2> QED
    BY <2>1 DEF Without
<1>5. list' \in Seq(Row) /\ total' \in Int /\ total' <= Cardinality(Item) /\ missed' \in BOOLEAN
  <2>0. Cardinality(Item) \in Nat
    BY ItemCount
  <2>1. CASE list' = Without(list, c) /\ total' = total - 1 /\ missed' = missed
    BY <1>3, <1>4, <2>0, <2>1
  <2>2. CASE missed' = TRUE /\ UNCHANGED <<list, total>>
    BY <1>3, <2>2
  <2> QED
    BY <1>1, <2>1, <2>2
<1>6. TableTyped'
  BY <1>1, <1>5 DEF AdminTyped, TableTyped
<1>7. CallTyped'
  BY <1>1, CallEnds
<1> QED
  BY <1>1, <1>2, <1>6, <1>7, TypedStays DEF AdminTyped, c

-----------------------------------------------------------------------------
(* AdminPages: the fetches, the export, and the first state.                *)

\* The three steps that fetch the table.
LEMMA FetchesAre ==
  ASSUME AdminTyped, NEW k \in Call,
         \/ FireTimer(k)
         \/ \E f \in {"all", "part"} : FilterRatings(k, f)
         \/ \E p \in {page - 1, page + 1} : TurnRatings(k, p)
  PROVE  /\ AdminTyped' /\ kind' = kind /\ kind # "export" /\ timer' = Nothing
         /\ UNCHANGED serverVars /\ UNCHANGED drawerVars
         /\ \E query \in Query :
              /\ Fetch(k, query)
              /\ (query = timer /\ UNCHANGED <<filter, page>>) \/ query = Shown'
<1>0. /\ filter \in {"all", "part"} /\ page \in 0 .. Cardinality(Item)
      /\ timer \in Query \cup {Nothing} /\ (kind \in {"ratings", "export"} => timer = Nothing)
      /\ kind \in {"users", "conversations", "ratings", "export"}
  BY DEF AdminTyped, ViewTyped
<1>1. /\ kind' = kind /\ kind # "export" /\ timer' = Nothing
      /\ UNCHANGED serverVars /\ UNCHANGED drawerVars
      /\ filter' \in {"all", "part"} /\ page' \in 0 .. Cardinality(Item)
      /\ \E query \in Query :
           /\ Fetch(k, query)
           /\ (query = timer /\ UNCHANGED <<filter, page>>) \/ query = Shown'
  <2>1. CASE FireTimer(k)
    BY <1>0, <2>1 DEF FireTimer
  <2>2. CASE \E f \in {"all", "part"} : FilterRatings(k, f)
    <3>1. PICK f \in {"all", "part"} : FilterRatings(k, f)
      BY <2>2
    <3> DEFINE query == [filter |-> f, page |-> 0]
    <3>2. /\ kind = "ratings" /\ filter' = f /\ page' = 0 /\ Fetch(k, query) /\ kind' = kind
          /\ timer' = timer /\ UNCHANGED serverVars /\ UNCHANGED drawerVars
      BY <3>1 DEF FilterRatings
    <3>3. query \in Query /\ query = Shown' /\ 0 \in 0 .. Cardinality(Item)
      BY <3>2, ItemCount DEF Query, Shown
    <3> HIDE DEF query
    <3> QED
      BY <1>0, <3>2, <3>3
  <2>3. CASE \E p \in {page - 1, page + 1} : TurnRatings(k, p)
    <3>1. PICK p \in {page - 1, page + 1} : TurnRatings(k, p)
      BY <2>3
    <3> DEFINE query == [filter |-> filter, page |-> p]
    <3>2. /\ kind = "ratings" /\ filter' = filter /\ page' = p /\ Fetch(k, query) /\ kind' = kind
          /\ timer' = timer /\ UNCHANGED serverVars /\ UNCHANGED drawerVars
          /\ \/ p = page - 1 /\ page > 0
             \/ p = page + 1 /\ page < Pages(total) - 1
      BY <3>1 DEF TurnRatings
    <3>3. p \in 0 .. Cardinality(Item)
      BY <3>2, TurnedTo
    <3>4. query \in Query /\ query = Shown'
      BY <1>0, <3>2, <3>3 DEF Query, Shown
    <3> HIDE DEF query
    <3> QED
      BY <1>0, <3>2, <3>3, <3>4
  <2> QED
    BY <2>1, <2>2, <2>3
<1>2. PICK query \in Query : Fetch(k, query)
  BY <1>1
<1>3. CallTyped' /\ TableTyped'
  BY <1>1, <1>2, FetchIs
<1>4. ViewTyped'
  BY <1>0, <1>1 DEF ViewTyped
<1> QED
  BY <1>1, <1>3, <1>4, TypedStays DEF AdminTyped

\* The steps of the export.
LEMMA ExportTyped ==
  ASSUME AdminTyped, ExportBegin \/ ExportCount \/ ExportSelect
  PROVE  /\ AdminTyped' /\ kind = "export" /\ kind' = kind /\ call' = call
         /\ UNCHANGED <<rows, flag, born, changes, stale>>
         /\ UNCHANGED viewVars /\ UNCHANGED tableVars /\ UNCHANGED drawerVars
<1>0. /\ rows \in Seq(Item) /\ IsInjective(rows) /\ export \in AdminExport
      /\ (kind # "export" => export = NoExport) /\ (export.at = "idle" => export = NoExport)
      /\ filter \in {"all", "part"} /\ NoExport.at = "idle"
  BY DEF AdminTyped, ServerTyped, ViewTyped, NoExport
<1>1. /\ kind' = kind /\ call' = call
      /\ UNCHANGED <<rows, flag, born, changes, stale>>
      /\ UNCHANGED viewVars /\ UNCHANGED tableVars /\ UNCHANGED drawerVars
      /\ kind = "export"
  BY <1>0 DEF ExportBegin, ExportCount, ExportSelect
<1>2. ASSUME NEW f \in {"all", "part"}
      PROVE  /\ Hits(f) \in Seq(Item) /\ ToSet(Hits(f)) \subseteq Item
             /\ Len(Hits(f)) \in Nat
  BY <1>0, HitsTyped, Entries DEF Hits
<1>3. /\ export.filter \in {"all", "part"} /\ export.skip \in Nat /\ export.total \in Nat
      /\ export.out \in Seq(Item)
  BY <1>0 DEF AdminExport
<1>4. export' \in AdminExport /\ export'.at # "idle"
  <2>1. CASE ExportBegin
    <3> DEFINE b == ToSet(Hits(filter))
    <3>1. b \in SUBSET Item
      BY <1>0, <1>2
    <3> HIDE DEF b
    <3>2. export' = [export EXCEPT !.at = "count", !.filter = filter, !.base = b]
      BY <2>1 DEF ExportBegin, b
    <3> QED
      BY <1>0, <3>1, <3>2 DEF AdminExport
  <2>2. CASE ExportCount
    <3> DEFINE n == Len(Hits(export.filter))
    <3>1. n \in Nat
      BY <1>2, <1>3
    <3> HIDE DEF n
    <3>2. export' = [export EXCEPT !.at = "select", !.total = n]
      BY <2>2 DEF ExportCount, n
    <3> QED
      BY <1>0, <3>1, <3>2 DEF AdminExport
  <2>3. CASE ExportSelect
    <3> DEFINE chunk == Slice(Hits(export.filter), export.skip, Chunk)
               next == export.skip + Chunk
               a == IF chunk = <<>> \/ next >= export.total THEN "done" ELSE "count"
               o == export.out \o chunk
               p == IF chunk = <<>> THEN export.skip ELSE next
    <3>1. chunk \in Seq(Item) /\ next \in Nat
      <4>1. Chunk \in Nat /\ Hits(export.filter) \in Seq(Item)
        BY <1>2, <1>3, AdminAssumption
      <4>2. chunk \in Seq(Item)
        BY <1>3, <4>1, Sliced
      <4> QED
        BY <1>3, <4>1, <4>2
    <3>2. a \in {"done", "count"} /\ o \in Seq(Item) /\ p \in Nat
      BY <1>3, <3>1
    <3>3. export' = [export EXCEPT !.at = a, !.out = o, !.skip = p]
      BY <2>3 DEF ExportSelect
    <3> HIDE DEF a, o, p
    <3> QED
      BY <1>0, <3>2, <3>3 DEF AdminExport
  <2> QED
    BY <2>1, <2>2, <2>3
<1>5. ServerTyped'
  BY <1>1, <1>4 DEF AdminTyped, ServerTyped
<1> QED
  BY <1>1, <1>5, TypedStays DEF AdminTyped

LEMMA InitTyped == AdminInit => AdminTyped
<1> SUFFICES ASSUME AdminInit PROVE AdminTyped
  OBVIOUS
<1>1. /\ kind \in {"users", "conversations", "ratings", "export"} /\ filter \in {"all", "part"}
      /\ page = 0 /\ 0 \in 0 .. Cardinality(Item) /\ changes = 0
      /\ timer = IF kind \in {"ratings", "export"} THEN Nothing ELSE [filter |-> filter, page |-> 0]
  BY ItemCount DEF AdminInit
<1>2. ViewTyped
  <2>1. [filter |-> filter, page |-> 0] \in Query
    BY <1>1 DEF Query
  <2>2. /\ timer \in Query \cup {Nothing}
        /\ (kind \in {"ratings", "export"} => timer = Nothing)
    BY <1>1, <2>1
  <2> QED
    BY <1>1, <2>2 DEF ViewTyped
<1>3. TableTyped
  <2>0. mixed = FALSE /\ missed = FALSE /\ loading = (kind \in {"conversations", "ratings"})
    BY DEF AdminInit
  <2>1. /\ list = <<>> /\ total = 0 /\ answers = Nothing
        /\ mixed \in BOOLEAN /\ missed \in BOOLEAN /\ loading \in BOOLEAN
    <3>1. (kind \in {"conversations", "ratings"}) \in BOOLEAN
      OBVIOUS
    <3>2. mixed \in BOOLEAN /\ missed \in BOOLEAN /\ loading \in BOOLEAN
      BY <2>0, <3>1, Zenon
    <3> QED
      BY <3>2 DEF AdminInit
  <2>2. list \in Seq(Row) /\ total \in Int /\ total <= Cardinality(Item)
    BY <2>1, ItemCount
  <2> QED
    BY <2>1, <2>2 DEF TableTyped
<1>4. ServerTyped
  <2>1. First \in SUBSET Item /\ IsFiniteSet(First)
    BY AdminAssumption, ItemCount
  <2>2. SetToSeq(First) \in Seq(Item) /\ ToSet(SetToSeq(First)) = First /\ IsInjective(SetToSeq(First))
    BY <2>1, Listing
  <2>3. /\ rows = SetToSeq(First) /\ born = First /\ changes = 0 /\ stale = FALSE
        /\ flag = [i \in Item |-> i \in Found] /\ export = NoExport
    BY DEF AdminInit
  <2>4. flag \in [Item -> BOOLEAN] /\ changes \in 0 .. MaxChanges
    BY <2>3, AdminAssumption
  <2>5. NoExport \in AdminExport
    BY DEF NoExport, AdminExport
  <2> QED
    BY <2>1, <2>2, <2>3, <2>4, <2>5 DEF ServerTyped
<1>5. DrawerTyped
  BY DEF AdminInit, DrawerTyped, Closed, AdminDrawer
<1>6. CallTyped
  <2>1. CASE kind \in {"users", "export"}
    <3>1. call = [k \in Call |-> Idle]
      BY <2>1 DEF AdminInit
    <3> QED
      BY <3>1, IdleAdmin DEF CallTyped
  <2>2. CASE kind \notin {"users", "export"}
    <3> DEFINE what == IF kind = "ratings" THEN "table" ELSE "owners"
               query == IF kind = "ratings" THEN [filter |-> filter, page |-> 0] ELSE Nothing
               d == [Idle EXCEPT !.at = "sent", !.kind = what, !.query = query]
    <3>1. PICK k \in Call : call = [c \in Call |-> IF c # k THEN Idle ELSE d]
      BY <2>2 DEF AdminInit
    <3>2. /\ what \in {"table", "owners"} /\ query \in Query \cup {Nothing}
          /\ what = "table" => query \in Query /\ kind # "export"
          /\ what = "owners" => kind = "conversations"
      BY <1>1, <2>2 DEF Query
    <3> HIDE DEF what, query
    <3>3. d \in AdminCall
      BY <3>2, IdleAdmin DEF AdminCall
    <3>4. d.kind = what /\ d.at = "sent" /\ d.query = query
      BY IdleAdmin DEF AdminCall
    <3> HIDE DEF d
    <3>5. Formed(d)
      BY <3>2, <3>4, IdleAdmin DEF Formed
    <3> QED
      BY <3>1, <3>3, <3>5, IdleAdmin DEF CallTyped
  <2> QED
    BY <2>1, <2>2
<1> QED
  BY <1>2, <1>3, <1>4, <1>5, <1>6 DEF AdminTyped

-----------------------------------------------------------------------------
(* AdminPages: the total is short by no more than was deleted.              *)

\* What an answer leaves as it is.
LEMMA AnsweredIs ==
  ASSUME AdminTyped, NEW k \in Call, Serve(k) \/ Lose(k)
  PROVE  /\ AdminTyped' /\ kind' = kind /\ call[k].kind # "none"
         /\ UNCHANGED viewVars /\ UNCHANGED tableVars /\ UNCHANGED drawerVars
         /\ changes' = changes
         /\ \A o \in Call : /\ o # k => call'[o] = call[o]
                            /\ call'[o].kind = call[o].kind /\ call'[o].item = call[o].item
                            /\ call'[o].query = call[o].query
         /\ \A K : Flying(K)' = Flying(K)
<1>1. PICK d \in AdminCall :
        /\ call' = [call EXCEPT ![k] = d] /\ Formed(d)
        /\ d.kind = call[k].kind /\ d.query = call[k].query /\ d.item = call[k].item
  BY ServeIs, LoseIs
<1>2. /\ AdminTyped' /\ kind' = kind /\ changes' = changes /\ call[k].kind # "none"
      /\ UNCHANGED viewVars /\ UNCHANGED tableVars /\ UNCHANGED drawerVars
  BY ServeIs, LoseIs, ServeTyped, LoseTyped DEF serverVars
<1>3. call'[k] = d /\ \A o \in Call : o # k => call'[o] = call[o]
  BY <1>1, <1>2, CallChanges
<1>4. ASSUME NEW K PROVE Flying(K)' = Flying(K)
  <2>1. \A o \in Call : call'[o].kind = call[o].kind
    BY <1>1, <1>3
  <2> QED
    BY <2>1 DEF Flying
<1> QED
  BY <1>1, <1>2, <1>3, <1>4

\* The calls of a kind when slot k, of another kind, is used or freed.
LEMMA SlotAway ==
  ASSUME NEW K, NEW k \in Call, call[k].kind \notin K, Flying(K)' = Flying(K) \ {k}
  PROVE  Flying(K)' = Flying(K)
BY DEF Flying

-----------------------------------------------------------------------------
LEMMA CountsStay ==
  ASSUME AdminTyped, Counts, total' \in Int, changes' \in Int, changes' >= changes,
         total' = total \/ total' >= 0, Flying({"delete"})' \subseteq Flying({"delete"})
  PROVE  Counts'
<1> DEFINE F == Flying({"delete"})
           n == Cardinality(F)
<1>1. IsFiniteSet(F) /\ n \in Nat
  BY FlyingCount, ItemCount
<1>2. Cardinality(F') \in Nat /\ Cardinality(F') <= n
  BY <1>1, FS_Subset, FS_CardinalityType
<1>3. n <= changes /\ n <= total + changes /\ changes \in Int /\ total \in Int
  BY DEF Counts, AdminTyped, ServerTyped, TableTyped
<1>4. Counts' <=> (Cardinality(F') <= changes' /\ Cardinality(F') <= total' + changes')
  BY DEF Counts
<1> HIDE DEF F, n
<1> QED
  BY <1>1, <1>2, <1>3, <1>4

LEMMA CountsNext == ASSUME AdminTyped, Counts, AdminNext PROVE Counts'
<1> DEFINE F == Flying({"delete"})
<1>0. changes \in Int /\ total \in Int
  BY DEF AdminTyped, ServerTyped, TableTyped
<1>1. ASSUME AdminTyped', changes' = changes \/ changes' = changes + 1, total' = total \/ total' >= 0,
             F' \subseteq F
      PROVE  Counts'
  <2>1. changes' \in Int /\ total' \in Int
    BY <1>1 DEF AdminTyped, ServerTyped, TableTyped
  <2> QED
    BY <1>0, <1>1, <2>1, CountsStay
<1>2. call' = call => F' \subseteq F
  BY DEF Flying
<1>3. CASE Others
  BY <1>1, <1>2, <1>3, OthersAre, OthersTyped DEF tableVars
<1>4. CASE CloseDrawer
  BY <1>1, <1>2, <1>4, CloseDrawerIs DEF tableVars, serverVars
<1>5. CASE ExportBegin \/ ExportCount \/ ExportSelect
  BY <1>1, <1>2, <1>5, ExportTyped DEF tableVars
<1>6. ASSUME \/ \E f \in {"all", "part"} : Filter(f)
             \/ \E p \in {page - 1, page + 1} : Turn(p)
      PROVE  Counts'
  BY <1>1, <1>2, <1>6, ViewChangesTyped DEF tableVars, serverVars
<1>7. ASSUME NEW k \in Call, Serve(k) \/ Lose(k) PROVE Counts'
  BY <1>1, <1>7, AnsweredIs DEF tableVars
<1>8. ASSUME NEW k \in Call,
             \/ FireTimer(k)
             \/ \E f \in {"all", "part"} : FilterRatings(k, f)
             \/ \E p \in {page - 1, page + 1} : TurnRatings(k, p)
      PROVE  Counts'
  <2>1. PICK query \in Query : Fetch(k, query)
    BY <1>8, FetchesAre
  <2>2. AdminTyped' /\ kind' = kind /\ kind # "export" /\ UNCHANGED serverVars
    BY <1>8, FetchesAre
  <2>3. F' = F \ {k} /\ total' = total
    BY <2>1, <2>2, FetchIs
  <2> QED
    BY <1>1, <2>2, <2>3 DEF serverVars
<1>9. ASSUME NEW k \in Call, NEW shown \in ToSet(list), OpenDrawer(k, shown) PROVE Counts'
  <2>1. AdminTyped' /\ kind' = kind /\ UNCHANGED serverVars /\ UNCHANGED tableVars /\ kind = "users"
        /\ shown \in Row /\ Recent(k, shown)
    BY <1>9, OpenDrawerIs
  <2>2. PICK d \in AdminCall : call' = [call EXCEPT ![k] = d] /\ Formed(d) /\ d.kind = "recent"
    BY <2>1, RecentIs
  <2>3. F' = F \ {k}
    BY <2>1, <2>2, CallChanges
  <2> QED
    BY <1>1, <2>1, <2>3 DEF serverVars, tableVars
<1>10. ASSUME NEW k \in Call, ApplyRecent(k) PROVE Counts'
  <2>1. AdminTyped' /\ kind' = kind /\ UNCHANGED serverVars /\ UNCHANGED tableVars /\ Gone(k)
    BY <1>10, ApplyRecentIs
  <2>2. F' = F \ {k}
    BY <2>1, CallEnds
  <2> QED
    BY <1>1, <2>1, <2>2 DEF serverVars, tableVars
<1>11. ASSUME NEW k \in Call, ApplyOwners(k) PROVE Counts'
  <2>1. AdminTyped' /\ kind' = kind /\ UNCHANGED serverVars /\ total' = total /\ Gone(k)
    BY <1>11, ApplyOwnersIs
  <2>2. F' = F \ {k}
    BY <2>1, CallEnds
  <2> QED
    BY <1>1, <2>1, <2>2 DEF serverVars
<1>12. ASSUME NEW k \in Call, ApplyTable(k) PROVE Counts'
  <2>1. AdminTyped' /\ UNCHANGED serverVars /\ F' = F \ {k}
        /\ (total' = call[k].total \/ total' = total)
    BY <1>12, ApplyTableIs
  <2>2. call[k].total >= 0
    BY CallFields, ItemCount
  <2> QED
    BY <1>1, <2>1, <2>2 DEF serverVars
<1>13. ASSUME NEW k \in Call, ApplyPatch(k) PROVE Counts'
  <2>1. AdminTyped' /\ UNCHANGED serverVars /\ F' = F \ {k} /\ total' = total
    BY <1>13, ApplyPatchIs
  <2> QED
    BY <1>1, <2>1 DEF serverVars
<1>14. ASSUME NEW k \in Call, NEW field \in {"active", "admin"}, Patch(k, field) PROVE Counts'
  <2>1. AdminTyped' /\ changes' = changes + 1 /\ F' = F \ {k} /\ total' = total
    BY <1>14, PatchIs
  <2> QED
    BY <1>1, <2>1
<1>15. ASSUME NEW k \in Call, Delete(k) PROVE Counts'
  <2>1. /\ call[k] = Idle /\ changes' = changes + 1 /\ F' = F \cup {k} /\ total' = total
    BY <1>15, DeleteIs
  <2>2. k \notin F
    BY <2>1, IdleAdmin DEF Flying
  <2>3. Cardinality(F \cup {k}) = Cardinality(F) + 1 /\ Cardinality(F) \in Nat
    BY <2>2, FlyingCount, ItemCount
  <2>4. Cardinality(F)' = Cardinality(F) + 1
    BY <2>1, <2>3
  <2> QED
    BY <1>0, <2>1, <2>3, <2>4 DEF Counts
<1>16. ASSUME NEW k \in Call, ApplyDelete(k) PROVE Counts'
  <2>1. /\ call[k].kind = "delete" /\ Gone(k) /\ kind' = kind /\ UNCHANGED serverVars
        /\ (total' = total - 1 \/ total' = total)
    BY <1>16, ApplyDeleteIs
  <2>2. k \in F /\ F' = F \ {k}
    BY <2>1, CallEnds DEF Flying
  <2>3. Cardinality(F \ {k}) = Cardinality(F) - 1 /\ Cardinality(F) \in Nat
    BY <2>2, FlyingCount, ItemCount
  <2>4. Cardinality(F)' = Cardinality(F) - 1 /\ changes' = changes
    BY <2>1, <2>2, <2>3 DEF serverVars
  <2> QED
    BY <1>0, <2>1, <2>3, <2>4 DEF Counts
<1> QED
  BY <1>3, <1>4, <1>5, <1>6, <1>7, <1>8, <1>9, <1>10, <1>11, <1>12, <1>13, <1>14, <1>15, <1>16
     DEF AdminNext

-----------------------------------------------------------------------------
(* AdminPages: the skeletons and the drawer.                                *)

LEMMA LoadStays ==
  ASSUME LoadInv, kind' = kind, count' = count, loading' = loading,
         Flying({"table", "owners"})' = Flying({"table", "owners"}),
         Flying({"table"})' = Flying({"table"})
  PROVE  LoadInv'
BY Zenon DEF LoadInv

LEMMA LoadNext == ASSUME AdminTyped, LoadInv, AdminNext PROVE LoadInv'
<1> DEFINE L == Flying({"table", "owners"})
           T == Flying({"table"})
<1>0. count \in Nat /\ (count > 0 => loading)
  <2>1. Cardinality(L) \in Nat
    BY FlyingCount, ItemCount
  <2> QED
    BY <2>1 DEF LoadInv
<1>1. call' = call => L' = L /\ T' = T
  BY DEF Flying
<1>2. CASE Others
  BY <1>1, <1>2, OthersAre, LoadStays DEF tableVars
<1>3. CASE CloseDrawer
  BY <1>1, <1>3, CloseDrawerIs, LoadStays DEF tableVars
<1>4. CASE ExportBegin \/ ExportCount \/ ExportSelect
  BY <1>1, <1>4, ExportTyped, LoadStays DEF tableVars
<1>5. ASSUME \/ \E f \in {"all", "part"} : Filter(f)
             \/ \E p \in {page - 1, page + 1} : Turn(p)
      PROVE  LoadInv'
  BY <1>1, <1>5, ViewChangesTyped, LoadStays DEF tableVars
<1>6. ASSUME NEW k \in Call, Serve(k) \/ Lose(k) PROVE LoadInv'
  BY <1>6, AnsweredIs, LoadStays DEF tableVars
<1>7. ASSUME NEW k \in Call,
             \/ FireTimer(k)
             \/ \E f \in {"all", "part"} : FilterRatings(k, f)
             \/ \E p \in {page - 1, page + 1} : TurnRatings(k, p)
      PROVE  LoadInv'
  <2>1. PICK query \in Query : Fetch(k, query)
    BY <1>7, FetchesAre
  <2>2. kind' = kind /\ kind # "export"
    BY <1>7, FetchesAre
  <2>3. /\ call[k] = Idle /\ L' = L \cup {k} /\ T' = T \cup {k}
        /\ loading' = TRUE /\ count' = (IF kind = "conversations" THEN count + 1 ELSE count)
    BY <2>1, <2>2, FetchIs
  <2>4. k \notin L
    BY <2>3, IdleAdmin DEF Flying
  <2>5. Cardinality(L \cup {k}) = Cardinality(L) + 1 /\ Cardinality(L) \in Nat
    BY <2>4, FlyingCount, ItemCount
  <2>6. Cardinality(L)' = Cardinality(L) + 1
    BY <2>3, <2>5
  <2> HIDE DEF L, T
  <2>7. LoadInv' <=> (IF kind' = "conversations" THEN count' = Cardinality(L)' /\ (loading' <=> count' > 0)
                      ELSE count' = 0 /\ (loading' => T' # {}))
    BY DEF LoadInv, L, T
  <2>8. LoadInv <=> (IF kind = "conversations" THEN count = Cardinality(L) /\ (loading <=> count > 0)
                     ELSE count = 0 /\ (loading => T # {}))
    BY DEF LoadInv, L, T
  <2> QED
    BY <2>2, <2>3, <2>5, <2>6, <2>7, <2>8
<1>8. ASSUME NEW k \in Call, NEW shown \in ToSet(list), OpenDrawer(k, shown) PROVE LoadInv'
  <2>1. /\ kind' = kind /\ UNCHANGED tableVars /\ kind = "users" /\ call[k] = Idle
        /\ shown \in Row /\ Recent(k, shown)
    BY <1>8, OpenDrawerIs
  <2>2. PICK d \in AdminCall : call' = [call EXCEPT ![k] = d] /\ Formed(d) /\ d.kind = "recent"
    BY <2>1, RecentIs
  <2>3. L' = L \ {k} /\ T' = T \ {k}
    BY <2>1, <2>2, CallChanges
  <2>4. L' = L /\ T' = T
    BY <2>1, <2>3, IdleAdmin, SlotAway
  <2> QED
    BY <2>1, <2>4, LoadStays DEF tableVars
<1>9. ASSUME NEW k \in Call, ApplyRecent(k) \/ ApplyDelete(k) PROVE LoadInv'
  <2>1. /\ kind' = kind /\ count' = count /\ loading' = loading /\ Gone(k)
        /\ call[k].kind \in {"recent", "delete"}
    BY <1>9, ApplyRecentIs, ApplyDeleteIs DEF tableVars
  <2>2. L' = L \ {k} /\ T' = T \ {k}
    BY <2>1, CallEnds
  <2>3. L' = L /\ T' = T
    BY <2>1, <2>2, SlotAway
  <2> QED
    BY <2>1, <2>3, LoadStays
<1>10. ASSUME NEW k \in Call, ApplyPatch(k) PROVE LoadInv'
  <2>1. /\ kind' = kind /\ count' = count /\ loading' = loading
        /\ call[k].kind = "patch" /\ L' = L \ {k} /\ T' = T \ {k}
    BY <1>10, ApplyPatchIs
  <2>2. L' = L /\ T' = T
    BY <2>1, SlotAway
  <2> QED
    BY <2>1, <2>2, LoadStays
<1>11. ASSUME NEW k \in Call, ApplyTable(k) \/ ApplyOwners(k) PROVE LoadInv'
  <2>1. /\ kind' = kind /\ EndLoad /\ call[k].kind \in {"table", "owners"}
        /\ L' = L \ {k}
    <3>1. CASE ApplyTable(k)
      BY <3>1, ApplyTableIs
    <3>2. CASE ApplyOwners(k)
      BY <3>2, ApplyOwnersIs, CallEnds
    <3> QED
      BY <1>11, <3>1, <3>2
  <2>2. k \in L /\ count' = (IF count = 0 THEN 0 ELSE count - 1) /\ (loading' <=> count' > 0)
    BY <1>0, <2>1, EndLoadIs DEF Flying
  <2>3. Cardinality(L \ {k}) = Cardinality(L) - 1 /\ Cardinality(L) \in Nat /\ Cardinality(L) # 0
    BY <2>2, FlyingCount, ItemCount
  <2>4. Cardinality(L)' = Cardinality(L) - 1
    BY <2>1, <2>3
  <2> HIDE DEF L, T
  <2>5. LoadInv' <=> (IF kind' = "conversations" THEN count' = Cardinality(L)' /\ (loading' <=> count' > 0)
                      ELSE count' = 0 /\ (loading' => T' # {}))
    BY DEF LoadInv, L, T
  <2>6. LoadInv => IF kind = "conversations" THEN count = Cardinality(L) ELSE count = 0
    BY DEF LoadInv, L, T
  <2> QED
    BY <1>0, <2>1, <2>2, <2>3, <2>4, <2>5, <2>6
<1>12. ASSUME NEW k \in Call, NEW field \in {"active", "admin"}, Patch(k, field) PROVE LoadInv'
  <2>1. /\ kind' = kind /\ count' = count /\ loading' = loading
        /\ call[k] = Idle /\ L' = L \ {k} /\ T' = T \ {k}
    BY <1>12, PatchIs
  <2>2. L' = L /\ T' = T
    BY <2>1, IdleAdmin, SlotAway
  <2> QED
    BY <2>1, <2>2, LoadStays
<1>13. ASSUME NEW k \in Call, Delete(k) PROVE LoadInv'
  <2>1. /\ kind' = kind /\ count' = count /\ loading' = loading
        /\ call[k] = Idle /\ L' = L \ {k} /\ T' = T \ {k}
    BY <1>13, DeleteIs
  <2>2. L' = L /\ T' = T
    BY <2>1, IdleAdmin, SlotAway
  <2> QED
    BY <2>1, <2>2, LoadStays
<1> QED
  BY <1>2, <1>3, <1>4, <1>5, <1>6, <1>7, <1>8, <1>9, <1>10, <1>11, <1>12, <1>13 DEF AdminNext

-----------------------------------------------------------------------------
LEMMA DrawerStays ==
  ASSUME DrawerInv, drawer'.loading = drawer.loading,
         drawer'.open => drawer' = drawer /\ crossed' = crossed,
         Flying({"recent"})' = Flying({"recent"}),
         \A o \in Flying({"recent"}) : call'[o].item = call[o].item
  PROVE  DrawerInv'
BY DEF DrawerInv

LEMMA DrawerNext == ASSUME AdminTyped, DrawerInv, AdminNext PROVE DrawerInv'
<1> DEFINE F == Flying({"recent"})
<1>0. F \subseteq Call
  BY DEF Flying
<1>1. call' = call => F' = F /\ \A o \in F : call'[o].item = call[o].item
  BY DEF Flying
<1>2. CASE Others
  BY <1>1, <1>2, OthersAre, DrawerStays DEF drawerVars
<1>3. CASE CloseDrawer
  BY <1>1, <1>3, CloseDrawerIs, DrawerStays
<1>4. CASE ExportBegin \/ ExportCount \/ ExportSelect
  BY <1>1, <1>4, ExportTyped, DrawerStays DEF drawerVars
<1>5. ASSUME \/ \E f \in {"all", "part"} : Filter(f)
             \/ \E p \in {page - 1, page + 1} : Turn(p)
      PROVE  DrawerInv'
  BY <1>1, <1>5, ViewChangesTyped, DrawerStays DEF drawerVars
<1>6. ASSUME NEW k \in Call, Serve(k) \/ Lose(k) PROVE DrawerInv'
  BY <1>0, <1>6, AnsweredIs, DrawerStays DEF drawerVars
<1>7. ASSUME NEW k \in Call, call[k].kind # "recent", F' = F \ {k},
             \A o \in Call : o # k => call'[o] = call[o]
      PROVE  F' = F /\ \A o \in F : call'[o].item = call[o].item
  BY <1>7 DEF Flying
<1>8. ASSUME NEW k \in Call,
             \/ FireTimer(k)
             \/ \E f \in {"all", "part"} : FilterRatings(k, f)
             \/ \E p \in {page - 1, page + 1} : TurnRatings(k, p)
      PROVE  DrawerInv'
  <2>1. PICK query \in Query : Fetch(k, query)
    BY <1>8, FetchesAre
  <2>2. kind' = kind /\ kind # "export" /\ UNCHANGED drawerVars
    BY <1>8, FetchesAre
  <2>3. call[k] = Idle /\ F' = F \ {k} /\ \A o \in Call : o # k => call'[o] = call[o]
    BY <2>1, <2>2, FetchIs
  <2>4. F' = F /\ \A o \in F : call'[o].item = call[o].item
    BY <1>7, <2>3, IdleAdmin
  <2> QED
    BY <2>2, <2>4, DrawerStays DEF drawerVars
<1>9. ASSUME NEW k \in Call, NEW shown \in ToSet(list), OpenDrawer(k, shown) PROVE DrawerInv'
  <2>1. /\ kind' = kind /\ kind = "users" /\ shown \in Row /\ Recent(k, shown)
        /\ drawer'.user = shown
    BY <1>9, OpenDrawerIs
  <2>2. PICK d \in AdminCall :
          /\ call' = [call EXCEPT ![k] = d] /\ Formed(d)
          /\ d.kind = "recent" /\ d.item = shown.id
    BY <2>1, RecentIs
  <2>3. call'[k] = d /\ \A o \in Call : o # k => call'[o] = call[o]
    BY <2>1, <2>2, CallChanges
  <2>6. F' = F \cup {k}
    BY <2>2, <2>3, FlyingBecomes
  <2>4. ~crossed' => \A o \in F \ {k} : call[o].item = shown.id
    BY <2>1, RecentIs
  <2>5. ~crossed' => \A o \in F' : call'[o].item = shown.id
    BY <1>0, <2>2, <2>3, <2>4, <2>6
  <2> QED
    BY <2>1, <2>5, <2>6 DEF DrawerInv
<1>10. ASSUME NEW k \in Call, ApplyRecent(k) PROVE DrawerInv'
  <2>1. /\ kind' = kind /\ crossed' = crossed /\ call[k].kind = "recent" /\ Gone(k)
        /\ drawer'.open = drawer.open /\ drawer'.user = drawer.user /\ drawer'.loading = FALSE
        /\ drawer'.convs \in {call[k].item, Nothing}
    BY <1>10, ApplyRecentIs
  <2>2. F' = F \ {k} /\ k \in F /\ \A o \in Call : o # k => call'[o] = call[o]
    BY <2>1, CallEnds DEF Flying
  <2>3. drawer.open /\ ~crossed => \A o \in F : call[o].item = drawer.user.id
    BY DEF DrawerInv
  <2>4. drawer'.open /\ ~crossed' =>
          /\ \A o \in F' : call'[o].item = drawer'.user.id
          /\ drawer'.convs \in {drawer'.user.id, Nothing}
    BY <1>0, <2>1, <2>2, <2>3
  <2> QED
    BY <2>1, <2>4 DEF DrawerInv
<1>11. ASSUME NEW k \in Call, NEW news \in Seq(Row), Sync(k, news), kind' = kind,
              call[k].kind # "recent"
       PROVE  DrawerInv'
  <2>1. /\ \A o \in Call : o # k => call'[o] = call[o]
        /\ \/ call'[k] = Idle /\ drawer' = drawer /\ crossed' = crossed
           \/ /\ drawer.open /\ kind = "users"
              /\ call'[k].kind = "recent" /\ call'[k].item = drawer.user.id
              /\ drawer'.open /\ drawer'.loading /\ drawer'.user.id = drawer.user.id
              /\ ~crossed' => \A o \in F \ {k} : call[o].item = drawer.user.id
    BY <1>11, SyncTyped
  <2>2. CASE call'[k] = Idle /\ drawer' = drawer /\ crossed' = crossed
    <3>1. F' = F \ {k}
      BY <2>1, <2>2, FlyingBecomes, IdleAdmin
    <3>2. F' = F /\ \A o \in F : call'[o].item = call[o].item
      BY <1>7, <1>11, <2>1, <3>1
    <3> QED
      BY <2>2, <3>2, DrawerStays
  <2>3. CASE /\ call'[k].kind = "recent" /\ call'[k].item = drawer.user.id
             /\ drawer'.open /\ drawer'.loading /\ drawer'.user.id = drawer.user.id
             /\ ~crossed' => \A o \in F \ {k} : call[o].item = drawer.user.id
    <3>1. F' = F \cup {k}
      BY <2>1, <2>3, FlyingBecomes
    <3>2. ~crossed' => \A o \in F' : call'[o].item = drawer'.user.id
      BY <1>0, <2>1, <2>3, <3>1
    <3> QED
      BY <3>1, <3>2 DEF DrawerInv
  <2> QED
    BY <2>1, <2>2, <2>3
<1>12. ASSUME NEW k \in Call, Gone(k), kind' = kind, UNCHANGED drawerVars, call[k].kind # "recent"
       PROVE  DrawerInv'
  <2>1. F' = F \ {k} /\ \A o \in Call : o # k => call'[o] = call[o]
    BY <1>12, CallEnds
  <2>2. F' = F /\ \A o \in F : call'[o].item = call[o].item
    BY <1>7, <1>12, <2>1
  <2> QED
    BY <1>12, <2>2, DrawerStays DEF drawerVars
<1>13. ASSUME NEW k \in Call, ApplyTable(k) PROVE DrawerInv'
  <2>1. /\ kind' = kind /\ call[k].kind = "table"
        /\ Sync(k, call[k].rows) \/ (Gone(k) /\ UNCHANGED drawerVars)
    BY <1>13, ApplyTableIs
  <2>2. call[k].rows \in Seq(Row)
    BY CallFields
  <2> QED
    BY <1>11, <1>12, <2>1, <2>2
<1>14. ASSUME NEW k \in Call, ApplyPatch(k) PROVE DrawerInv'
  <2>1. /\ kind' = kind /\ call[k].kind = "patch"
        /\ (\E news \in Seq(Row) : Sync(k, news)) \/ (Gone(k) /\ UNCHANGED drawerVars)
    BY <1>14, ApplyPatchIs
  <2> QED
    BY <1>11, <1>12, <2>1
<1>15. ASSUME NEW k \in Call, ApplyOwners(k) \/ ApplyDelete(k) PROVE DrawerInv'
  BY <1>12, <1>15, ApplyOwnersIs, ApplyDeleteIs
<1>16. ASSUME NEW k \in Call, NEW field \in {"active", "admin"}, Patch(k, field) PROVE DrawerInv'
  <2>1. call[k] = Idle /\ F' = F \ {k} /\ UNCHANGED drawerVars
        /\ \A o \in Call : o # k => call'[o] = call[o]
    BY <1>16, PatchIs
  <2>2. F' = F /\ \A o \in F : call'[o].item = call[o].item
    BY <1>7, <2>1, IdleAdmin
  <2> QED
    BY <2>1, <2>2, DrawerStays DEF drawerVars
<1>17. ASSUME NEW k \in Call, Delete(k) PROVE DrawerInv'
  <2>1. call[k] = Idle /\ F' = F \ {k} /\ drawer'.open = FALSE /\ drawer'.loading = drawer.loading
        /\ \A o \in Call : o # k => call'[o] = call[o]
    BY <1>17, DeleteIs
  <2>2. F' = F /\ \A o \in F : call'[o].item = call[o].item
    BY <1>7, <2>1, IdleAdmin
  <2> QED
    BY <2>1, <2>2, DrawerStays
<1> QED
  BY <1>2, <1>3, <1>4, <1>5, <1>6, <1>8, <1>9, <1>10, <1>13, <1>14, <1>15, <1>16, <1>17
     DEF AdminNext

-----------------------------------------------------------------------------
(* AdminPages: an export while others rate.                                 *)

\* Two lists kept of one: where the entries of both are.
LEMMA TwoKept ==
  ASSUME NEW S, NEW s \in Seq(S), NEW A, NEW B, NEW a, NEW b, a = Keep(s, A), b = Keep(s, B)
  PROVE  /\ ToSet(a) \subseteq ToSet(b) => Fronts(a, b, ToSet(a))
         /\ ToSet(b) \subseteq ToSet(a) => Fronts(b, a, ToSet(b))
<1>1. /\ a \in Seq(S) /\ b \in Seq(S)
      /\ ToSet(a) = ToSet(s) \cap A /\ ToSet(b) = ToSet(s) \cap B
  BY Kept
<1>2. A \cap ToSet(s) \subseteq B => Fronts(a, b, A)
  BY KeepLess
<1>3. B \cap ToSet(s) \subseteq A => Fronts(b, a, B)
  BY KeepLess
<1>4. ToSet(a) \subseteq A /\ ToSet(b) \subseteq B
  BY <1>1
<1>5. ToSet(a) \subseteq ToSet(b) => Fronts(a, b, A)
  BY <1>1, <1>2
<1>6. ToSet(b) \subseteq ToSet(a) => Fronts(b, a, B)
  BY <1>1, <1>3
<1>7. Fronts(a, b, A) => Fronts(a, b, ToSet(a))
  BY <1>4, Zenon DEF Fronts
<1>8. Fronts(b, a, B) => Fronts(b, a, ToSet(b))
  BY <1>4, Zenon DEF Fronts
<1> QED
  BY <1>5, <1>6, <1>7, <1>8

\* How the rows that match move when others change the server, but for a conversation
\* that is touched.
LEMMA HitsMove ==
  ASSUME AdminTyped, Others, kind # "conversations", NEW f \in {"all", "part"}
  PROVE  \E s \in Seq(Item) : \E A, B :
           Hits(f) = Keep(s, A) /\ HitsIn(rows', flag', f) = Keep(s, B)
<1> DEFINE T == {i \in Item : Fits(i, f, flag)}
           U == {i \in Item : Fits(i, f, flag')}
<1>0. /\ rows \in Seq(Item) /\ rows' \in Seq(Item)
      /\ Hits(f) = Keep(rows, T) /\ HitsIn(rows', flag', f) = Keep(rows', U)
  BY OthersAre DEF AdminTyped, ServerTyped, Hits, HitsIn
<1> HIDE DEF T, U
<1>1. ASSUME NEW i \in Item \ born, rows' = <<i>> \o rows
      PROVE  \E s \in Seq(Item) : \E A, B :
               Hits(f) = Keep(s, A) /\ HitsIn(rows', flag', f) = Keep(s, B)
  <2>1. i \notin ToSet(rows)
    BY <1>1 DEF AdminTyped, ServerTyped
  <2>2. Keep(rows', Item \ {i}) = rows
    BY <1>0, <1>1, <2>1, FrontOff
  <2>3. Keep(rows, T) = Keep(rows', (Item \ {i}) \cap T)
    BY <1>0, <2>2, KeepTwice
  <2> QED
    BY <1>0, <2>3
<1>2. ASSUME NEW i \in ToSet(rows), rows' = Keep(rows, Item \ {i})
      PROVE  \E s \in Seq(Item) : \E A, B :
               Hits(f) = Keep(s, A) /\ HitsIn(rows', flag', f) = Keep(s, B)
  <2>1. Keep(rows', U) = Keep(rows, (Item \ {i}) \cap U)
    BY <1>0, <1>2, KeepTwice
  <2> QED
    BY <1>0, <2>1
<1>3. ASSUME rows' = rows
      PROVE  \E s \in Seq(Item) : \E A, B :
               Hits(f) = Keep(s, A) /\ HitsIn(rows', flag', f) = Keep(s, B)
  BY <1>0, <1>3
<1> QED
  BY <1>1, <1>2, <1>3, OthersAre

\* An export that has not begun: that of every page but the tab of one.
LEMMA NotExporting == AdminTyped /\ (kind # "export" \/ export.at = "idle") => ExportInv
<1> SUFFICES ASSUME AdminTyped, kind # "export" \/ export.at = "idle" PROVE ExportInv
  OBVIOUS
<1>1. export = NoExport
  BY DEF AdminTyped, ServerTyped
<1>2. export.at = "idle" /\ export.out = <<>> /\ export.base = {}
  BY <1>1 DEF NoExport
<1> QED
  BY <1>2, NoEntries DEF ExportInv, ExportOnce, ExportAll

LEMMA NotExportingNext == (AdminTyped /\ (kind # "export" \/ export.at = "idle") => ExportInv)'
BY NotExporting, PTL

\* Others change the server under an export.
LEMMA ExportOthers ==
  ASSUME AdminTyped, ExportInv, Others, kind = "export" PROVE ExportInv'
<1> DEFINE f == export.filter
           h == Hits(f)
           g == HitsIn(rows', flag', f)
           e == export'
<1>1. /\ AdminTyped' /\ kind' = kind /\ Noted(rows', flag') /\ rows' \in Seq(Item) /\ IsInjective(rows')
      /\ ServerTyped /\ export \in AdminExport
  BY OthersAre, OthersTyped DEF AdminTyped, ServerTyped
<1>2. CASE export.at \notin {"count", "select"}
  <2>1. e = export
    BY <1>1, <1>2, NotedIs
  <2>2. CASE export.at = "idle"
    BY <1>1, <2>1, <2>2, NotExportingNext
  <2>3. CASE export.at = "done"
    BY <2>1, <2>3 DEF ExportInv, ExportOnce, ExportAll
  <2> QED
    BY <1>1, <1>2, <2>2, <2>3 DEF AdminExport
<1>3. CASE export.at \in {"count", "select"}
  <2>1. /\ e.at = export.at /\ e.filter = f /\ e.skip = export.skip /\ e.total = export.total
        /\ e.out = export.out /\ e.base = export.base \cap ToSet(g)
        /\ ~e.lost => /\ ~export.lost /\ ToSet(h) \subseteq ToSet(g)
                      /\ export.at = "select" => ToSet(g) \subseteq ToSet(h)
        /\ ~e.grown => ~export.grown /\ ToSet(g) \subseteq ToSet(h)
    BY <1>1, <1>3, NotedIs
  <2>2. f \in {"all", "part"} /\ export.skip \in Nat /\ export.total \in Nat
    BY <1>1 DEF AdminExport
  <2>3. h \in Seq(Item) /\ g \in Seq(Item) /\ Len(h) \in Nat /\ Len(g) \in Nat
    BY <1>1, HitsTyped, ItemCount DEF Hits, ServerTyped
  <2>4. Hits(export.filter)' = g
    BY <1>1, <2>1 DEF Hits, HitsIn, Fits
  <2>9. /\ ToSet(h) \subseteq ToSet(g) => Fronts(h, g, ToSet(h))
        /\ ToSet(g) \subseteq ToSet(h) => Fronts(g, h, ToSet(g))
    <3>1. PICK s \in Seq(Item) : \E A, B : h = Keep(s, A) /\ g = Keep(s, B)
      BY <2>2, HitsMove
    <3>2. PICK A, B : h = Keep(s, A) /\ g = Keep(s, B)
      BY <3>1
    <3> QED
      BY <3>2, TwoKept
  <2>5. /\ ToSet(h) \subseteq ToSet(g) =>
             \A i \in DOMAIN g : g[i] \in ToSet(h) => \E m \in DOMAIN h : m <= i /\ h[m] = g[i]
        /\ ToSet(g) \subseteq ToSet(h) =>
             /\ Len(g) <= Len(h)
             /\ \A m \in DOMAIN g : \E i \in DOMAIN h : m <= i /\ g[m] = h[i]
    BY <2>9, Zenon DEF Fronts
  <2>6. /\ ~export.grown => ExportOnce(h)
        /\ ~export.lost => ExportAll(h)
    BY DEF ExportInv
  <2> HIDE DEF f, h, g, e
  <2>7. ASSUME ~e.grown PROVE ExportOnce(Hits(export.filter))'
    <3>1. /\ IsInjective(export.out)
          /\ \A p \in DOMAIN h : p > export.skip => h[p] \notin ToSet(export.out)
      BY <1>3, <2>1, <2>6, <2>7 DEF ExportOnce
    <3>2. ASSUME NEW p \in DOMAIN g, p > export.skip PROVE g[p] \notin ToSet(export.out)
      <4>1. PICK i \in DOMAIN h : p <= i /\ g[p] = h[i]
        BY <2>1, <2>5, <2>7, <3>2
      <4>2. i > export.skip
        BY <2>2, <2>3, <3>2, <4>1
      <4> QED
        BY <3>1, <4>1, <4>2
    <3>3. ExportOnce(Hits(export.filter))' <=>
            /\ IsInjective(e.out)
            /\ e.at # "done" => \A p \in DOMAIN g : p > e.skip => g[p] \notin ToSet(e.out)
      BY <2>4 DEF ExportOnce, e
    <3> QED
      BY <2>1, <3>1, <3>2, <3>3
  <2>8. ASSUME ~e.lost PROVE ExportAll(Hits(export.filter))'
    <3>1. /\ export.base \subseteq ToSet(h)
          /\ \A p \in DOMAIN h : h[p] \in export.base => h[p] \in ToSet(export.out) \/ p > export.skip
          /\ export.at = "select" => Len(h) <= export.total
      BY <1>3, <2>1, <2>6, <2>8 DEF ExportAll
    <3>2. export.base \subseteq ToSet(g) /\ e.base = export.base
      BY <2>1, <2>8, <3>1
    <3>3. ASSUME NEW p \in DOMAIN g, g[p] \in export.base
          PROVE  g[p] \in ToSet(export.out) \/ p > export.skip
      <4>1. PICK m \in DOMAIN h : m <= p /\ h[m] = g[p]
        BY <2>1, <2>5, <2>8, <3>1, <3>3
      <4> QED
        BY <2>2, <2>3, <3>1, <3>3, <4>1
    <3>4. export.at = "select" => Len(g) <= export.total
      BY <2>1, <2>2, <2>3, <2>5, <2>8, <3>1
    <3>5. ExportAll(Hits(export.filter))' <=>
            IF e.at = "done" THEN e.base \subseteq ToSet(e.out)
            ELSE /\ e.base \subseteq ToSet(g)
                 /\ \A p \in DOMAIN g : g[p] \in e.base => g[p] \in ToSet(e.out) \/ p > e.skip
                 /\ e.at = "select" => Len(g) <= e.total
      BY <2>4 DEF ExportAll, e
    <3> QED
      BY <1>3, <2>1, <3>2, <3>3, <3>4, <3>5
  <2> QED
    BY <2>7, <2>8 DEF ExportInv, e
<1> QED
  BY <1>2, <1>3

-----------------------------------------------------------------------------
(* AdminPages: the steps of an export.                                      *)

\* The rows that match do not change in a step that leaves the server as it is.
LEMMA HitsStay ==
  ASSUME kind' = kind, rows' = rows, flag' = flag
  PROVE  \A f : Hits(f)' = Hits(f)
BY DEF Hits, HitsIn, Fits

LEMMA ExportBegins == ASSUME AdminTyped, ExportBegin PROVE ExportInv'
<1> DEFINE b == ToSet(Hits(filter))
<1>1. /\ export = NoExport /\ export \in AdminExport
      /\ kind' = kind /\ rows' = rows /\ flag' = flag
      /\ export' = [export EXCEPT !.at = "count", !.filter = filter, !.base = b]
  BY DEF ExportBegin, AdminTyped, ServerTyped
<1>2. \A f : Hits(f)' = Hits(f)
  BY <1>1, HitsStay
<1>3. Hits(filter) \in Seq(Item)
  BY HitsTyped DEF AdminTyped, ViewTyped, ServerTyped, Hits
<1> HIDE DEF b
<1>4. /\ export'.at = "count" /\ export'.filter = filter /\ export'.base = b
      /\ export'.out = <<>> /\ export'.skip = 0
  BY <1>1 DEF AdminExport, NoExport
<1>5. Hits(export.filter)' = Hits(filter)
  <2>1. Hits(export.filter)' = Hits(filter)'
    BY <1>1, <1>4 DEF Hits, HitsIn, Fits, ExportBegin, viewVars
  <2> QED
    BY <1>1, <2>1 DEF Hits, HitsIn, Fits, ExportBegin, viewVars
<1>6. ExportOnce(Hits(export.filter))'
  BY <1>4, NoEntries DEF ExportOnce
<1>7. ExportAll(Hits(export.filter))'
  BY <1>3, <1>4, <1>5 DEF ExportAll, b
<1> QED
  BY <1>6, <1>7 DEF ExportInv

LEMMA ExportCounts == ASSUME AdminTyped, ExportInv, ExportCount PROVE ExportInv'
<1> DEFINE h == Hits(export.filter)
           n == Len(h)
<1>1. /\ export \in AdminExport /\ export.at = "count"
      /\ kind' = kind /\ rows' = rows /\ flag' = flag
      /\ export' = [export EXCEPT !.at = "select", !.total = n]
  BY DEF ExportCount, AdminTyped, ServerTyped
<1>2. h \in Seq(Item) /\ n \in Nat
  BY HitsTyped, ItemCount DEF AdminTyped, ServerTyped, Hits
<1>3. (~export.grown => ExportOnce(h)) /\ (~export.lost => ExportAll(h))
  BY DEF ExportInv
<1> HIDE DEF n
<1>4. /\ export'.at = "select" /\ export'.filter = export.filter /\ export'.base = export.base
      /\ export'.out = export.out /\ export'.skip = export.skip /\ export'.total = n
      /\ export'.lost = export.lost /\ export'.grown = export.grown
  BY <1>1 DEF AdminExport
<1>5. Hits(export.filter)' = h
  BY <1>1, <1>4 DEF Hits, HitsIn, Fits
<1> HIDE DEF h
<1>6. ~export'.grown => ExportOnce(Hits(export.filter))'
  BY <1>1, <1>3, <1>4, <1>5 DEF ExportOnce
<1>7. ~export'.lost => ExportAll(Hits(export.filter))'
  BY <1>1, <1>2, <1>3, <1>4, <1>5 DEF ExportAll, n
<1> QED
  BY <1>6, <1>7 DEF ExportInv

LEMMA ExportSelects == ASSUME AdminTyped, ExportInv, ExportSelect PROVE ExportInv'
<1> DEFINE h == Hits(export.filter)
           skip == export.skip
           chunk == Slice(h, skip, Chunk)
           next == skip + Chunk
           a == IF chunk = <<>> \/ next >= export.total THEN "done" ELSE "count"
           o == export.out \o chunk
           p == IF chunk = <<>> THEN skip ELSE next
<1>1. /\ export \in AdminExport /\ export.at = "select"
      /\ kind' = kind /\ rows' = rows /\ flag' = flag
      /\ export' = [export EXCEPT !.at = a, !.out = o, !.skip = p]
  BY DEF ExportSelect, AdminTyped, ServerTyped
<1>2. h \in Seq(Item) /\ Len(h) \in Nat /\ IsInjective(h)
  BY HitsTyped, ItemCount DEF AdminTyped, ServerTyped, Hits
<1>3. (~export.grown => ExportOnce(h)) /\ (~export.lost => ExportAll(h))
  BY DEF ExportInv
<1>4. skip \in Nat /\ export.total \in Nat /\ export.out \in Seq(Item) /\ Chunk \in Nat \ {0}
  BY <1>1, AdminAssumption DEF AdminExport
<1> HIDE DEF h, a, o, p
<1>5. /\ export'.at = a /\ export'.filter = export.filter /\ export'.base = export.base
      /\ export'.out = o /\ export'.skip = p /\ export'.total = export.total
      /\ export'.lost = export.lost /\ export'.grown = export.grown
  BY <1>1 DEF AdminExport
<1>6. Hits(export.filter)' = h
  BY <1>1, <1>5 DEF Hits, HitsIn, Fits, h
<1>7. /\ chunk \in Seq(Item) /\ IsInjective(chunk)
      /\ ToSet(chunk) = {h[i] : i \in {j \in DOMAIN h : j > skip /\ j <= skip + Chunk}}
      /\ chunk = <<>> => Len(h) <= skip
  <2>1. Chunk \in Nat /\ Chunk # 0
    BY <1>4
  <2>2. /\ Slice(h, skip, Chunk) \in Seq(Item)
        /\ ToSet(Slice(h, skip, Chunk)) = {h[i] : i \in {j \in DOMAIN h : j > skip /\ j <= skip + Chunk}}
        /\ IsInjective(h) => IsInjective(Slice(h, skip, Chunk))
        /\ Slice(h, skip, Chunk) = <<>> => Len(h) <= skip \/ Chunk = 0
    BY <1>2, <1>4, <2>1, Sliced
  <2> QED
    BY <1>2, <2>1, <2>2
<1> HIDE DEF chunk
<1>8. /\ ToSet(o) = ToSet(export.out) \cup ToSet(chunk)
      /\ IsInjective(export.out) /\ ToSet(export.out) \cap ToSet(chunk) = {} => IsInjective(o)
  BY <1>4, <1>7, Joined DEF o
<1>9. /\ a = "done" \/ a = "count"
      /\ a = "count" => p = next /\ next < export.total
      /\ a = "done" => chunk = <<>> \/ next >= export.total
  BY <1>4 DEF a, p
<1>10. ASSUME ~export.grown PROVE ExportOnce(Hits(export.filter))'
  <2>1. /\ IsInjective(export.out)
        /\ \A i \in DOMAIN h : i > skip => h[i] \notin ToSet(export.out)
    BY <1>1, <1>3, <1>10 DEF ExportOnce
  <2>2. ToSet(export.out) \cap ToSet(chunk) = {}
    BY <1>7, <2>1
  <2>3. ASSUME a = "count", NEW i \in DOMAIN h, i > next PROVE h[i] \notin ToSet(o)
    <3>1. i > skip /\ h[i] \notin ToSet(export.out)
      BY <1>2, <1>4, <2>1, <2>3
    <3>2. \A j \in DOMAIN h : h[j] = h[i] => j = i
      BY <1>2 DEF IsInjective
    <3>3. h[i] \notin ToSet(chunk)
      BY <1>2, <1>4, <1>7, <2>3, <3>2
    <3> QED
      BY <1>8, <3>1, <3>3
  <2> QED
    BY <1>5, <1>6, <1>8, <1>9, <2>1, <2>2, <2>3 DEF ExportOnce
<1>11. ASSUME ~export.lost PROVE ExportAll(Hits(export.filter))'
  <2>1. /\ export.base \subseteq ToSet(h)
        /\ \A i \in DOMAIN h : h[i] \in export.base => h[i] \in ToSet(export.out) \/ i > skip
        /\ Len(h) <= export.total
    BY <1>1, <1>3, <1>11 DEF ExportAll
  <2>2. ASSUME NEW i \in DOMAIN h, h[i] \in export.base PROVE h[i] \in ToSet(o) \/ i > next
    <3>1. CASE i > skip /\ i <= next
      BY <1>7, <1>8, <3>1
    <3> QED
      BY <1>2, <1>4, <1>8, <2>1, <2>2, <3>1
  <2>3. ASSUME a = "done", NEW x \in export.base PROVE x \in ToSet(o)
    <3>1. PICK i \in DOMAIN h : h[i] = x
      BY <2>1, <2>3 DEF ToSet
    <3>2. i \in 1 .. Len(h)
      BY <1>2
    <3>3. CASE chunk = <<>>
      <4>1. ~(i > skip)
        BY <1>2, <1>4, <1>7, <3>2, <3>3
      <4> QED
        BY <1>8, <2>1, <2>3, <3>1, <4>1
    <3>4. CASE next >= export.total
      <4>1. ~(i > next)
        BY <1>2, <1>4, <2>1, <3>2, <3>4
      <4> QED
        BY <2>2, <2>3, <3>1, <4>1
    <3> QED
      BY <1>9, <2>3, <3>3, <3>4
  <2> QED
    BY <1>5, <1>6, <1>9, <2>1, <2>2, <2>3 DEF ExportAll
<1> QED
  BY <1>5, <1>10, <1>11 DEF ExportInv

LEMMA ExportNext == ASSUME AdminTyped, AdminTyped', ExportInv, AdminNext PROVE ExportInv'
<1>1. kind' # "export" => ExportInv'
  BY NotExportingNext
<1>2. ASSUME kind = "export" PROVE ExportInv'
  <2>0. \A k \in Call : call[k].kind = "none"
    <3>1. \A k \in Call : Formed(call[k]) /\ call[k].kind \in {"none", "table", "owners", "recent", "patch", "delete"}
      BY CallFields
    <3> QED
      BY <1>2, <3>1 DEF Formed
  <2>1. CASE Others
    BY <1>2, <2>1, ExportOthers
  <2>2. CASE ExportBegin
    BY <2>2, ExportBegins
  <2>3. CASE ExportCount
    BY <2>3, ExportCounts
  <2>4. CASE ExportSelect
    BY <2>4, ExportSelects
  <2>5. ~drawer.open
    BY <1>2 DEF AdminTyped, DrawerTyped
  <2>6. timer = Nothing
    BY <1>2 DEF AdminTyped, ViewTyped
  <2>7. \A k \in Call : ~Serve(k)
    BY <2>0, ServeIs
  <2>8. ~CloseDrawer /\ \A f, p : ~Filter(f) /\ ~Turn(p)
    BY <1>2, <2>5 DEF CloseDrawer, Filter, Turn
  <2>9. \A k \in Call : ~Lose(k) /\ ~FireTimer(k) /\ ~Delete(k) /\ ~ApplyTable(k) /\ ~ApplyOwners(k)
                        /\ ~ApplyRecent(k) /\ ~ApplyPatch(k) /\ ~ApplyDelete(k)
    BY <2>0, <2>5, <2>6 DEF Lose, FireTimer, Delete, ApplyTable, ApplyOwners, ApplyRecent,
       ApplyPatch, ApplyDelete
  <2>10. \A k \in Call : \A f, p, shown, field :
           ~FilterRatings(k, f) /\ ~TurnRatings(k, p) /\ ~OpenDrawer(k, shown) /\ ~Patch(k, field)
    BY <1>2, <2>5 DEF FilterRatings, TurnRatings, OpenDrawer, Patch
  <2> QED
    BY <2>1, <2>2, <2>3, <2>4, <2>7, <2>8, <2>9, <2>10 DEF AdminNext
<1>3. kind' = kind
  BY DEF AdminNext, Others, CloseDrawer, ExportBegin, ExportCount, ExportSelect, Filter, Turn,
     Serve, Lose, FireTimer, Delete, ApplyTable, ApplyOwners, ApplyRecent, ApplyPatch, ApplyDelete,
     FilterRatings, TurnRatings, OpenDrawer, Patch
<1> QED
  BY <1>1, <1>2, <1>3

-----------------------------------------------------------------------------
(* AdminPages: the table and the view.                                      *)

\* A page of a list that loses an entry of the page.
LEMMA PageWithout ==
  ASSUME NEW h \in Seq(Item), IsInjective(h), NEW x, NEW skip \in Nat, NEW limit \in Nat,
         x \in ToSet(Slice(h, skip, limit))
  PROVE  /\ Len(Keep(h, Item \ {x})) = Len(h) - 1
         /\ ToSet(Slice(h, skip, limit)) \ {x} \subseteq
              ToSet(Slice(Keep(h, Item \ {x}), skip, limit))
<1> DEFINE T == Item \ {x}
           g == Keep(h, T)
<1>1. /\ Slice(h, skip, limit) \in Seq(Item)
      /\ ToSet(Slice(h, skip, limit)) = {h[i] : i \in {j \in DOMAIN h : j > skip /\ j <= skip + limit}}
      /\ IsInjective(h) => IsInjective(Slice(h, skip, limit))
      /\ Slice(h, skip, limit) = <<>> => Len(h) <= skip \/ limit = 0
  BY Sliced
<1>2. PICK p \in DOMAIN h : p > skip /\ p <= skip + limit /\ h[p] = x
  BY <1>1
<1>3. \A y \in ToSet(h) : y \in T <=> y # h[p]
  BY <1>2, Entries
<1> HIDE DEF T
<1>4. /\ g \in Seq(Item) /\ Len(g) = Len(h) - 1
      /\ \A j \in 1 .. (Len(h) - 1) : g[j] = IF j < p THEN h[j] ELSE h[j + 1]
  BY <1>2, <1>3, KeepWithout
<1> HIDE DEF g
<1>5. /\ Slice(g, skip, limit) \in Seq(Item)
      /\ ToSet(Slice(g, skip, limit)) = {g[i] : i \in {j \in DOMAIN g : j > skip /\ j <= skip + limit}}
      /\ IsInjective(g) => IsInjective(Slice(g, skip, limit))
      /\ Slice(g, skip, limit) = <<>> => Len(g) <= skip \/ limit = 0
  BY <1>4, Sliced
<1>6. DOMAIN h = 1 .. Len(h) /\ Len(h) \in Nat /\ DOMAIN g = 1 .. (Len(h) - 1)
  BY <1>4
<1>7. ASSUME NEW y \in ToSet(Slice(h, skip, limit)), y # x PROVE y \in ToSet(Slice(g, skip, limit))
  <2>1. PICK i \in DOMAIN h : i > skip /\ i <= skip + limit /\ h[i] = y
    BY <1>1
  <2>2. i # p
    BY <1>2, <1>7, <2>1
  <2>3. CASE i < p
    <3>1. i \in 1 .. (Len(h) - 1) /\ g[i] = y
      BY <1>4, <1>6, <2>1, <2>3
    <3> QED
      BY <1>5, <1>6, <2>1, <3>1
  <2>4. CASE i > p
    <3>1. i - 1 \in 1 .. (Len(h) - 1) /\ g[i - 1] = h[(i - 1) + 1]
      BY <1>4, <1>6, <2>1, <2>4
    <3>2. (i - 1) + 1 = i /\ i - 1 > skip /\ i - 1 <= skip + limit
      BY <1>2, <1>6, <2>1, <2>4
    <3>3. g[i - 1] = y
      BY <2>1, <3>1, <3>2
    <3> QED
      BY <1>5, <1>6, <3>1, <3>2, <3>3
  <2> QED
    BY <1>6, <2>2, <2>3, <2>4
<1> QED
  BY <1>4, <1>7 DEF g, T

LEMMA NowIs ==
  ASSUME AdminTyped
  PROVE  /\ Now.flags = flag /\ Now.hits = Len(Hits(filter)) /\ Now.ids = Ids(PageOf(Shown))
         /\ Now.ids = ToSet(Slice(Hits(filter), page * PageSize, PageSize))
         /\ Shown \in Query /\ Shown # Nothing /\ page * PageSize \in Nat /\ PageSize \in Nat
         /\ Hits(filter) \in Seq(Item) /\ IsInjective(Hits(filter)) /\ Len(Hits(filter)) \in Nat
<1>1. /\ filter \in {"all", "part"} /\ page \in 0 .. Cardinality(Item) /\ page \in Nat
      /\ rows \in Seq(Item) /\ IsInjective(rows)
  BY ItemCount DEF AdminTyped, ViewTyped, ServerTyped
<1>2. Shown \in Query /\ Shown.filter = filter /\ Shown.page = page
  BY <1>1 DEF Shown, Query
<1>3. Ids(PageOf(Shown)) = ToSet(Slice(Hits(Shown.filter), Shown.page * PageSize, PageSize))
  BY <1>2, PageRows
<1>4. PageSize \in Nat /\ page * PageSize \in Nat
  <2>1. PageSize \in Nat
    BY AdminAssumption
  <2> QED
    BY <1>1, <2>1
<1>5. Hits(filter) \in Seq(Item) /\ IsInjective(Hits(filter)) /\ Len(Hits(filter)) \in Nat
  BY <1>1, HitsTyped DEF Hits
<1> QED
  BY <1>2, <1>3, <1>4, <1>5, AdminAssumption DEF Now

LEMMA NowIsNext ==
  AdminTyped' =>
    /\ Now'.hits = Len(Hits(filter)') /\ Now'.flags = flag'
    /\ Now'.ids = ToSet(Slice(Hits(filter)', page' * PageSize, PageSize))
<1>1. AdminTyped =>
        /\ Now.hits = Len(Hits(filter)) /\ Now.flags = flag
        /\ Now.ids = ToSet(Slice(Hits(filter), page * PageSize, PageSize))
  BY NowIs
<1>2. (AdminTyped =>
        /\ Now.hits = Len(Hits(filter)) /\ Now.flags = flag
        /\ Now.ids = ToSet(Slice(Hits(filter), page * PageSize, PageSize)))'
  BY <1>1, PTL
<1> QED
  BY <1>2

LEMMA NowStays ==
  ASSUME kind' = kind, filter' = filter, page' = page, rows' = rows, flag' = flag
  PROVE  Now' = Now /\ Shown' = Shown
<1>1. \A f : Hits(f)' = Hits(f)
  BY HitsStay
<1>2. Shown' = Shown
  BY DEF Shown
<1>3. PageOf(Shown)' = PageOf(Shown)
  BY <1>2 DEF PageOf, Hits, HitsIn, Fits, RowOf, Shown
<1>4. Hits(filter)' = Hits(filter)
  BY DEF Hits, HitsIn, Fits
<1> QED
  BY <1>2, <1>3, <1>4 DEF Now

LEMMA ShownStays == ASSUME filter' = filter, page' = page PROVE Shown' = Shown
BY DEF Shown

\* The answer of a fetch is right for the page that it asked for.
LEMMA PageIsRight ==
  ASSUME AdminTyped
  PROVE  Right(PageOf(Shown), Len(Hits(Shown.filter)), Now)
<1>1. Shown \in Query /\ Shown.filter = filter
  BY NowIs DEF Shown
<1>2. \A i \in DOMAIN PageOf(Shown) :
        /\ PageOf(Shown)[i].flag = flag[PageOf(Shown)[i].id]
        /\ PageOf(Shown)[i].admin => PageOf(Shown)[i].id \in Admins
  BY <1>1, PageRows
<1> QED
  BY <1>1, <1>2, NowIs DEF Right

\* The flying calls that change the table, when there is one at most.
LEMMA Sole ==
  ASSUME \A j, k \in Flying(Changes) : j = k, NEW k \in Call, call[k].kind \in Changes
  PROVE  Flying(Changes) = {k}
BY DEF Flying

LEMMA FlyingKinds ==
  /\ Flying({"table"}) = {k \in Flying(Changes) : call[k].kind = "table"}
  /\ Flying({"patch", "delete"}) = {k \in Flying(Changes) : call[k].kind \in {"patch", "delete"}}
  /\ Flying({"delete"}) = {k \in Flying(Changes) : call[k].kind = "delete"}
  /\ Flying(Changes) = Flying({"table"}) \cup Flying({"patch", "delete"})
BY DEF Flying, Changes

LEMMA FlyingKindsNext ==
  /\ Flying({"table"})' = {k \in Flying(Changes)' : call'[k].kind = "table"}
  /\ Flying({"patch", "delete"})' = {k \in Flying(Changes)' : call'[k].kind \in {"patch", "delete"}}
BY DEF Flying, Changes

\* Steps that leave the table, its calls and the server as they are.
LEMMA ViewStays ==
  ASSUME ViewInv, kind' = kind, UNCHANGED viewVars, UNCHANGED <<list, total, answers, mixed, missed>>,
         rows' = rows, flag' = flag, stale' = stale,
         \A o \in Call : \/ call'[o] = call[o]
                         \/ call'[o].kind \notin Changes /\ call[o].kind \notin Changes
  PROVE  ViewInv'
<1>1. filter' = filter /\ page' = page /\ timer' = timer /\ Now' = Now /\ Shown' = Shown
  BY NowStays DEF viewVars
<1>2. Flying(Changes)' = Flying(Changes) /\ \A o \in Flying(Changes) : call'[o] = call[o]
  BY DEF Flying
<1>3. /\ Flying({"table"})' = Flying({"table"}) /\ Flying({"table"}) \subseteq Flying(Changes)
      /\ Flying({"patch", "delete"})' = Flying({"patch", "delete"})
      /\ Flying({"patch", "delete"}) \subseteq Flying(Changes)
  <2>1. /\ Flying({"table"}) = {k \in Flying(Changes) : call[k].kind = "table"}
        /\ Flying({"table"})' = {k \in Flying(Changes)' : call'[k].kind = "table"}
    BY FlyingKinds, FlyingKindsNext
  <2>2. /\ Flying({"patch", "delete"}) = {k \in Flying(Changes) : call[k].kind \in {"patch", "delete"}}
        /\ Flying({"patch", "delete"})' =
             {k \in Flying(Changes)' : call'[k].kind \in {"patch", "delete"}}
    BY FlyingKinds, FlyingKindsNext
  <2>3. Flying({"table"})' = Flying({"table"}) /\ Flying({"table"}) \subseteq Flying(Changes)
    BY <1>2, <2>1
  <2>4. /\ Flying({"patch", "delete"})' = Flying({"patch", "delete"})
        /\ Flying({"patch", "delete"}) \subseteq Flying(Changes)
    BY <1>2, <2>2
  <2> QED
    BY <2>3, <2>4
<1>4. AtRest => AtRest'
  BY <1>1, <1>2 DEF AtRest
<1>5. Asked => Asked'
  BY <1>1, <1>2, <1>3 DEF Asked
<1>6. Changed => Changed'
  BY <1>1, <1>2, <1>3 DEF Changed
<1> QED
  BY <1>1, <1>2, <1>4, <1>5, <1>6 DEF ViewInv

\* The server answers a fetch.
LEMMA ViewServeTable ==
  ASSUME AdminTyped, ViewInv, NEW k \in Call, Serve(k), call'[k].at = "ok", call[k].kind = "table"
  PROVE  ViewInv'
<1>1. PICK d \in AdminCall :
        /\ call' = [call EXCEPT ![k] = d] /\ Formed(d)
        /\ d.kind = call[k].kind /\ d.query = call[k].query /\ d.item = call[k].item
        /\ \/ d.at = "bad" /\ UNCHANGED serverVars
           \/ d.at = "ok" /\ d.kind \in {"owners", "recent"} /\ UNCHANGED serverVars
           \/ /\ d.at = "ok" /\ d.kind = "table"
              /\ d.rows = PageOf(d.query) /\ d.total = Len(Hits(d.query.filter))
              /\ stale' = FALSE /\ rows' = rows /\ flag' = flag
           \/ /\ d.at = "ok" /\ d.kind = "patch" /\ stale' = stale /\ rows' = rows
              /\ \A i \in Item : i # d.item => flag'[i] = flag[i]
              /\ d.rows = <<[id |-> d.item, flag |-> flag'[d.item], admin |-> FALSE]>>
           \/ /\ d.at = "ok" /\ d.kind = "delete" /\ stale' = stale /\ flag' = flag
              /\ rows' = Keep(rows, Item \ {d.item})
  BY ServeIs
<1>2. /\ AdminTyped' /\ kind' = kind /\ filter' = filter /\ page' = page /\ timer' = timer
      /\ list' = list /\ total' = total /\ answers' = answers /\ mixed' = mixed /\ missed' = missed
      /\ \A K : Flying(K)' = Flying(K)
      /\ \A o \in Call : o # k => call'[o] = call[o]
  BY AnsweredIs DEF viewVars, tableVars
<1>3. call'[k] = d
  BY <1>1, <1>2, CallChanges
<1>4. /\ d.rows = PageOf(d.query) /\ d.total = Len(Hits(d.query.filter))
      /\ rows' = rows /\ flag' = flag
  BY <1>1, <1>3
<1>5. Now' = Now /\ Shown' = Shown
  BY <1>2, <1>4, NowStays
<1>6. ASSUME kind # "export", ~mixed, timer = Nothing PROVE AtRest' /\ Asked' /\ Changed'
  <2>1. Flying(Changes) = {k}
    <3>1. call[k].kind \in Changes /\ \A i, j \in Flying(Changes) : i = j
      BY <1>6 DEF Changes, ViewInv
    <3> QED
      BY <3>1, Sole
  <2>2. Flying({"table"})' = {k} /\ Flying({"patch", "delete"})' = {} /\ Flying(Changes)' = {k}
    <3>1. /\ Flying({"table"})' = {o \in Flying(Changes)' : call'[o].kind = "table"}
          /\ Flying({"patch", "delete"})' =
               {o \in Flying(Changes)' : call'[o].kind \in {"patch", "delete"}}
      BY FlyingKindsNext
    <3> QED
      BY <1>1, <1>2, <1>3, <2>1, <3>1
  <2>3. d.query = Shown
    <3>1. k \in Flying({"table"})
      BY DEF Flying
    <3> QED
      BY <1>1, <1>6, <3>1 DEF ViewInv, Asked
  <2>4. Right(d.rows, d.total, Now)
    BY <1>4, <2>3, PageIsRight
  <2> QED
    BY <1>3, <1>5, <2>2, <2>3, <2>4 DEF AtRest, Asked, Changed
<1> QED
  BY <1>2, <1>5, <1>6 DEF ViewInv

\* A call ends badly: what it would have brought does not matter any more.
LEMMA ViewBad ==
  ASSUME AdminTyped, ViewInv, NEW k \in Call, Serve(k) \/ Lose(k), UNCHANGED serverVars,
         call'[k].at = "bad" \/ call[k].kind \in {"owners", "recent"}
  PROVE  ViewInv'
<1>2. /\ kind' = kind /\ filter' = filter /\ page' = page /\ timer' = timer
      /\ list' = list /\ total' = total /\ answers' = answers /\ mixed' = mixed /\ missed' = missed
      /\ \A K : Flying(K)' = Flying(K)
      /\ \A o \in Call : /\ o # k => call'[o] = call[o]
                         /\ call'[o].kind = call[o].kind /\ call'[o].query = call[o].query
  BY AnsweredIs DEF viewVars, tableVars
<1>3. rows' = rows /\ flag' = flag /\ stale' = stale
  BY DEF serverVars
<1>5. Now' = Now /\ Shown' = Shown
  BY <1>2, <1>3, NowStays
<1>6. CASE call[k].kind \in {"owners", "recent"}
  <2>1. \A o \in Call : \/ call'[o] = call[o]
                        \/ call'[o].kind \notin Changes /\ call[o].kind \notin Changes
    BY <1>2, <1>6 DEF Changes
  <2> QED
    BY <1>2, <1>3, <2>1, ViewStays DEF viewVars
<1>7. CASE call'[k].at = "bad"
  <2>0. Flying({"table"}) \subseteq Call /\ Flying({"patch", "delete"}) \subseteq Call
    BY DEF Flying
  <2>1. AtRest => AtRest'
    BY <1>2, <1>3, <1>5 DEF AtRest
  <2>2. ASSUME Asked PROVE Asked'
    <3>1. ASSUME NEW o \in Flying({"table"})
          PROVE  /\ call'[o].query = Shown
                 /\ call'[o].at = "ok" /\ ~stale => Right(call'[o].rows, call'[o].total, Now)
      BY <1>2, <1>7, <2>0, <2>2, <3>1 DEF Asked
    <3> QED
      BY <1>2, <1>3, <1>5, <3>1 DEF Asked
  <2>3. ASSUME Changed PROVE Changed'
    <3>1. ASSUME ~missed, NEW o \in Flying({"patch", "delete"})
          PROVE  answers = Shown /\ (~stale => ChangeRight(call'[o], list, total, Now))
      <4>1. CASE o = k
        BY <1>7, <2>3, <3>1, <4>1 DEF Changed, ChangeRight
      <4>2. CASE o # k
        BY <1>2, <2>0, <2>3, <3>1, <4>2 DEF Changed
      <4> QED
        BY <4>1, <4>2
    <3> QED
      BY <1>2, <1>3, <1>5, <3>1 DEF Changed
  <2> QED
    BY <1>2, <1>5, <2>1, <2>2, <2>3 DEF ViewInv
<1> QED
  BY <1>6, <1>7

\* The rows after a change of one of them, if they were right before.
LEMMA PatchRight ==
  ASSUME NEW l \in Seq(Row), NEW n, NEW v, NEW w, NEW c, Right(l, n, v),
         c.rows[1].id = c.item, ~c.rows[1].admin, c.rows[1].flag = w.flags[c.item],
         w.ids = v.ids, w.hits = v.hits, \A i \in Item : i # c.item => w.flags[i] = v.flags[i]
  PROVE  Right(Patched(l, c), n, w)
<1> DEFINE t == Patched(l, c)
<1>1. /\ DOMAIN t = DOMAIN l
      /\ \A p \in DOMAIN l : t[p] = IF l[p].id = c.item THEN c.rows[1] ELSE l[p]
  BY DEF Patched
<1> HIDE DEF t
<1>2. \A p \in DOMAIN l : t[p].id = l[p].id /\ l[p].id \in Item
  <2>1. \A p \in DOMAIN l : l[p] \in Row
    OBVIOUS
  <2>2. \A r \in Row : r.id \in Item
    BY DEF Row
  <2> QED
    BY <1>1, <2>1, <2>2
<1>3. Ids(t) = Ids(l)
  BY <1>1, <1>2 DEF Ids
<1>4. ASSUME NEW p \in DOMAIN t
      PROVE  t[p].flag = w.flags[t[p].id] /\ (t[p].admin => t[p].id \in Admins)
  <2>1. CASE l[p].id = c.item
    <3>1. t[p] = c.rows[1]
      BY <1>1, <1>4, <2>1
    <3> QED
      BY <3>1
  <2>2. CASE l[p].id # c.item
    <3>1. t[p] = l[p] /\ l[p].id \in Item
      BY <1>1, <1>2, <1>4, <2>2
    <3> QED
      BY <1>1, <1>4, <2>2, <3>1 DEF Right
  <2> QED
    BY <2>1, <2>2
<1>5. Ids(t) \subseteq w.ids /\ n = w.hits
  BY <1>3 DEF Right
<1> QED
  BY <1>4, <1>5 DEF Right, t

LEMMA WithoutRight ==
  ASSUME NEW l \in Seq(Row), NEW n, NEW v, NEW w, NEW c, Right(l, n, v),
         v.ids \ {c.item} \subseteq w.ids, w.hits = v.hits - 1, w.flags = v.flags
  PROVE  Right(Without(l, c), n - 1, w)
<1> DEFINE T == {r \in Row : r.id # c.item}
           t == Without(l, c)
<1>1. t \in Seq(Row) /\ ToSet(t) = ToSet(l) \cap T
  <2>1. Keep(l, T) \in Seq(Row) /\ ToSet(Keep(l, T)) = ToSet(l) \cap T
    BY Kept
  <2> QED
    BY <2>1 DEF Without
<1> HIDE DEF t
<1>2. ASSUME NEW p \in DOMAIN t
      PROVE  /\ t[p].id \in w.ids /\ t[p].flag = w.flags[t[p].id]
             /\ t[p].admin => t[p].id \in Admins
  <2>1. t[p] \in ToSet(l) /\ t[p].id # c.item
    BY <1>1 DEF ToSet
  <2>2. PICK q \in DOMAIN l : l[q] = t[p]
    BY <2>1 DEF ToSet
  <2>3. t[p].id \in v.ids
    BY <2>2 DEF Right, Ids
  <2> QED
    BY <2>1, <2>2, <2>3 DEF Right
<1>3. Ids(t) \subseteq w.ids
  BY <1>2 DEF Ids
<1>4. n - 1 = w.hits
  BY DEF Right
<1> QED
  BY <1>2, <1>3, <1>4 DEF Right, t

\* The server makes a change, and answers.
LEMMA ViewServeChange ==
  ASSUME AdminTyped, ViewInv, NEW k \in Call, Serve(k), call'[k].at = "ok",
         call[k].kind \in {"patch", "delete"}
  PROVE  ViewInv'
<1>1. PICK d \in AdminCall :
        /\ call' = [call EXCEPT ![k] = d] /\ Formed(d)
        /\ d.kind = call[k].kind /\ d.query = call[k].query /\ d.item = call[k].item
        /\ \/ d.at = "bad" /\ UNCHANGED serverVars
           \/ d.at = "ok" /\ d.kind \in {"owners", "recent"} /\ UNCHANGED serverVars
           \/ /\ d.at = "ok" /\ d.kind = "table"
              /\ d.rows = PageOf(d.query) /\ d.total = Len(Hits(d.query.filter))
              /\ stale' = FALSE /\ rows' = rows /\ flag' = flag
           \/ /\ d.at = "ok" /\ d.kind = "patch" /\ stale' = stale /\ rows' = rows
              /\ \A i \in Item : i # d.item => flag'[i] = flag[i]
              /\ d.rows = <<[id |-> d.item, flag |-> flag'[d.item], admin |-> FALSE]>>
           \/ /\ d.at = "ok" /\ d.kind = "delete" /\ stale' = stale /\ flag' = flag
              /\ rows' = Keep(rows, Item \ {d.item})
  BY ServeIs
<1>2. /\ AdminTyped' /\ kind' = kind /\ filter' = filter /\ page' = page /\ timer' = timer
      /\ list' = list /\ total' = total /\ answers' = answers /\ mixed' = mixed /\ missed' = missed
      /\ \A K : Flying(K)' = Flying(K)
      /\ \A o \in Call : o # k => call'[o] = call[o]
  BY AnsweredIs DEF viewVars, tableVars
<1>3. call'[k] = d /\ call[k].at = "sent"
  BY <1>1, <1>2, CallChanges, ServeIs
<1>4. stale' = stale /\ Shown' = Shown
  BY <1>1, <1>2, <1>3, ShownStays
<1>5. d.item \in Item /\ kind = "users"
  BY <1>1 DEF Formed
<1>6. \A i, f : Fits(i, f, flag) <=> Fits(i, f, flag')
  BY <1>5 DEF Fits
<1>7. /\ rows \in Seq(Item) /\ flag \in [Item -> BOOLEAN] /\ flag' \in [Item -> BOOLEAN]
      /\ list \in Seq(Row)
  BY <1>2 DEF AdminTyped, ServerTyped, TableTyped
<1>8. ASSUME ~missed, ~stale, Right(list, total, Now), d.kind = "delete" => d.item \in Ids(list)
      PROVE  ChangeRight(d, list, total, Now')
  <2>1. CASE d.kind = "patch"
    <3>1. /\ rows' = rows /\ d.at = "ok" /\ \A i \in Item : i # d.item => flag'[i] = flag[i]
          /\ d.rows = <<[id |-> d.item, flag |-> flag'[d.item], admin |-> FALSE]>>
      BY <1>1, <1>3, <2>1
    <3>2. /\ d.rows[1].id = d.item /\ ~d.rows[1].admin /\ d.rows[1].flag = flag'[d.item]
      BY <3>1
    <3>3. Hits(filter)' = Hits(filter)
      <4>1. {i \in Item : Fits(i, filter, flag)} = {i \in Item : Fits(i, filter, flag)}'
        BY <1>2, <1>5 DEF Fits
      <4> QED
        BY <3>1, <4>1 DEF Hits, HitsIn
    <3>4. Now'.ids = Now.ids /\ Now'.hits = Now.hits /\ Now'.flags = flag' /\ Now.flags = flag
      <4>1. /\ Now.hits = Len(Hits(filter)) /\ Now.flags = flag
            /\ Now.ids = ToSet(Slice(Hits(filter), page * PageSize, PageSize))
        BY NowIs
      <4>2. AdminTyped' =>
              /\ Now'.hits = Len(Hits(filter)') /\ Now'.flags = flag'
              /\ Now'.ids = ToSet(Slice(Hits(filter)', page' * PageSize, PageSize))
        BY NowIsNext
      <4> QED
        BY <1>2, <3>3, <4>1, <4>2
    <3>5. Right(Patched(list, d), total, Now')
      BY <1>7, <1>8, <3>1, <3>2, <3>4, PatchRight
    <3> QED
      BY <2>1, <3>1, <3>5 DEF ChangeRight
  <2>2. CASE d.kind = "delete"
    <3> DEFINE T == {i \in Item : Fits(i, filter, flag)}
               x == d.item
               h == Hits(filter)
               skip == page * PageSize
    <3>1. rows' = Keep(rows, Item \ {x}) /\ flag' = flag /\ d.at = "ok"
      BY <1>1, <1>3, <2>2
    <3>2. h = Keep(rows, T) /\ Hits(filter)' = Keep(rows', T)
      BY <1>2, <3>1 DEF Hits, HitsIn, Fits
    <3>3. Keep(h, Item \ {x}) = Keep(rows', T)
      <4> HIDE DEF T
      <4>1. Keep(Keep(rows, T), Item \ {x}) = Keep(rows, T \cap (Item \ {x}))
        BY <1>7, KeepTwice
      <4>2. Keep(Keep(rows, Item \ {x}), T) = Keep(rows, (Item \ {x}) \cap T)
        BY <1>7, KeepTwice
      <4>3. T \cap (Item \ {x}) = (Item \ {x}) \cap T
        OBVIOUS
      <4> QED
        BY <3>1, <3>2, <4>1, <4>2, <4>3
    <3>4. /\ Now.hits = Len(h) /\ Now.flags = flag /\ Now.ids = ToSet(Slice(h, skip, PageSize))
          /\ skip \in Nat /\ PageSize \in Nat /\ h \in Seq(Item) /\ IsInjective(h)
      BY NowIs
    <3>5. /\ Now'.hits = Len(Keep(h, Item \ {x})) /\ Now'.flags = flag'
          /\ Now'.ids = ToSet(Slice(Keep(h, Item \ {x}), skip, PageSize))
      <4>1. AdminTyped' =>
              /\ Now'.hits = Len(Hits(filter)') /\ Now'.flags = flag'
              /\ Now'.ids = ToSet(Slice(Hits(filter)', page' * PageSize, PageSize))
        BY NowIsNext
      <4> QED
        BY <1>2, <3>2, <3>3, <4>1
    <3>6. x \in ToSet(Slice(h, skip, PageSize))
      BY <1>8, <2>2, <3>4 DEF Right
    <3> HIDE DEF T, h, skip, x
    <3>7. /\ Len(Keep(h, Item \ {x})) = Len(h) - 1
          /\ ToSet(Slice(h, skip, PageSize)) \ {x} \subseteq
               ToSet(Slice(Keep(h, Item \ {x}), skip, PageSize))
      BY <3>4, <3>6, PageWithout
    <3>8. Now'.hits = Now.hits - 1 /\ Now.ids \ {x} \subseteq Now'.ids /\ Now'.flags = Now.flags
      BY <3>1, <3>4, <3>5, <3>7
    <3>9. Right(Without(list, d), total - 1, Now')
      BY <1>7, <1>8, <3>8, WithoutRight DEF x
    <3> QED
      BY <2>2, <3>1, <3>9 DEF ChangeRight
  <2> QED
    BY <1>1, <2>1, <2>2
<1>9. ASSUME kind # "export", ~mixed, timer = Nothing PROVE AtRest' /\ Asked' /\ Changed'
  <2>1. Flying(Changes) = {k}
    <3>1. call[k].kind \in Changes /\ \A i, j \in Flying(Changes) : i = j
      BY <1>9 DEF Changes, ViewInv
    <3> QED
      BY <3>1, Sole
  <2>2. Flying({"table"})' = {} /\ Flying({"patch", "delete"})' = {k} /\ Flying(Changes)' = {k}
    <3>1. /\ Flying({"table"})' = {o \in Flying(Changes)' : call'[o].kind = "table"}
          /\ Flying({"patch", "delete"})' =
               {o \in Flying(Changes)' : call'[o].kind \in {"patch", "delete"}}
      BY FlyingKindsNext
    <3> QED
      BY <1>1, <1>2, <1>3, <2>1, <3>1
  <2>3. ASSUME ~missed
        PROVE  answers = Shown /\ (~stale => ChangeRight(d, list, total, Now'))
    <3>1. k \in Flying({"patch", "delete"})
      BY DEF Flying
    <3>2. answers = Shown /\ (~stale => ChangeRight(call[k], list, total, Now))
      BY <1>9, <2>3, <3>1 DEF ViewInv, Changed
    <3> QED
      BY <1>1, <1>3, <1>8, <2>3, <3>2 DEF ChangeRight
  <2> QED
    BY <1>2, <1>3, <1>4, <2>2, <2>3 DEF AtRest, Asked, Changed
<1> QED
  BY <1>2, <1>4, <1>9 DEF ViewInv

\* Others change the server.
LEMMA ViewOthers == ASSUME AdminTyped, ViewInv, Others PROVE ViewInv'
<1>1. /\ kind' = kind /\ filter' = filter /\ page' = page /\ timer' = timer /\ call' = call
      /\ list' = list /\ total' = total /\ answers' = answers /\ mixed' = mixed /\ missed' = missed
      /\ stale' = TRUE
  BY OthersAre DEF viewVars, tableVars
<1>2. Shown' = Shown
  BY <1>1, ShownStays
<1>3. \A K : Flying(K)' = Flying(K)
  BY <1>1 DEF Flying
<1>4. AtRest => AtRest'
  BY <1>1, <1>2, <1>3 DEF AtRest
<1>5. Asked => Asked'
  BY <1>1, <1>2, <1>3 DEF Asked
<1>6. Changed => Changed'
  BY <1>1, <1>2, <1>3 DEF Changed
<1> QED
  BY <1>1, <1>2, <1>3, <1>4, <1>5, <1>6 DEF ViewInv

\* The view changes, and the timer is armed.
LEMMA ViewTurned ==
  ASSUME AdminTyped, ViewInv,
         \/ \E f \in {"all", "part"} : Filter(f)
         \/ \E p \in {page - 1, page + 1} : Turn(p)
  PROVE  ViewInv'
<1>1. /\ timer' = Shown' /\ timer' # Nothing /\ call' = call /\ mixed' = mixed
  BY ViewChangesTyped DEF tableVars
<1>2. Flying(Changes)' = Flying(Changes)
  BY <1>1 DEF Flying
<1> QED
  BY <1>1, <1>2 DEF ViewInv

\* The table is fetched.
LEMMA ViewFetched ==
  ASSUME AdminTyped, ViewInv, NEW k \in Call,
         \/ FireTimer(k)
         \/ \E f \in {"all", "part"} : FilterRatings(k, f)
         \/ \E p \in {page - 1, page + 1} : TurnRatings(k, p)
  PROVE  ViewInv'
<1>1. /\ kind' = kind /\ kind # "export" /\ timer' = Nothing
      /\ \E query \in Query :
           /\ Fetch(k, query)
           /\ (query = timer /\ UNCHANGED <<filter, page>>) \/ query = Shown'
  BY FetchesAre
<1>2. PICK query \in Query :
        /\ Fetch(k, query)
        /\ (query = timer /\ UNCHANGED <<filter, page>>) \/ query = Shown'
  BY <1>1
<1>3. query = Shown'
  <2>1. CASE query = timer /\ UNCHANGED <<filter, page>>
    <3>1. query = Shown /\ Shown' = Shown
      BY <2>1, AdminAssumption, ShownStays DEF ViewInv
    <3> QED
      BY <3>1
  <2> QED
    BY <1>2, <2>1
<1>4. /\ call[k] = Idle /\ call'[k].kind = "table" /\ call'[k].at = "sent" /\ call'[k].query = query
      /\ \A o \in Call : o # k => call'[o] = call[o]
      /\ Flying(Changes)' = Flying(Changes) \cup {k}
      /\ mixed' = (Flying(Changes) # {})
  <2>1. /\ call[k] = Idle /\ call'[k].kind = "table" /\ call'[k].at = "sent"
        /\ call'[k].query = query
        /\ \A o \in Call : o # k => call'[o] = call[o]
        /\ \A K : Flying(K)' = IF "table" \in K THEN Flying(K) \cup {k} ELSE Flying(K) \ {k}
        /\ mixed' = (Flying(Changes) # {})
    BY <1>1, <1>2, FetchIs
  <2> QED
    BY <2>1 DEF Changes
<1>5. ASSUME ~mixed' PROVE Flying(Changes)' = {k} /\ AtRest' /\ Asked' /\ Changed'
  <2>1. Flying(Changes)' = {k}
    BY <1>4, <1>5
  <2>2. Flying({"table"})' = {k} /\ Flying({"patch", "delete"})' = {}
    <3>1. /\ Flying({"table"})' = {o \in Flying(Changes)' : call'[o].kind = "table"}
          /\ Flying({"patch", "delete"})' =
               {o \in Flying(Changes)' : call'[o].kind \in {"patch", "delete"}}
      BY FlyingKindsNext
    <3> QED
      BY <1>4, <2>1, <3>1
  <2> QED
    BY <1>3, <1>4, <2>1, <2>2 DEF AtRest, Asked, Changed
<1> QED
  BY <1>1, <1>5 DEF ViewInv

\* A change is sent.
LEMMA ViewChangeSent ==
  ASSUME AdminTyped, ViewInv, NEW k \in Call, kind' = kind, UNCHANGED viewVars,
         UNCHANGED <<list, total, answers, missed>>, rows' = rows, flag' = flag, stale' = stale,
         call'[k].kind \in {"patch", "delete"}, call'[k].at = "sent",
         Flying(Changes)' = Flying(Changes) \cup {k},
         ~mixed' => ~mixed /\ timer = Nothing /\ Flying(Changes) = {},
         ~mixed' /\ call'[k].kind = "delete" => call'[k].item \in Ids(list)
  PROVE  ViewInv'
<1>1. timer' = timer /\ Shown' = Shown /\ Now' = Now
  BY NowStays DEF viewVars
<1>2. ASSUME ~mixed' PROVE Flying(Changes)' = {k}
  BY <1>2
<1>3. ASSUME ~mixed', kind # "export" PROVE AtRest' /\ Asked' /\ Changed'
  <2>1. Flying({"table"})' = {} /\ Flying({"patch", "delete"})' = {k}
    <3>1. /\ Flying({"table"})' = {o \in Flying(Changes)' : call'[o].kind = "table"}
          /\ Flying({"patch", "delete"})' =
               {o \in Flying(Changes)' : call'[o].kind \in {"patch", "delete"}}
      BY FlyingKindsNext
    <3> QED
      BY <1>2, <1>3, <3>1
  <2>2. ~missed => answers = Shown /\ (~stale => Right(list, total, Now))
    BY <1>3 DEF ViewInv, AtRest
  <2>3. ~missed => answers = Shown /\ (~stale => ChangeRight(call'[k], list, total, Now))
    BY <1>3, <2>2 DEF ChangeRight
  <2> QED
    BY <1>1, <1>2, <1>3, <2>1, <2>3 DEF AtRest, Asked, Changed
<1> QED
  BY <1>1, <1>2, <1>3 DEF ViewInv

\* The answer of a call that changes the table is applied.
LEMMA ViewApplied ==
  ASSUME AdminTyped, ViewInv, NEW k \in Call, kind' = kind, UNCHANGED viewVars, UNCHANGED serverVars,
         mixed' = mixed, call[k].kind \in Changes, Flying(Changes)' = Flying(Changes) \ {k},
         (kind # "export" /\ ~mixed /\ timer = Nothing /\ ~missed') =>
           answers' = Shown /\ (~stale => Right(list', total', Now))
  PROVE  ViewInv'
<1>1. timer' = timer /\ Shown' = Shown /\ Now' = Now /\ stale' = stale
  BY NowStays DEF viewVars, serverVars
<1>2. ASSUME ~mixed PROVE Flying(Changes)' = {}
  <2>1. Flying(Changes) = {k}
    BY <1>2, Sole DEF ViewInv
  <2> QED
    BY <2>1
<1>3. ASSUME ~mixed, kind # "export", timer = Nothing PROVE AtRest' /\ Asked' /\ Changed'
  <2>1. Flying({"table"})' = {} /\ Flying({"patch", "delete"})' = {}
    <3>1. /\ Flying({"table"})' = {o \in Flying(Changes)' : call'[o].kind = "table"}
          /\ Flying({"patch", "delete"})' =
               {o \in Flying(Changes)' : call'[o].kind \in {"patch", "delete"}}
      BY FlyingKindsNext
    <3> QED
      BY <1>2, <1>3, <3>1
  <2> QED
    BY <1>1, <1>3, <2>1 DEF AtRest, Asked, Changed
<1> QED
  BY <1>1, <1>2, <1>3 DEF ViewInv

-----------------------------------------------------------------------------
(* AdminPages: a step keeps the table right, whichever it is.               *)

\* A call that is served, or whose answer is lost.
LEMMA ViewAnswered ==
  ASSUME AdminTyped, ViewInv, NEW k \in Call, Serve(k) \/ Lose(k)
  PROVE  ViewInv'
<1>1. CASE Lose(k)
  <2>1. UNCHANGED serverVars /\ call'[k].at = "bad"
    <3>1. /\ UNCHANGED serverVars
          /\ \E d \in AdminCall :
              /\ call' = [call EXCEPT ![k] = d] /\ Formed(d)
              /\ d.kind = call[k].kind /\ d.at = "bad" /\ d.query = call[k].query
              /\ d.item = call[k].item
      BY <1>1, LoseIs
    <3> QED
      BY <3>1 DEF AdminTyped, CallTyped
  <2> QED
    BY <1>1, <2>1, ViewBad
<1>2. CASE Serve(k)
  <2>1. PICK d \in AdminCall :
          /\ call' = [call EXCEPT ![k] = d] /\ Formed(d)
          /\ d.kind = call[k].kind /\ d.query = call[k].query /\ d.item = call[k].item
          /\ \/ d.at = "bad" /\ UNCHANGED serverVars
             \/ d.at = "ok" /\ d.kind \in {"owners", "recent"} /\ UNCHANGED serverVars
             \/ /\ d.at = "ok" /\ d.kind = "table"
                /\ d.rows = PageOf(d.query) /\ d.total = Len(Hits(d.query.filter))
                /\ stale' = FALSE /\ rows' = rows /\ flag' = flag
             \/ /\ d.at = "ok" /\ d.kind = "patch" /\ stale' = stale /\ rows' = rows
                /\ \A i \in Item : i # d.item => flag'[i] = flag[i]
                /\ d.rows = <<[id |-> d.item, flag |-> flag'[d.item], admin |-> FALSE]>>
             \/ /\ d.at = "ok" /\ d.kind = "delete" /\ stale' = stale /\ flag' = flag
                /\ rows' = Keep(rows, Item \ {d.item})
    BY <1>2, ServeIs
  <2>2. call'[k] = d
    BY <2>1 DEF AdminTyped, CallTyped
  <2>3. \/ UNCHANGED serverVars /\ (call'[k].at = "bad" \/ call[k].kind \in {"owners", "recent"})
        \/ call'[k].at = "ok" /\ call[k].kind = "table"
        \/ call'[k].at = "ok" /\ call[k].kind \in {"patch", "delete"}
    <3>1. \/ UNCHANGED serverVars /\ (d.at = "bad" \/ d.kind \in {"owners", "recent"})
          \/ d.at = "ok" /\ d.kind = "table"
          \/ d.at = "ok" /\ d.kind \in {"patch", "delete"}
      BY <2>1
    <3>2. d.kind = call[k].kind
      BY <2>1
    <3> QED
      BY <2>2, <3>1, <3>2
  <2> QED
    BY <1>2, <2>3, ViewBad, ViewServeTable, ViewServeChange
<1> QED
  BY <1>1, <1>2

\* A step that leaves the table, what it asks and what it answers alone.
LEMMA ViewElsewhere ==
  ASSUME AdminTyped, ViewInv,
         \/ CloseDrawer \/ ExportBegin \/ ExportCount \/ ExportSelect
         \/ \E k \in Call : ApplyOwners(k) \/ ApplyRecent(k)
         \/ \E k \in Call : \E shown \in ToSet(list) : OpenDrawer(k, shown)
  PROVE  ViewInv'
<1>1. CASE CloseDrawer
  <2>1. /\ kind' = kind /\ call' = call
        /\ UNCHANGED viewVars /\ UNCHANGED tableVars /\ UNCHANGED serverVars
    BY <1>1, CloseDrawerIs
  <2> QED
    BY <2>1, ViewStays DEF tableVars, serverVars
<1>2. CASE ExportBegin \/ ExportCount \/ ExportSelect
  <2>1. /\ kind' = kind /\ call' = call /\ UNCHANGED <<rows, flag, born, changes, stale>>
        /\ UNCHANGED viewVars /\ UNCHANGED tableVars
    BY <1>2, ExportTyped
  <2> QED
    BY <2>1, ViewStays DEF tableVars
<1>3. ASSUME NEW k \in Call, ApplyOwners(k) PROVE ViewInv'
  <2>1. /\ kind' = kind /\ call[k].kind = "owners" /\ Gone(k)
        /\ UNCHANGED <<list, total, answers, mixed, missed>>
        /\ UNCHANGED viewVars /\ UNCHANGED serverVars
    BY <1>3, ApplyOwnersIs
  <2>2. call'[k] = Idle /\ \A o \in Call : o # k => call'[o] = call[o]
    BY <2>1, CallEnds
  <2>3. \A o \in Call : \/ call'[o] = call[o]
                        \/ call'[o].kind \notin Changes /\ call[o].kind \notin Changes
    BY <2>1, <2>2, IdleAdmin DEF Changes
  <2> QED
    BY <2>1, <2>3, ViewStays DEF serverVars
<1>4. ASSUME NEW k \in Call, ApplyRecent(k) PROVE ViewInv'
  <2>1. /\ kind' = kind /\ call[k].kind = "recent" /\ Gone(k)
        /\ UNCHANGED viewVars /\ UNCHANGED tableVars /\ UNCHANGED serverVars
    BY <1>4, ApplyRecentIs
  <2>2. call'[k] = Idle /\ \A o \in Call : o # k => call'[o] = call[o]
    BY <2>1, CallEnds
  <2>3. \A o \in Call : \/ call'[o] = call[o]
                        \/ call'[o].kind \notin Changes /\ call[o].kind \notin Changes
    BY <2>1, <2>2, IdleAdmin DEF Changes
  <2> QED
    BY <2>1, <2>3, ViewStays DEF tableVars, serverVars
<1>5. ASSUME NEW k \in Call, NEW shown \in ToSet(list), OpenDrawer(k, shown) PROVE ViewInv'
  <2>1. /\ kind = "users" /\ kind' = kind /\ shown \in Row /\ Recent(k, shown) /\ call[k] = Idle
        /\ UNCHANGED viewVars /\ UNCHANGED tableVars /\ UNCHANGED serverVars
    BY <1>5, OpenDrawerIs
  <2>2. PICK d \in AdminCall :
          /\ call' = [call EXCEPT ![k] = d] /\ Formed(d)
          /\ d.kind = "recent" /\ d.at = "sent" /\ d.item = shown.id
    BY <2>1, RecentIs
  <2>3. call'[k] = d /\ \A o \in Call : o # k => call'[o] = call[o]
    BY <2>1, <2>2, CallsTyped
  <2>4. \A o \in Call : \/ call'[o] = call[o]
                        \/ call'[o].kind \notin Changes /\ call[o].kind \notin Changes
    BY <2>1, <2>2, <2>3, IdleAdmin DEF Changes
  <2> QED
    BY <2>1, <2>4, ViewStays DEF tableVars, serverVars
<1> QED
  BY <1>1, <1>2, <1>3, <1>4, <1>5

\* A change of the administrator is sent.
LEMMA ViewChanging ==
  ASSUME AdminTyped, ViewInv, NEW k \in Call,
         Delete(k) \/ \E field \in {"active", "admin"} : Patch(k, field)
  PROVE  ViewInv'
<1>1. CASE Delete(k)
  <2>1. /\ kind' = kind
        /\ call'[k].kind = "delete" /\ call'[k].at = "sent" /\ call'[k].item = drawer.user.id
        /\ \A K : Flying(K)' = IF "delete" \in K THEN Flying(K) \cup {k} ELSE Flying(K) \ {k}
        /\ mixed' = (mixed \/ timer # Nothing \/ Flying(Changes) # {}
                        \/ drawer.user.id \notin Ids(list))
        /\ UNCHANGED <<list, total, loading, count, answers, missed>>
        /\ UNCHANGED viewVars /\ UNCHANGED <<rows, flag, born, stale, export>>
    BY <1>1, DeleteIs
  <2>2. Flying(Changes)' = Flying(Changes) \cup {k}
    BY <2>1 DEF Changes
  <2>3. ~mixed' => ~mixed /\ timer = Nothing /\ Flying(Changes) = {} /\ call'[k].item \in Ids(list)
    BY <2>1
  <2> QED
    BY <2>1, <2>2, <2>3, ViewChangeSent
<1>2. ASSUME NEW field \in {"active", "admin"}, Patch(k, field) PROVE ViewInv'
  <2>1. /\ kind' = kind /\ call'[k].kind = "patch" /\ call'[k].at = "sent"
        /\ \A K : Flying(K)' = IF "patch" \in K THEN Flying(K) \cup {k} ELSE Flying(K) \ {k}
        /\ mixed' = (mixed \/ timer # Nothing \/ Flying(Changes) # {})
        /\ UNCHANGED <<list, total, loading, count, answers, missed>>
        /\ UNCHANGED viewVars /\ UNCHANGED <<rows, flag, born, stale, export>>
    BY <1>2, PatchIs
  <2>2. Flying(Changes)' = Flying(Changes) \cup {k}
    BY <2>1 DEF Changes
  <2>3. ~mixed' => ~mixed /\ timer = Nothing /\ Flying(Changes) = {}
    BY <2>1
  <2> QED
    BY <2>1, <2>2, <2>3, ViewChangeSent
<1> QED
  BY <1>1, <1>2

\* The answer of a call that changes the table.
LEMMA ViewApplying ==
  ASSUME AdminTyped, ViewInv, NEW k \in Call, ApplyTable(k) \/ ApplyPatch(k) \/ ApplyDelete(k)
  PROVE  ViewInv'
<1>1. CASE ApplyTable(k)
  <2>1. /\ kind' = kind /\ mixed' = mixed /\ call[k].kind = "table"
        /\ \A K : "none" \notin K /\ "recent" \notin K => Flying(K)' = Flying(K) \ {k}
        /\ UNCHANGED viewVars /\ UNCHANGED serverVars
        /\ \/ /\ call[k].at = "ok"
              /\ list' = call[k].rows /\ total' = call[k].total /\ answers' = call[k].query
              /\ missed' = FALSE
           \/ missed' = TRUE
    BY <1>1, ApplyTableIs
  <2>2. k \in Flying({"table"}) /\ Flying(Changes)' = Flying(Changes) \ {k} /\ call[k].kind \in Changes
    BY <2>1 DEF Flying, Changes
  <2>3. (kind # "export" /\ ~mixed /\ timer = Nothing /\ ~missed') =>
           answers' = Shown /\ (~stale => Right(list', total', Now))
    BY <2>1, <2>2 DEF ViewInv, Asked
  <2> QED
    BY <2>1, <2>2, <2>3, ViewApplied
<1>2. CASE ApplyPatch(k)
  <2>1. /\ kind' = kind /\ mixed' = mixed /\ call[k].kind = "patch"
        /\ \A K : "none" \notin K /\ "recent" \notin K => Flying(K)' = Flying(K) \ {k}
        /\ UNCHANGED <<total, loading, count, answers, mixed>>
        /\ UNCHANGED viewVars /\ UNCHANGED serverVars
        /\ \/ call[k].at = "ok" /\ list' = Patched(list, call[k]) /\ missed' = missed
           \/ missed' = TRUE
    BY <1>2, ApplyPatchIs
  <2>2. /\ k \in Flying({"patch", "delete"}) /\ call[k].kind \in Changes
        /\ Flying(Changes)' = Flying(Changes) \ {k}
    BY <2>1 DEF Flying, Changes
  <2>3. (kind # "export" /\ ~mixed /\ timer = Nothing /\ ~missed') =>
           answers' = Shown /\ (~stale => Right(list', total', Now))
    BY <2>1, <2>2 DEF ViewInv, Changed, ChangeRight
  <2> QED
    BY <2>1, <2>2, <2>3, ViewApplied
<1>3. CASE ApplyDelete(k)
  <2>1. /\ kind' = kind /\ call[k].kind = "delete" /\ Gone(k)
        /\ UNCHANGED <<loading, count, answers, mixed>>
        /\ UNCHANGED viewVars /\ UNCHANGED serverVars
        /\ \/ /\ call[k].at = "ok" /\ list' = Without(list, call[k]) /\ total' = total - 1
              /\ missed' = missed
           \/ missed' = TRUE
    BY <1>3, ApplyDeleteIs
  <2>2. /\ k \in Flying({"patch", "delete"}) /\ call[k].kind \in Changes
        /\ Flying(Changes)' = Flying(Changes) \ {k}
    <3>1. \A K : "none" \notin K => Flying(K)' = Flying(K) \ {k}
      BY <2>1, CallEnds
    <3> QED
      BY <2>1, <3>1 DEF Flying, Changes
  <2>3. (kind # "export" /\ ~mixed /\ timer = Nothing /\ ~missed') =>
           answers' = Shown /\ (~stale => Right(list', total', Now))
    BY <2>1, <2>2 DEF ViewInv, Changed, ChangeRight
  <2> QED
    BY <2>1, <2>2, <2>3, ViewApplied
<1> QED
  BY <1>1, <1>2, <1>3

\* A step keeps the table right for the view.
LEMMA ViewNext == ASSUME AdminTyped, ViewInv, AdminNext PROVE ViewInv'
<1>1. ASSUME NEW k \in Call,
             \/ FireTimer(k)
             \/ \E f \in {"all", "part"} : FilterRatings(k, f)
             \/ \E p \in {page - 1, page + 1} : TurnRatings(k, p)
      PROVE  ViewInv'
  BY <1>1, ViewFetched
<1>2. ASSUME NEW k \in Call, Serve(k) \/ Lose(k) PROVE ViewInv'
  BY <1>2, ViewAnswered
<1>3. ASSUME NEW k \in Call,
             Delete(k) \/ \E field \in {"active", "admin"} : Patch(k, field)
      PROVE  ViewInv'
  BY <1>3, ViewChanging
<1>4. ASSUME NEW k \in Call, ApplyTable(k) \/ ApplyPatch(k) \/ ApplyDelete(k) PROVE ViewInv'
  BY <1>4, ViewApplying
<1>5. CASE \/ \E f \in {"all", "part"} : Filter(f)
           \/ \E p \in {page - 1, page + 1} : Turn(p)
  BY <1>5, ViewTurned
<1>6. CASE \/ CloseDrawer \/ ExportBegin \/ ExportCount \/ ExportSelect
           \/ \E k \in Call : ApplyOwners(k) \/ ApplyRecent(k)
           \/ \E k \in Call : \E shown \in ToSet(list) : OpenDrawer(k, shown)
  BY <1>6, ViewElsewhere
<1> QED
  BY <1>1, <1>2, <1>3, <1>4, <1>5, <1>6, ViewOthers DEF AdminNext

-----------------------------------------------------------------------------
(* AdminPages: what holds of every reachable state.                         *)

\* A step keeps the types.
LEMMA TypedNext == ASSUME AdminTyped, AdminNext PROVE AdminTyped'
<1>1. ASSUME NEW k \in Call,
             \/ FireTimer(k)
             \/ \E f \in {"all", "part"} : FilterRatings(k, f)
             \/ \E p \in {page - 1, page + 1} : TurnRatings(k, p)
      PROVE  AdminTyped'
  BY <1>1, FetchesAre
<1>2. ASSUME NEW k \in Call, Serve(k) \/ Lose(k) PROVE AdminTyped'
  BY <1>2, AnsweredIs
<1>3. ASSUME NEW k \in Call, Delete(k) PROVE AdminTyped'
  BY <1>3, DeleteIs
<1>4. ASSUME NEW k \in Call, NEW field \in {"active", "admin"}, Patch(k, field) PROVE AdminTyped'
  BY <1>4, PatchIs
<1>5. ASSUME NEW k \in Call, ApplyTable(k) PROVE AdminTyped'
  BY <1>5, ApplyTableIs
<1>6. ASSUME NEW k \in Call, ApplyPatch(k) PROVE AdminTyped'
  BY <1>6, ApplyPatchIs
<1>7. ASSUME NEW k \in Call, ApplyDelete(k) PROVE AdminTyped'
  BY <1>7, ApplyDeleteIs
<1>8. ASSUME NEW k \in Call, ApplyOwners(k) PROVE AdminTyped'
  BY <1>8, ApplyOwnersIs
<1>9. ASSUME NEW k \in Call, ApplyRecent(k) PROVE AdminTyped'
  BY <1>9, ApplyRecentIs
<1>10. ASSUME NEW k \in Call, NEW shown \in ToSet(list), OpenDrawer(k, shown) PROVE AdminTyped'
  BY <1>10, OpenDrawerIs
<1>11. CASE \/ \E f \in {"all", "part"} : Filter(f)
            \/ \E p \in {page - 1, page + 1} : Turn(p)
  BY <1>11, ViewChangesTyped
<1>12. CASE CloseDrawer
  BY <1>12, CloseDrawerIs
<1>13. CASE ExportBegin \/ ExportCount \/ ExportSelect
  BY <1>13, ExportTyped
<1> QED
  BY <1>1, <1>2, <1>3, <1>4, <1>5, <1>6, <1>7, <1>8, <1>9, <1>10, <1>11, <1>12, <1>13, OthersTyped
     DEF AdminNext

\* What holds of every reachable state.
AdminInv == AdminTyped /\ Counts /\ LoadInv /\ DrawerInv /\ ViewInv /\ ExportInv

LEMMA AdminInvInit == AdminInit => AdminInv
<1> SUFFICES ASSUME AdminInit PROVE AdminInv
  OBVIOUS
<1>1. AdminTyped
  BY InitTyped
<1>2. /\ kind \in {"users", "conversations", "ratings", "export"}
      /\ page = 0 /\ list = <<>> /\ total = 0 /\ changes = 0 /\ drawer = Closed
      /\ (loading <=> kind \in {"conversations", "ratings"})
      /\ count = (IF kind = "conversations" THEN 1 ELSE 0)
      /\ export = NoExport /\ timer \in {Nothing, Shown}
      /\ (kind \in {"users", "conversations"} => timer = Shown)
  BY DEF AdminInit, Shown
<1>3. CASE kind \in {"users", "export"}
  <2>1. call = [k \in Call |-> Idle]
    BY <1>3 DEF AdminInit
  <2>2. \A K : "none" \notin K => Flying(K) = {}
    BY <2>1, IdleAdmin DEF Flying
  <2>3. Counts
    <3>1. Flying({"delete"}) = {} /\ Cardinality(Flying({"delete"})) = 0
      BY <2>2, FlyingCount
    <3> QED
      BY <1>2, <3>1 DEF Counts
  <2>4. LoadInv
    BY <1>2, <1>3 DEF LoadInv
  <2>5. DrawerInv
    BY <1>2 DEF DrawerInv, Closed
  <2>6. ViewInv
    <3>1. Flying(Changes) = {} /\ (kind = "export" \/ timer # Nothing)
      BY <1>1, <1>2, <1>3, <2>2, NowIs DEF Changes
    <3> QED
      BY <1>2, <3>1 DEF ViewInv
  <2>7. ExportInv
    BY <1>1, <1>2, NotExporting DEF NoExport
  <2> QED
    BY <1>1, <2>3, <2>4, <2>5, <2>6, <2>7 DEF AdminInv
<1>4. CASE kind \in {"conversations", "ratings"}
  <2> DEFINE what == IF kind = "ratings" THEN "table" ELSE "owners"
             query == IF kind = "ratings" THEN Shown ELSE Nothing
             d == [Idle EXCEPT !.at = "sent", !.kind = what, !.query = query]
  <2>1. PICK k \in Call : call = [c \in Call |-> IF c # k THEN Idle ELSE d]
    BY <1>2, <1>4 DEF AdminInit, Shown
  <2>2. d.kind = what /\ d.at = "sent" /\ d.query = query
    BY IdleAdmin DEF AdminCall
  <2> HIDE DEF d
  <2>3. \A K : "none" \notin K => Flying(K) = IF what \in K THEN {k} ELSE {}
    BY <2>1, <2>2, IdleAdmin DEF Flying
  <2>4. Counts
    <3>1. Flying({"delete"}) = {} /\ Cardinality(Flying({"delete"})) = 0
      BY <2>3, FlyingCount
    <3> QED
      BY <1>2, <3>1 DEF Counts
  <2>5. LoadInv
    <3>1. CASE kind = "conversations"
      <4>1. Flying({"table", "owners"}) = {k}
        BY <2>3, <3>1
      <4>2. Cardinality(Flying({"table", "owners"})) = 1
        BY <4>1, FS_Singleton
      <4> QED
        BY <1>2, <3>1, <4>2 DEF LoadInv
    <3>2. CASE kind = "ratings"
      <4>1. Flying({"table"}) = {k}
        BY <2>3, <3>2
      <4> QED
        BY <1>2, <3>2, <4>1 DEF LoadInv
    <3> QED
      BY <1>4, <3>1, <3>2
  <2>6. DrawerInv
    BY <1>2 DEF DrawerInv, Closed
  <2>7. ViewInv
    <3>1. Flying(Changes) = IF kind = "ratings" THEN {k} ELSE {}
      BY <1>4, <2>3 DEF Changes
    <3>2. CASE kind = "conversations"
      <4>1. timer # Nothing
        BY <1>1, <1>2, <3>2, NowIs
      <4> QED
        BY <1>2, <3>1, <3>2, <4>1 DEF ViewInv
    <3>3. CASE kind = "ratings"
      <4>1. /\ Flying(Changes) = {k} /\ Flying({"table"}) = {k} /\ Flying({"patch", "delete"}) = {}
            /\ call[k].query = Shown /\ call[k].at = "sent"
        BY <2>1, <2>2, <2>3, <3>1, <3>3
      <4> QED
        BY <1>2, <4>1 DEF ViewInv, AtRest, Asked, Changed
    <3> QED
      BY <1>4, <3>2, <3>3
  <2>8. ExportInv
    BY <1>1, <1>2, NotExporting DEF NoExport
  <2> QED
    BY <1>1, <2>4, <2>5, <2>6, <2>7, <2>8 DEF AdminInv
<1> QED
  BY <1>2, <1>3, <1>4

LEMMA AdminInvNext == AdminInv /\ [AdminNext]_adminVars => AdminInv'
<1> SUFFICES ASSUME AdminInv, [AdminNext]_adminVars PROVE AdminInv'
  OBVIOUS
<1>1. CASE AdminNext
  BY <1>1, TypedNext, CountsNext, LoadNext, DrawerNext, ViewNext, ExportNext DEF AdminInv
<1>2. CASE UNCHANGED adminVars
  <2>1. /\ kind' = kind /\ call' = call /\ UNCHANGED viewVars /\ UNCHANGED tableVars
        /\ UNCHANGED serverVars /\ UNCHANGED drawerVars
    BY <1>2 DEF adminVars
  <2>2. \A K : Flying(K)' = Flying(K)
    BY <2>1 DEF Flying
  <2>3. AdminTyped'
    BY <2>1, TypedStays DEF AdminInv, AdminTyped
  <2>4. Counts'
    BY <2>1, <2>2 DEF AdminInv, Counts, serverVars, tableVars
  <2>5. LoadInv'
    BY <2>1, <2>2, LoadStays DEF AdminInv, tableVars
  <2>6. DrawerInv'
    BY <2>1, <2>2, DrawerStays DEF AdminInv, drawerVars
  <2>7. ViewInv'
    BY <2>1, ViewStays DEF AdminInv, tableVars, serverVars
  <2>8. ExportInv'
    <3>1. export' = export
      BY <2>1 DEF serverVars
    <3>2. Hits(export.filter)' = Hits(export.filter)
      BY <2>1, <3>1 DEF serverVars, Hits, HitsIn, Fits
    <3> QED
      BY <3>1, <3>2 DEF AdminInv, ExportInv, ExportOnce, ExportAll
  <2> QED
    BY <2>3, <2>4, <2>5, <2>6, <2>7, <2>8 DEF AdminInv
<1> QED
  BY <1>1, <1>2

LEMMA AdminInvariant == AdminSpec => []AdminInv
BY AdminInvInit, AdminInvNext, PTL DEF AdminSpec

\* The invariant gives what the properties say.
LEMMA AdminInvTypes == AdminInv => AdminTypeOK
<1> SUFFICES ASSUME AdminInv PROVE AdminTypeOK
  OBVIOUS
<1>1. AdminTyped
  BY DEF AdminInv
<1>2. [filter |-> filter, page |-> page] \in Query
  BY <1>1 DEF AdminTyped, ViewTyped, Query
<1>3. ToSet(list) \subseteq Row
  BY <1>1 DEF AdminTyped, TableTyped, ToSet
<1>4. total \in -MaxChanges .. Cardinality(Item)
  <2>1. Cardinality(Flying({"delete"})) \in Nat /\ changes \in 0 .. MaxChanges /\ MaxChanges \in Nat
        /\ total \in Int /\ total <= Cardinality(Item) /\ Cardinality(Item) \in Nat
    BY <1>1, FlyingCount, ItemCount, AdminAssumption DEF AdminTyped, TableTyped, ServerTyped
  <2>2. Cardinality(Flying({"delete"})) <= total + changes
    BY DEF AdminInv, Counts
  <2> QED
    BY <2>1, <2>2
<1>5. count \in 0 .. Cardinality(Call)
  <2>1. 0 \in 0 .. Cardinality(Call)
    BY ItemCount
  <2>2. Cardinality(Flying({"table", "owners"})) \in 0 .. Cardinality(Call)
    BY FlyingCount
  <2> QED
    BY <2>1, <2>2 DEF AdminInv, LoadInv
<1>6. \A k \in Call :
        /\ call[k].at \in {"free", "sent", "ok", "bad"}
        /\ call[k].at = "free" <=> call[k] = Idle
  BY <1>1, CallFields DEF Formed
<1>7. {loading, mixed, missed, stale, crossed} \subseteq BOOLEAN
  BY <1>1 DEF AdminTyped, TableTyped, ServerTyped, DrawerTyped
<1>8. /\ drawer.user \in Row \cup {Nothing} /\ (drawer.open <=> drawer.user # Nothing)
      /\ drawer.convs \in Item \cup {Nothing} /\ drawer.loading \in BOOLEAN
      /\ (kind # "users" => drawer.user = Nothing)
  BY <1>1 DEF AdminTyped, DrawerTyped, AdminDrawer
<1> QED
  BY <1>1, <1>2, <1>3, <1>4, <1>5, <1>6, <1>7, <1>8
     DEF AdminTypeOK, AdminTyped, ViewTyped, TableTyped, ServerTyped

LEMMA AdminInvTable == AdminInv => TableAnswersView
<1> SUFFICES ASSUME AdminInv, kind # "export", timer = Nothing, Flying(Changes) = {}, ~mixed, ~missed
             PROVE  /\ answers = Shown
                    /\ ~stale => /\ Ids(list) \subseteq Ids(PageOf(answers))
                                 /\ total = Len(Hits(filter))
                                 /\ \A i \in DOMAIN list :
                                      /\ list[i].flag = flag[list[i].id]
                                      /\ list[i].admin => list[i].id \in Admins
  BY DEF TableAnswersView
<1>1. answers = Shown /\ (~stale => Right(list, total, Now))
  BY DEF AdminInv, ViewInv, AtRest
<1>2. Now.ids = Ids(PageOf(Shown)) /\ Now.hits = Len(Hits(filter)) /\ Now.flags = flag
  BY NowIs DEF AdminInv
<1> QED
  BY <1>1, <1>2 DEF Right

LEMMA AdminInvRest == AdminInv => PageSettles
<1> SUFFICES ASSUME AdminInv PROVE LoadingIsTrue /\ DrawerSettles
  BY DEF PageSettles
<1>1. /\ Cardinality(Flying({"table", "owners"})) \in Nat
      /\ Cardinality(Flying({"table", "owners"})) = 0 <=> Flying({"table", "owners"}) = {}
  BY FlyingCount, ItemCount
<1>2. LoadingIsTrue
  BY <1>1 DEF AdminInv, LoadInv, LoadingIsTrue
<1>3. DrawerSettles
  BY DEF AdminInv, DrawerInv, DrawerSettles
<1> QED
  BY <1>2, <1>3

\* Whatever administrators do to a list of users, conversations or ratings that
\* changes under them (the admin pages, use-admin-users, use-admin-conversations:
\* a filter typed, pages turned, rows patched and deleted, answers that come late
\* or fail), once all has been answered and no two calls have crossed, the table
\* shows what the filter and the page on the screen ask for.
THEOREM TableStaysRight == AdminSpec => []TableAnswersView
BY AdminInvariant, AdminInvTable, PTL

\* The pages, their calls and the list on the server keep their types: no row comes
\* twice, a call that is free holds nothing, the count of fetches is never below 0.
THEOREM AdminTypeCorrect == AdminSpec => []AdminTypeOK
BY AdminInvariant, AdminInvTypes, PTL

\* The skeletons of a page go once nothing is fetched, which on the conversations
\* page depends on every call having counted its start and its end, and the drawer
\* of a user ends with that user's conversations.
THEOREM AdminPageSettles == AdminSpec => []PageSettles
BY AdminInvariant, AdminInvRest, PTL

\* The export of the ratings reads them chunk by chunk while others rate: what
\* matched all along is in it unless ratings went, or came in after a count, and
\* nothing is in it twice unless ratings came in.
THEOREM ExportStaysAccounted == AdminSpec => []ExportIsAccounted
<1>1. AdminInv => ExportIsAccounted
  BY DEF AdminInv, ExportInv, ExportOnce, ExportAll, ExportIsAccounted
<1> QED
  BY <1>1, AdminInvariant, PTL
=============================================================================
