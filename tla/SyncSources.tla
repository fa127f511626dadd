----------------------------- MODULE SyncSources -----------------------------
(***************************************************************************)
(* Synchronisations of collections: the sync sources, the log of every     *)
(* sync, the requests that trigger and cancel one, the schedule            *)
(* (services/sync_source.py, services/rag_sync.py) and the worker's tasks  *)
(* that run them (worker/tasks/rag_tasks.py).                              *)
(*                                                                         *)
(* A job is a task that was dispatched.  A log is named by the job that    *)
(* trigger_sync or start_local_sync dispatched with it; that job can start *)
(* before the transaction that created the log commits.                    *)
(***************************************************************************)
EXTENDS Naturals, FiniteSets

CONSTANTS
  Source,   \* the sync sources
  Local,    \* stands for a directory of the server
  None,
  MaxJobs,  \* bounds the jobs dispatched
  MaxFiles, \* bounds the files of a local sync
  LocalJobs \* bounds the local syncs: the jobs that may be one

ASSUME SyncAssumption ==
  /\ MaxJobs \in Nat \ {0} /\ MaxFiles \in Nat /\ LocalJobs \subseteq 1..MaxJobs
  /\ Local \notin Source /\ None \notin Source \cup {Local} \cup Nat

Job == 1..MaxJobs

VARIABLES
  source,   \* where every sync source is
  due,      \* the active sources with a schedule whose time has come
  last,     \* last_sync_status of every source
  ticking,  \* the sources check_scheduled_syncs has still to dispatch
  origin,   \* who dispatched every job
  of,       \* the source it syncs, or Local
  uses,     \* the log it reports to; None before a scheduled job has one
  log,      \* the status of every log; a pending one is not committed
  pc,       \* where every job is
  failed,   \* the jobs that counted a failed file
  left,     \* the files a local job has still to look at
  late,     \* the files it looked at after its log was cancelled
  cancel    \* the log that a cancel_sync request has read as running, or None

srcVars == <<source, due, last, ticking>>
jobVars == <<origin, of, uses, pc, failed, left, late>>
vars == <<source, due, last, ticking, origin, of, uses, log, pc, failed, left, late, cancel>>

Busy  == {"queued", "commit", "files", "check", "file", "finish", "report", "fail"}
Ended == {"done", "error", "cancelled"}

TypeOK ==
  /\ source \in [Source -> {"none", "present", "deleting", "deleted"}]
  /\ due \subseteq Source /\ ticking \subseteq Source
  /\ last \in [Source -> {"none", "done", "error"}]
  /\ origin \in [Job -> {"none", "request", "schedule", "task"}]
  /\ of \in [Job -> Source \cup {Local, None}]
  /\ uses \in [Job -> Job \cup {None}]
  /\ log \in [Job -> {"none", "pending", "running"} \cup Ended]
  /\ pc \in [Job -> Busy \cup {"free", "ended", "lost"}]
  /\ failed \subseteq Job /\ cancel \in Job \cup {None}
  /\ left \in [Job -> 0..MaxFiles] /\ late \in [Job -> 0..MaxFiles]
  /\ \A j \in Job : pc[j] \in Busy \ {"queued"} => uses[j] \in Job

Committed(l) == log[l] \in {"running"} \cup Ended

-----------------------------------------------------------------------------
(* create_source, update_source, delete_source                              *)

CreateSource(s) ==
  /\ source[s] = "none"
  /\ source' = [source EXCEPT ![s] = "present"]
  /\ due' \in {due, due \cup {s}}
  /\ UNCHANGED <<last, ticking, log, cancel>> /\ UNCHANGED jobVars

\* The minutes of its schedule pass, or the schedule or is_active are changed.
Reschedule(s) ==
  /\ source[s] = "present"
  /\ due' = IF s \in due THEN due \ {s} ELSE due \cup {s}
  /\ UNCHANGED <<source, last, ticking, log, cancel>> /\ UNCHANGED jobVars

\* DELETE has the row of the source; the inserts of its open logs hold a key
\* share of it.
BeginDelete(s) ==
  /\ source[s] = "present"
  /\ \A l \in Job : of[l] = s => log[l] # "pending"
  /\ source' = [source EXCEPT ![s] = "deleting"]
  /\ UNCHANGED <<due, last, ticking, log, cancel>> /\ UNCHANGED jobVars

\* ON DELETE SET NULL waits for the logs that a finishing job has updated.
EndDelete(s) ==
  /\ source[s] = "deleting"
  /\ \A j \in Job : of[j] = s => pc[j] # "report"
  /\ source' = [source EXCEPT ![s] = "deleted"]
  /\ last' = [last EXCEPT ![s] = "none"]
  /\ due' = due \ {s}
  /\ UNCHANGED <<ticking, log, cancel>> /\ UNCHANGED jobVars

\* The job waits for the row of the source and the DELETE for the row of the
\* log: the database aborts either.
BreakDeadlock(s) ==
  /\ source[s] = "deleting"
  /\ \E j \in Job :
       /\ of[j] = s /\ pc[j] = "report"
       /\ \/ source' = [source EXCEPT ![s] = "present"] /\ UNCHANGED pc
          \/ pc' = [pc EXCEPT ![j] = "lost"] /\ UNCHANGED source
  /\ UNCHANGED <<due, last, ticking, log, cancel>>
  /\ UNCHANGED <<origin, of, uses, failed, left, late>>

-----------------------------------------------------------------------------
(* Dispatching                                                              *)

\* The next job, as kiq puts it on the queue.
Queued(j, o, x) ==
  /\ pc[j] = "free" /\ \A i \in 1..(j - 1) : pc[i] # "free"
  /\ origin' = [origin EXCEPT ![j] = o]
  /\ of' = [of EXCEPT ![j] = x]

\* trigger_sync and start_local_sync: the log of an open transaction, the job.
Trigger(j, x) ==
  /\ (x = Local /\ j \in LocalJobs) \/ (x \in Source /\ source[x] = "present")
  /\ Queued(j, "request", x)
  /\ uses' = [uses EXCEPT ![j] = j]
  /\ pc' = [pc EXCEPT ![j] = "queued"]
  /\ log' = [log EXCEPT ![j] = "pending"]
  /\ UNCHANGED <<failed, left, late, cancel>> /\ UNCHANGED srcVars

\* get_db_session commits, or rolls back, when the request ends.
Answer(j) ==
  /\ origin[j] = "request" /\ log[j] = "pending"
  /\ \E x \in {"running", "none"} : log' = [log EXCEPT ![j] = x]
  /\ UNCHANGED cancel /\ UNCHANGED srcVars /\ UNCHANGED jobVars

\* check_scheduled_syncs, every minute: get_due_for_sync; the logs are not read.
Tick ==
  /\ ticking = {}
  /\ ticking' = {s \in due : source[s] \in {"present", "deleting"}}
  /\ ticking' # {}
  /\ UNCHANGED <<source, due, last, log, cancel>> /\ UNCHANGED jobVars

Dispatch(j, s) ==
  /\ s \in ticking
  /\ ticking' = ticking \ {s}
  /\ Queued(j, "schedule", s)
  /\ pc' = [pc EXCEPT ![j] = "queued"]
  /\ UNCHANGED <<source, due, last, uses, failed, left, late, log, cancel>>

-----------------------------------------------------------------------------
(* sync_single_source_task                                                  *)

Goto(j, l) == pc' = [pc EXCEPT ![j] = l]

StartRunning(j) ==
  /\ pc[j] = "queued" /\ of[j] \in Source /\ uses[j] # None
  /\ Goto(j, IF source[of[j]] \in {"present", "deleting"} THEN "files" ELSE "ended")
  /\ log' = [log EXCEPT ![uses[j]] = IF Committed(uses[j]) THEN "running" ELSE @]
  /\ UNCHANGED <<origin, of, uses, failed, left, late, cancel>> /\ UNCHANGED srcVars

\* get_source, for a job that was given a log.
Start(j) ==
  /\ pc[j] = "queued" /\ of[j] \in Source /\ uses[j] # None
  /\ Goto(j, IF source[of[j]] \in {"present", "deleting"} THEN "files" ELSE "ended")
  /\ UNCHANGED <<origin, of, uses, failed, left, late, log, cancel>> /\ UNCHANGED srcVars

StartScheduledWithoutLog(k) ==
  /\ pc[k] = "queued" /\ of[k] \in Source /\ uses[k] = None
  /\ Goto(k, "files")
  /\ UNCHANGED <<origin, of, uses, failed, left, late, log, cancel>> /\ UNCHANGED srcVars

\* A scheduled job takes its log from trigger_sync, which dispatches a job more.
StartScheduled(k) ==
  /\ pc[k] = "queued" /\ of[k] \in Source /\ uses[k] = None
  /\ \/ /\ source[of[k]] = "present"
        /\ \E j \in Job :
             /\ Queued(j, "task", of[k])
             /\ uses' = [uses EXCEPT ![j] = j, ![k] = j]
             /\ pc' = [pc EXCEPT ![j] = "queued", ![k] = "commit"]
             /\ log' = [log EXCEPT ![j] = "pending"]
     \/ source[of[k]] = "deleted" /\ Goto(k, "ended") /\ UNCHANGED <<origin, of, uses, log>>
  /\ UNCHANGED <<failed, left, late, cancel>> /\ UNCHANGED srcVars

\* get_worker_db_context commits; a dispatch or a commit that raises ends the
\* job and its log is rolled back.
CommitStart(k) ==
  /\ pc[k] = "commit"
  /\ \/ log' = [log EXCEPT ![uses[k]] = "running"] /\ Goto(k, "files")
     \/ log' = [log EXCEPT ![uses[k]] = "none"] /\ Goto(k, "ended")
  /\ UNCHANGED <<origin, of, uses, failed, left, late, cancel>> /\ UNCHANGED srcVars

\* list_files, download_file and ingest_file; whatever raises is counted.
SyncFiles(j) ==
  /\ pc[j] = "files"
  /\ Goto(j, "finish")
  /\ failed' \in {failed, failed \cup {j}}
  /\ UNCHANGED <<origin, of, uses, left, late, log, cancel>> /\ UNCHANGED srcVars

Outcome(j) == IF j \in failed THEN "error" ELSE "done"

\* complete_sync, of a transaction with update_after_sync; it finds no log that
\* has not been committed, which is logged.
ReportLog(j) ==
  /\ pc[j] = "finish" /\ of[j] \in Source
  /\ \A i \in Job : uses[i] = uses[j] => pc[i] # "report"
  /\ Goto(j, IF Committed(uses[j]) THEN "report" ELSE "ended")
  /\ UNCHANGED <<origin, of, uses, failed, left, late, log, cancel>> /\ UNCHANGED srcVars

ReportSourceDone(j) ==
  /\ pc[j] = "report" /\ source[of[j]] # "deleting"
  /\ log' = [log EXCEPT ![uses[j]] = Outcome(j)]
  /\ IF source[of[j]] = "present"
     THEN last' = [last EXCEPT ![of[j]] = "done"] /\ due' = due \ {of[j]}
     ELSE UNCHANGED <<last, due>>
  /\ Goto(j, "ended")
  /\ UNCHANGED <<source, ticking, origin, of, uses, failed, left, late, cancel>>

\* update_after_sync, and the commit.
ReportSource(j) ==
  /\ pc[j] = "report" /\ source[of[j]] # "deleting"
  /\ log' = [log EXCEPT ![uses[j]] = Outcome(j)]
  /\ IF source[of[j]] = "present"
     THEN last' = [last EXCEPT ![of[j]] = Outcome(j)] /\ due' = due \ {of[j]}
     ELSE UNCHANGED <<last, due>>
  /\ Goto(j, "ended")
  /\ UNCHANGED <<source, ticking, origin, of, uses, failed, left, late, cancel>>

-----------------------------------------------------------------------------
(* sync_collection_task                                                     *)

\* The path does not exist, or holds some files.
StartLocal(j) ==
  /\ pc[j] = "queued" /\ of[j] = Local
  /\ \/ Goto(j, "fail") /\ UNCHANGED left
     \/ Goto(j, "check") /\ \E n \in 0..MaxFiles : left' = [left EXCEPT ![j] = n]
  /\ UNCHANGED <<origin, of, uses, failed, late, log, cancel>> /\ UNCHANGED srcVars

\* Before every file the job looks whether its log was cancelled.
Check(j) ==
  /\ pc[j] = "check"
  /\ Goto(j, IF left[j] = 0 THEN "finish"
             ELSE IF ~Committed(uses[j]) THEN "fail"
             ELSE IF log[uses[j]] = "cancelled" THEN "ended" ELSE "file")
  /\ UNCHANGED <<origin, of, uses, failed, left, late, log, cancel>> /\ UNCHANGED srcVars

\* A file is skipped, ingested or counted as failed.  What raises outside the
\* try ends the job.
OneFile(j) ==
  /\ pc[j] = "file"
  /\ left' = [left EXCEPT ![j] = @ - 1]
  /\ late' = [late EXCEPT ![j] = IF log[uses[j]] = "cancelled" THEN @ + 1 ELSE @]
  /\ \/ Goto(j, "check") /\ failed' \in {failed, failed \cup {j}}
     \/ Goto(j, "fail") /\ UNCHANGED failed
  /\ UNCHANGED <<origin, of, uses, log, cancel>> /\ UNCHANGED srcVars

\* complete_sync, whatever the log says by then.
Complete(j) ==
  /\ pc[j] = "finish" /\ of[j] = Local
  /\ IF Committed(uses[j])
     THEN Goto(j, "ended") /\ log' = [log EXCEPT ![uses[j]] = Outcome(j)]
     ELSE Goto(j, "fail") /\ UNCHANGED log
  /\ UNCHANGED <<origin, of, uses, failed, left, late, cancel>> /\ UNCHANGED srcVars

FailSilently(j) ==
  /\ pc[j] = "fail"
  /\ Goto(j, "ended")
  /\ UNCHANGED <<origin, of, uses, failed, left, late, log, cancel>> /\ UNCHANGED srcVars

\* _update_sync_log; a log that is not found is logged.
Fail(j) ==
  /\ pc[j] = "fail"
  /\ Goto(j, "ended")
  /\ log' = [log EXCEPT ![uses[j]] = IF Committed(uses[j]) THEN "error" ELSE @]
  /\ UNCHANGED <<origin, of, uses, failed, left, late, cancel>> /\ UNCHANGED srcVars

\* The worker dies, or the database fails when a job reports.  Nobody delivers
\* the task again, and its transaction is rolled back.
Crash(j) ==
  /\ pc[j] \in Busy
  /\ Goto(j, "lost")
  /\ log' = IF pc[j] = "commit" THEN [log EXCEPT ![uses[j]] = "none"] ELSE log
  /\ UNCHANGED <<origin, of, uses, failed, left, late, cancel>> /\ UNCHANGED srcVars

-----------------------------------------------------------------------------
(* cancel_sync: the status is read, and then written.                       *)

CancelRead(l) ==
  /\ log[l] = "running" /\ cancel = None
  /\ cancel' = l
  /\ UNCHANGED log /\ UNCHANGED srcVars /\ UNCHANGED jobVars

CancelWrite(l) ==
  /\ l = cancel
  /\ \A j \in Job : uses[j] = l => pc[j] # "report"
  /\ cancel' = None
  /\ log' = [log EXCEPT ![l] = "cancelled"]
  /\ UNCHANGED srcVars /\ UNCHANGED jobVars

-----------------------------------------------------------------------------
Init ==
  /\ source = [s \in Source |-> "none"]
  /\ due = {} /\ ticking = {}
  /\ last = [s \in Source |-> "none"]
  /\ origin = [j \in Job |-> "none"]
  /\ of = [j \in Job |-> None]
  /\ uses = [j \in Job |-> None]
  /\ log = [j \in Job |-> "none"]
  /\ pc = [j \in Job |-> "free"]
  /\ failed = {} /\ cancel = None
  /\ left = [j \in Job |-> 0] /\ late = [j \in Job |-> 0]

Work(j) ==
  \/ Start(j) \/ StartScheduled(j) \/ CommitStart(j) \/ SyncFiles(j)
  \/ ReportLog(j) \/ ReportSource(j)
  \/ StartLocal(j) \/ Check(j) \/ OneFile(j) \/ Complete(j) \/ Fail(j)

\* What the database does with a DELETE that waits.
Settle(s) == EndDelete(s) \/ BreakDeadlock(s)

Next ==
  \/ \E s \in Source :
       CreateSource(s) \/ Reschedule(s) \/ BeginDelete(s) \/ Settle(s)
  \/ \E j \in Job :
       \/ (\E x \in Source \cup {Local} : Trigger(j, x)) \/ Answer(j)
       \/ (\E s \in Source : Dispatch(j, s))
       \/ Work(j) \/ Crash(j) \/ CancelRead(j) \/ CancelWrite(j)
  \/ Tick

Spec == Init /\ [][Next]_vars

\* The worker goes on with the tasks it takes, the database ends its waits.
Fairness ==
  /\ \A j \in Job : WF_vars(Work(j))
  /\ \A s \in Source : WF_vars(Settle(s))

FairSpec == Spec /\ Fairness

-----------------------------------------------------------------------------
(* Properties *)

\* A local sync looks at no more than one file after it was cancelled: it reads
\* its log before every file (_run_sync).
CancelStopsSoon == \A j \in Job : late[j] <= 1

\* A log that has ended is never running again and never goes away, with jobs
\* that share it, cancellations and commits in any order.
EndedLogsStay == [][\A l \in Job : log[l] \in Ended => log'[l] \in Ended]_log

\* A log that says done was written by a job that counted no failed file.
DoneIsEarned ==
  \A l \in Job : log[l] = "done" =>
    \E j \in Job : uses[j] = l /\ pc[j] = "ended" /\ j \notin failed

\* The last status of a source is that of a log of the source: the two are
\* written in one transaction, and only a cancellation parts them.
StatusIsReported ==
  \A s \in Source : last[s] # "none" =>
    \E l \in Job : of[l] = s /\ log[l] \in {last[s], "cancelled"}

\* No log is shared by more than two jobs, and only a scheduled job shares its
\* log: with the one job that trigger_sync dispatches for it.
LogsAreShared ==
  \A i, j \in Job : i # j /\ uses[i] = uses[j] /\ uses[i] # None =>
    {origin[i], origin[j]} = {"schedule", "task"}

\* What logs and sources say of a sync was earned by a job, and is written by its
\* own jobs.
ReportsAreTrue == DoneIsEarned /\ StatusIsReported /\ LogsAreShared

\* A log that its job can see leaves running, unless the job is lost or its
\* source is deleted under it.
SeenLogEnds ==
  \A j \in Job :
    (pc[j] \in {"files", "check", "file", "finish", "report"} /\ log[j] = "running" /\ uses[j] = j)
      ~> (log[j] # "running" \/ pc[j] = "lost" \/ (of[j] \in Source /\ source[of[j]] # "present"))

\* Said at routes/v1/rag.py:286 when the request is accepted: "Sync cancelled".
\* A cancelled sync stays cancelled.
CancelledStays == [][\A l \in Job : log[l] = "cancelled" => log'[l] = "cancelled"]_log
=============================================================================
