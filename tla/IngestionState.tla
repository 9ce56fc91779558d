--------------------------- MODULE IngestionState ---------------------------
(***************************************************************************)
(* The state that the API's document handlers and the ingestion workers    *)
(* share: the committed rows of PostgreSQL, the objects of MinIO and the   *)
(* messages of the Redis queue, with the row locks that open transactions  *)
(* hold on the rows.                                                       *)
(*                                                                         *)
(* Rows are modelled as other sessions see them (READ COMMITTED): the      *)
(* stages PARSING, CHUNKING and EMBEDDING are written inside the worker's  *)
(* one open transaction and are never visible, so no row has them.         *)
(***************************************************************************)
EXTENDS Naturals, FiniteSets

CONSTANTS
    Documents,         \* identities of documents (each has one version)
    Jobs,              \* identities of ingestion jobs
    DocumentOf,        \* the document each job is created for
    NoDocument, NoJob, \* what an idle process holds
    Handlers,          \* API request handlers
    Workers,           \* Celery worker threads
    MaxRetries,        \* INGESTION_TASK_MAX_RETRIES
    StaleAfter,        \* INGESTION_JOB_STALE_AFTER_SECONDS, in ticks
    VisibilityTimeout, \* QUEUE_VISIBILITY_TIMEOUT_SECONDS, in ticks
    Faults,            \* the kinds of fault the environment may inject
    MaxFaults          \* bound: how many faults in a behaviour

\* worker_crash: a worker process dies; redelivery: the visibility timeout of
\* a message expires while its worker still runs; database: a transaction of
\* a worker fails; api: an API request dies (crash or database error);
\* publish: publishing raises and nothing was sent; ambiguous: publishing
\* raises although the broker took the message; storage: a deletion in MinIO
\* fails.
FaultKinds == {"worker_crash", "redelivery", "database", "api", "publish",
               "ambiguous", "storage"}

ASSUME IngestionAssumption ==
    /\ DocumentOf \in [Jobs -> Documents]
    /\ NoDocument \notin Documents
    /\ NoJob \notin Jobs
    /\ MaxRetries \in Nat
    /\ StaleAfter \in Nat
    /\ VisibilityTimeout \in Nat
    /\ Faults \subseteq FaultKinds
    /\ MaxFaults \in Nat

VARIABLES
    documents, \* status of each document row
    chunks,    \* documents whose version has been through a chunk replacement
    jobs,      \* ingestion job rows
    objects,   \* documents whose object is in storage
    queue,     \* copies of each message <<job, retries>> waiting in Redis
    handlers,  \* control state of each API handler
    workers,   \* control state of each worker
    faults     \* faults injected so far

database == <<documents, chunks, jobs>>
vars == <<documents, chunks, jobs, objects, queue, handlers, workers, faults>>

-----------------------------------------------------------------------------
(* Rows *)

DocumentStatus == {"UPLOADED", "PROCESSING", "INDEXED", "FAILED"}
JobStatus == {"PENDING", "PROCESSING", "INDEXED", "FAILED"}

\* NONE: never created; DELETED: created and removed.  Identities are fresh
\* UUIDs, so that a deleted row never comes back.
Absent == {"NONE", "DELETED"}

DocumentExists(d) == documents[d] \notin Absent
JobExists(j) == jobs[j].status \notin Absent

\* updated_at is kept as the age of the job's last write, which counts only
\* while the job is active; StaleAfter + 1 stands for every greater age.
MaxAge == StaleAfter + 1

\* task is queued_task_id: no id yet, or the id that every message of the job
\* carries.
JobRow == [status: JobStatus \union Absent, task: {"unknown", "queued"},
           attempts: Nat, age: 0..MaxAge]

NewJob == [status |-> "PENDING", task |-> "unknown", attempts |-> 0, age |-> 0]

NoJobRow(status) == [NewJob EXCEPT !.status = status]

\* update_document_status: nothing when the row is gone.
SetDocument(rows, d, status) ==
    IF rows[d] \in Absent THEN rows ELSE [rows EXCEPT ![d] = status]

\* Every write of the row refreshes updated_at.
WrittenRow(row, status) == [row EXCEPT !.status = status, !.age = 0]

\* update_ingestion_job_status: nothing when the row is gone, and no check that
\* the caller owns the job.
SetJob(rows, j, status) ==
    IF rows[j].status \in Absent
    THEN rows
    ELSE [rows EXCEPT ![j] = WrittenRow(@, status)]

-----------------------------------------------------------------------------
(* Messages.  A message is the payload's job and Celery's retry counter: the
   rest of the payload is determined by the job. *)

Messages == Jobs \X (0..MaxRetries)

Enqueue(q, m) == [q EXCEPT ![m] = @ + 1]
Dequeue(q, m) == [q EXCEPT ![m] = @ - 1]

-----------------------------------------------------------------------------
(* Processes and the row locks of their open transactions *)

IdleHandler == [pc |-> "idle", document |-> NoDocument, job |-> NoJob,
                seen |-> "NONE"]

HandlerPc == {"idle", "stored", "publishing", "unpublished", "recording",
              "marking", "reindexing", "purging", "deleting"}

HandlerState ==
    [pc: HandlerPc,
     document: Documents \union {NoDocument},
     job: Jobs \union {NoJob},
     seen: DocumentStatus \union Absent]

\* The longest holding time that matters.
MaxHold == IF VisibilityTimeout > MaxAge THEN VisibilityTimeout ELSE MaxAge

IdleWorker == [pc |-> "idle", job |-> NoJob, retries |-> 0, seen |-> "NONE",
               hold |-> 0, message |-> "none"]

WorkerPc == {"idle", "received", "claimed", "parsing", "embedding", "failing",
             "persisting", "retrying", "acking"}

WorkerState ==
    [pc: WorkerPc,
     job: Jobs \union {NoJob},
     retries: 0..MaxRetries,
     seen: DocumentStatus \union Absent,
     hold: 0..MaxHold,
     message: {"none", "held", "redelivered"}]

\* The pipeline's transaction holds the document row and the job row from its
\* first flush (PARSING) to its commit or rollback.
InTransaction == {"parsing", "embedding"}

WorkingOn(j) == {w \in Workers : workers[w].job = j}

PipelineLocksJob(j) == \E w \in WorkingOn(j) : workers[w].pc \in InTransaction

PipelineLocks(d) == \E j \in Jobs : DocumentOf[j] = d /\ PipelineLocksJob(j)

\* A deletion holds the document row and every row that refers to it from the
\* flush of its DELETE to the commit.
DeleteLocks(d) ==
    \E h \in Handlers : /\ handlers[h].pc \in {"purging", "deleting"}
                        /\ handlers[h].document = d

DocumentLocked(d) == PipelineLocks(d) \/ DeleteLocks(d)
JobLocked(j) == PipelineLocksJob(j) \/ DeleteLocks(DocumentOf[j])

-----------------------------------------------------------------------------

\* The environment injects a fault of one kind, within the bound.
Inject(kind) ==
    /\ kind \in Faults
    /\ faults < MaxFaults
    /\ faults' = faults + 1

TypeOK ==
    /\ documents \in [Documents -> DocumentStatus \union Absent]
    /\ chunks \in SUBSET Documents
    /\ jobs \in [Jobs -> JobRow]
    /\ objects \in SUBSET Documents
    /\ queue \in [Messages -> Nat]
    /\ handlers \in [Handlers -> HandlerState]
    /\ workers \in [Workers -> WorkerState]
    /\ faults \in 0..MaxFaults

Init ==
    /\ documents = [d \in Documents |-> "NONE"]
    /\ chunks = {}
    /\ jobs = [j \in Jobs |-> NoJobRow("NONE")]
    /\ objects = {}
    /\ queue = [m \in Messages |-> 0]
    /\ handlers = [h \in Handlers |-> IdleHandler]
    /\ workers = [w \in Workers |-> IdleWorker]
    /\ faults = 0
=============================================================================
