----------------------------- MODULE DocumentApi -----------------------------
(***************************************************************************)
(* The API's document requests that change state: upload, reindex and      *)
(* delete, each from its first effect to its last commit.  One action is   *)
(* one interval between two points at which another process can see or     *)
(* block the request: a commit, a storage call, the publication.           *)
(***************************************************************************)
EXTENDS IngestionState

Idle(h) == handlers[h].pc = "idle"

GoTo(h, pc) == handlers' = [handlers EXCEPT ![h].pc = pc]
Return(h) == handlers' = [handlers EXCEPT ![h] = IdleHandler]
Become(h, pc, d, j, seen) ==
    handlers' = [handlers EXCEPT
        ![h] = [pc |-> pc, document |-> d, job |-> j, seen |-> seen]]

\* A job identity no request uses yet.
FreshJob(j) ==
    /\ jobs[j].status = "NONE"
    /\ \A h \in Handlers : handlers[h].job # j

-----------------------------------------------------------------------------
(* POST /documents *)

\* Everything up to put_object: the identities are new and the bytes are in
\* MinIO before any row exists.
StoreUpload(h, j) ==
    LET d == DocumentOf[j] IN
    /\ Idle(h)
    /\ FreshJob(j)
    /\ documents[d] = "NONE"
    /\ d \notin objects
    /\ \A g \in Handlers : handlers[g].document # d
    /\ objects' = objects \union {d}
    /\ Become(h, "stored", d, j, "NONE")
    /\ UNCHANGED <<database, queue, workers, faults>>

\* The three rows are created and committed in one transaction.
CommitUpload(h) ==
    LET d == handlers[h].document
        j == handlers[h].job IN
    /\ handlers[h].pc = "stored"
    /\ documents' = [documents EXCEPT ![d] = "UPLOADED"]
    /\ jobs' = [jobs EXCEPT ![j] = NewJob]
    /\ GoTo(h, "publishing")
    /\ UNCHANGED <<chunks, objects, queue, workers, faults>>

\* Creating the rows raises: the object is deleted again before the error is
\* reported.  (When that deletion fails too, or the commit itself raises, the
\* object stays: AbandonRequest.)
UndoUpload(h) ==
    /\ handlers[h].pc = "stored"
    /\ Inject("api")
    /\ objects' = objects \ {handlers[h].document}
    /\ Return(h)
    /\ UNCHANGED <<database, queue, workers>>

-----------------------------------------------------------------------------
(* _enqueue_ingestion_or_fail, the end of upload and reindex *)

Publish(h) ==
    /\ handlers[h].pc = "publishing"
    /\ queue' = Enqueue(queue, <<handlers[h].job, 0>>)
    /\ GoTo(h, "marking")
    /\ UNCHANGED <<database, objects, workers, faults>>

\* The publication raises.  The broker may have taken the message all the same.
FailPublish(h) ==
    /\ handlers[h].pc = "publishing"
    /\ \/ Inject("publish") /\ UNCHANGED queue
       \/ Inject("ambiguous") /\ queue' = Enqueue(queue, <<handlers[h].job, 0>>)
    /\ GoTo(h, "unpublished")
    /\ UNCHANGED <<database, objects, workers>>

\* update_document_status's SELECT: an upload's session keeps the document as it
\* created it (after a commit there is nothing to roll back, and nothing is
\* forgotten); a reindex's has let go of it and loads it.
ReadUnpublished(h) ==
    LET d == handlers[h].document
        uploaded == handlers[h].seen = "NONE" IN
    /\ handlers[h].pc = "unpublished"
    /\ Become(h, "recording", d, handlers[h].job,
              IF uploaded THEN "UPLOADED" ELSE documents[d])
    /\ UNCHANGED <<database, objects, queue, workers, faults>>

\* Document and job become FAILED, whatever the job's row holds by now; the
\* document's status is written only if it differs from the one loaded.
RecordUnpublished(h) ==
    LET d == handlers[h].document
        j == handlers[h].job IN
    /\ handlers[h].pc = "recording"
    /\ ~DocumentLocked(d)
    /\ documents' = IF handlers[h].seen = "FAILED"
                    THEN documents
                    ELSE SetDocument(documents, d, "FAILED")
    /\ jobs' = SetJob(jobs, j, "FAILED")
    /\ Return(h)
    /\ UNCHANGED <<chunks, objects, queue, workers, faults>>

\* mark_ingestion_job_queued touches only queued_task_id, and updated_at with it.
QueuedRow(row) == [row EXCEPT !.task = "queued", !.age = 0]

\* Mutant of MarkQueued: recording the task id resets the status as well.
MarkQueuedAsPending(h) ==
    LET j == handlers[h].job IN
    /\ handlers[h].pc = "marking"
    /\ ~JobLocked(j)
    /\ jobs' = IF JobExists(j)
               THEN [jobs EXCEPT ![j] = WrittenRow(QueuedRow(@), "PENDING")]
               ELSE jobs
    /\ Return(h)
    /\ UNCHANGED <<documents, chunks, objects, queue, workers, faults>>

\* Mutant of MarkQueued: the request waits for the row of a deleted job.
MarkQueuedWaits(h) ==
    LET j == handlers[h].job IN
    /\ handlers[h].pc = "marking"
    /\ ~JobLocked(j)
    /\ JobExists(j)
    /\ jobs' = [jobs EXCEPT ![j] = QueuedRow(@)]
    /\ Return(h)
    /\ UNCHANGED <<documents, chunks, objects, queue, workers, faults>>

\* The message may have been consumed, and the job concluded, already.  A
\* vanished job is a NotFoundError.
MarkQueued(h) ==
    LET j == handlers[h].job IN
    /\ handlers[h].pc = "marking"
    /\ ~JobLocked(j)
    /\ jobs' = IF JobExists(j)
               THEN [jobs EXCEPT ![j] = QueuedRow(@)]
               ELSE jobs
    /\ Return(h)
    /\ UNCHANGED <<documents, chunks, objects, queue, workers, faults>>

-----------------------------------------------------------------------------
(* POST /documents/{id}/reindex *)

\* The session loads the document: its status as it is now.
ReadForReindex(h, j) ==
    LET d == DocumentOf[j] IN
    /\ Idle(h)
    /\ FreshJob(j)
    /\ DocumentExists(d)
    /\ Become(h, "reindexing", d, j, documents[d])
    /\ UNCHANGED <<database, objects, queue, workers, faults>>

\* Mutant of CommitReindex: the job row does not depend on the document's.
CommitReindexUnchecked(h) ==
    LET d == handlers[h].document
        j == handlers[h].job IN
    /\ handlers[h].pc = "reindexing"
    /\ jobs' = [jobs EXCEPT ![j] = NewJob]
    /\ documents' = SetDocument(documents, d, "UPLOADED")
    /\ GoTo(h, "publishing")
    /\ UNCHANGED <<chunks, objects, queue, workers, faults>>

\* The new job refers to the document, so that a deleted document (or one
\* being deleted) refuses it.  The session writes the status only if it differs
\* from the one it loaded.
CommitReindex(h) ==
    LET d == handlers[h].document
        j == handlers[h].job
        dirty == handlers[h].seen # "UPLOADED" IN
    /\ handlers[h].pc = "reindexing"
    /\ ~DeleteLocks(d)
    /\ DocumentExists(d)
    /\ dirty => ~PipelineLocks(d)
    /\ jobs' = [jobs EXCEPT ![j] = NewJob]
    /\ documents' = IF dirty
                    THEN [documents EXCEPT ![d] = "UPLOADED"]
                    ELSE documents
    /\ GoTo(h, "publishing")
    /\ UNCHANGED <<chunks, objects, queue, workers, faults>>

ReindexRefused(h) ==
    /\ handlers[h].pc = "reindexing"
    /\ ~DocumentExists(handlers[h].document)
    /\ Return(h)
    /\ UNCHANGED <<database, objects, queue, workers, faults>>

-----------------------------------------------------------------------------
(* DELETE /documents/{id} *)

\* The DELETE is flushed, not committed: the rows are locked and still there
\* for everybody else.
FlushDelete(h, d) ==
    /\ Idle(h)
    /\ DocumentExists(d)
    /\ ~DocumentLocked(d)
    /\ Become(h, "purging", d, NoJob, "NONE")
    /\ UNCHANGED <<database, objects, queue, workers, faults>>

\* Mutant of PurgeObject: only a document that was indexed has its object
\* removed.
PurgeIndexedObject(h) ==
    /\ handlers[h].pc = "purging"
    /\ objects' = IF documents[handlers[h].document] = "INDEXED"
                  THEN objects \ {handlers[h].document}
                  ELSE objects
    /\ GoTo(h, "deleting")
    /\ UNCHANGED <<database, queue, workers, faults>>

\* The objects are deleted before the commit; an error is logged and ignored.
PurgeObject(h) ==
    /\ handlers[h].pc = "purging"
    /\ \/ /\ objects' = objects \ {handlers[h].document}
          /\ UNCHANGED faults
       \/ /\ Inject("storage")
          /\ UNCHANGED objects
    /\ GoTo(h, "deleting")
    /\ UNCHANGED <<database, queue, workers>>

\* Versions, jobs and chunks go with the document (ON DELETE CASCADE).
CommitDelete(h) ==
    LET d == handlers[h].document IN
    /\ handlers[h].pc = "deleting"
    /\ documents' = [documents EXCEPT ![d] = "DELETED"]
    /\ jobs' = [j \in Jobs |->
                  IF DocumentOf[j] = d /\ JobExists(j)
                  THEN NoJobRow("DELETED")
                  ELSE jobs[j]]
    /\ chunks' = chunks \ {d}
    /\ Return(h)
    /\ UNCHANGED <<objects, queue, workers, faults>>

-----------------------------------------------------------------------------

\* The process dies or a statement raises: the open transaction is rolled
\* back, what was committed, stored or published before stays.
AbandonRequest(h) ==
    /\ ~Idle(h)
    /\ Inject("api")
    /\ Return(h)
    /\ UNCHANGED <<database, objects, queue, workers>>

\* A client's request begins.
Request(h) ==
    \/ \E j \in Jobs : StoreUpload(h, j) \/ ReadForReindex(h, j)
    \/ \E d \in Documents : FlushDelete(h, d)

\* A request that has begun goes on.
HandlerStep(h) ==
    \/ CommitUpload(h)
    \/ Publish(h)
    \/ ReadUnpublished(h)
    \/ RecordUnpublished(h)
    \/ MarkQueued(h)
    \/ CommitReindex(h)
    \/ ReindexRefused(h)
    \/ PurgeObject(h)
    \/ CommitDelete(h)

HandlerFault(h) == UndoUpload(h) \/ FailPublish(h) \/ AbandonRequest(h)
=============================================================================
