--------------------------- MODULE IngestionWorker ---------------------------
(***************************************************************************)
(* The ingestion task as a Celery worker runs it: receive, claim, run the  *)
(* pipeline in one transaction, persist a failure, publish the retry,      *)
(* acknowledge late; with the crashes and the redeliveries of the broker   *)
(* and the time that the lease and the visibility timeout measure.         *)
(***************************************************************************)
EXTENDS IngestionState

Advance(w, pc) == workers' = [workers EXCEPT ![w].pc = pc]

FinalAttempt(w) == workers[w].retries >= MaxRetries

\* Mutant of FailureStatus: the row keeps the stage the attempt had reached.
FailureStatusAsStage(w) == IF FinalAttempt(w) THEN "FAILED" ELSE "EMBEDDING"

\* What a failed attempt leaves in the rows: FAILED only when no retry follows.
FailureStatus(w) == IF FinalAttempt(w) THEN "FAILED" ELSE "PROCESSING"

\* Mutant of AfterFailure: the error is swallowed, Celery sees a success.
AfterFailureSwallowed(w) == IF FinalAttempt(w) THEN "acking" ELSE "acking"

\* The task raises RetryableIngestionError unless this was the final attempt.
AfterFailure(w) == IF FinalAttempt(w) THEN "acking" ELSE "retrying"

-----------------------------------------------------------------------------
(* claim_ingestion_job_attempt *)

Active(j) == jobs[j].status = "PROCESSING"

\* Mutant of Stale: updated_at <= stale_before is one tick too early.
StaleTooEarly(j) == jobs[j].age >= StaleAfter

Stale(j) == jobs[j].age > StaleAfter

\* Mutant of Claimable: a retry is not recognised by its task id.
ClaimableWithoutRetry(j, retries) ==
    \/ jobs[j].status = "PENDING"
    \/ Active(j) /\ Stale(j)

\* Pending, or a Celery retry of the task the job is queued as, or an active
\* job whose lease has run out.  Every message of a job carries its task id.
Claimable(j, retries) ==
    \/ jobs[j].status = "PENDING"
    \/ Active(j) /\ retries > 0 /\ jobs[j].task = "queued"
    \/ Active(j) /\ Stale(j)

ClaimedRow(row) ==
    [row EXCEPT !.status = "PROCESSING", !.task = "queued",
                !.attempts = @ + 1, !.age = 0]

-----------------------------------------------------------------------------

Receive(w, m) ==
    /\ workers[w].pc = "idle"
    /\ queue[m] > 0
    /\ queue' = Dequeue(queue, m)
    /\ workers' = [workers EXCEPT
          ![w] = [pc |-> "received", job |-> m[1], retries |-> m[2],
                  seen |-> "NONE", hold |-> 0, message |-> "held"]]
    /\ UNCHANGED <<database, objects, handlers, faults>>

\* One UPDATE, committed before the pipeline starts; it waits for the
\* transaction that holds the row and then looks at the row again.
Claim(w) ==
    LET j == workers[w].job IN
    /\ workers[w].pc = "received"
    /\ JobExists(j)
    /\ Claimable(j, workers[w].retries)
    /\ ~JobLocked(j)
    /\ jobs' = [jobs EXCEPT ![j] = ClaimedRow(@)]
    /\ Advance(w, "claimed")
    /\ UNCHANGED <<documents, chunks, objects, queue, handlers, faults>>

\* INDEXED already, or not claimable: SKIPPED, and the message is acknowledged.
Skip(w) ==
    LET j == workers[w].job IN
    /\ workers[w].pc = "received"
    /\ JobExists(j)
    /\ ~Claimable(j, workers[w].retries)
    /\ Advance(w, "acking")
    /\ UNCHANGED <<database, objects, queue, handlers, faults>>

\* The job is gone: NotFoundError, handled like any failure.
JobMissing(w) ==
    /\ workers[w].pc = "received"
    /\ ~JobExists(workers[w].job)
    /\ Advance(w, "failing")
    /\ UNCHANGED <<database, objects, queue, handlers, faults>>

\* Reading or claiming the job raises: a worker that never owned the job goes
\* on to record a failure of it.
ClaimRaises(w) ==
    /\ workers[w].pc = "received"
    /\ Inject("database")
    /\ Advance(w, "failing")
    /\ UNCHANGED <<database, objects, queue, handlers>>

-----------------------------------------------------------------------------
(* IngestionPipeline.ingest_document *)

\* The first flush (PARSING) takes the row locks.
BeginParsing(w) ==
    LET d == DocumentOf[workers[w].job] IN
    /\ workers[w].pc = "claimed"
    /\ DocumentExists(d)
    /\ ~DocumentLocked(d)
    /\ Advance(w, "parsing")
    /\ UNCHANGED <<database, objects, queue, handlers, faults>>

ReadObject(w) ==
    /\ workers[w].pc = "parsing"
    /\ DocumentOf[workers[w].job] \in objects
    /\ Advance(w, "embedding")
    /\ UNCHANGED <<database, objects, queue, handlers, faults>>

\* Chunks replaced, document and job INDEXED, one commit.
CommitIndexed(w) ==
    LET j == workers[w].job
        d == DocumentOf[j] IN
    /\ workers[w].pc = "embedding"
    /\ chunks' = chunks \union {d}
    /\ documents' = SetDocument(documents, d, "INDEXED")
    /\ jobs' = SetJob(jobs, j, "INDEXED")
    /\ Advance(w, "acking")
    /\ UNCHANGED <<objects, queue, handlers, faults>>

\* The document or its object is missing, the file cannot be parsed, the
\* provider or the database fails: the transaction is rolled back.
FailPipeline(w) ==
    /\ workers[w].pc \in {"claimed"} \union InTransaction
    /\ Advance(w, "failing")
    /\ UNCHANGED <<database, objects, queue, handlers, faults>>

-----------------------------------------------------------------------------
(* Recording the failure: _transition_status(FAILED) or _persist_status *)

\* The fresh transaction loads the document.
ReadForFailure(w) ==
    /\ workers[w].pc = "failing"
    /\ workers' = [workers EXCEPT
          ![w] = [@ EXCEPT !.pc = "persisting",
                           !.seen = documents[DocumentOf[workers[w].job]]]]
    /\ UNCHANGED <<database, objects, queue, handlers, faults>>

\* Mutant of PersistFailure: only the job learns of the failure.
PersistJobFailure(w) ==
    /\ workers[w].pc = "persisting"
    /\ ~DocumentLocked(DocumentOf[workers[w].job])
    /\ jobs' = SetJob(jobs, workers[w].job, FailureStatus(w))
    /\ Advance(w, AfterFailure(w))
    /\ UNCHANGED <<documents, chunks, objects, queue, handlers, faults>>

\* The document row is written first and the job row in the same transaction,
\* whoever owns the job by now; the session writes the document's status only
\* if it differs from the one it loaded, and the job's as it then is.
PersistFailure(w) ==
    LET j == workers[w].job
        d == DocumentOf[j]
        status == FailureStatus(w) IN
    /\ workers[w].pc = "persisting"
    /\ ~DocumentLocked(d)
    /\ documents' = IF workers[w].seen = status
                    THEN documents
                    ELSE SetDocument(documents, d, status)
    /\ jobs' = SetJob(jobs, j, status)
    /\ Advance(w, AfterFailure(w))
    /\ UNCHANGED <<chunks, objects, queue, handlers, faults>>

\* The failure cannot be recorded: logged, and the attempt ends all the same.
LosePersist(w) ==
    /\ workers[w].pc = "persisting"
    /\ Inject("database")
    /\ Advance(w, AfterFailure(w))
    /\ UNCHANGED <<database, objects, queue, handlers>>

-----------------------------------------------------------------------------
(* Celery: autoretry_for, acks_late, the visibility timeout *)

\* Mutant of PublishRetry: the retry counter of the message stays as it was.
PublishRetryUncounted(w) ==
    /\ workers[w].pc = "retrying"
    /\ queue' = Enqueue(queue, <<workers[w].job, workers[w].retries>>)
    /\ Advance(w, "acking")
    /\ UNCHANGED <<database, objects, handlers, faults>>

PublishRetry(w) ==
    /\ workers[w].pc = "retrying"
    /\ queue' = Enqueue(queue, <<workers[w].job, workers[w].retries + 1>>)
    /\ Advance(w, "acking")
    /\ UNCHANGED <<database, objects, handlers, faults>>

Acknowledge(w) ==
    /\ workers[w].pc = "acking"
    /\ workers' = [workers EXCEPT ![w] = IdleWorker]
    /\ UNCHANGED <<database, objects, queue, handlers, faults>>

Redelivered(w) == Enqueue(queue, <<workers[w].job, workers[w].retries>>)

\* The worker dies, its transaction is rolled back and its message goes back
\* to the queue unless it has been redelivered already.
CrashWorker(w) ==
    /\ workers[w].pc # "idle"
    /\ Inject("worker_crash")
    /\ queue' = IF workers[w].message = "held" THEN Redelivered(w) ELSE queue
    /\ workers' = [workers EXCEPT ![w] = IdleWorker]
    /\ UNCHANGED <<database, objects, handlers>>

\* The worker has held its message for the visibility timeout: another worker
\* will get it too.
Redeliver(w) ==
    /\ workers[w].pc # "idle"
    /\ workers[w].message = "held"
    /\ workers[w].hold >= VisibilityTimeout
    /\ Inject("redelivery")
    /\ queue' = Redelivered(w)
    /\ workers' = [workers EXCEPT ![w].message = "redelivered"]
    /\ UNCHANGED <<database, objects, handlers>>

\* Time passes for the active jobs and for the workers that hold a message.
Older(n, cap) == IF n < cap THEN n + 1 ELSE n

Tick ==
    /\ jobs' = [j \in Jobs |->
          IF Active(j)
          THEN [jobs[j] EXCEPT !.age = Older(jobs[j].age, MaxAge)]
          ELSE jobs[j]]
    /\ workers' = [w \in Workers |->
          IF workers[w].pc = "idle"
          THEN workers[w]
          ELSE [workers[w] EXCEPT !.hold = Older(workers[w].hold, MaxHold)]]
    /\ UNCHANGED <<documents, chunks, objects, queue, handlers, faults>>

-----------------------------------------------------------------------------

WorkerStep(w) ==
    \/ Claim(w)
    \/ Skip(w)
    \/ JobMissing(w)
    \/ BeginParsing(w)
    \/ ReadObject(w)
    \/ CommitIndexed(w)
    \/ FailPipeline(w)
    \/ ReadForFailure(w)
    \/ PersistFailure(w)
    \/ PublishRetry(w)
    \/ Acknowledge(w)

WorkerFault(w) ==
    \/ ClaimRaises(w)
    \/ LosePersist(w)
    \/ CrashWorker(w)
    \/ Redeliver(w)
=============================================================================
