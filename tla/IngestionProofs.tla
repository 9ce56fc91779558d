--------------------------- MODULE IngestionProofs ---------------------------
(***************************************************************************)
(* Theorems about Ingestion, for every set of documents, jobs, handlers    *)
(* and workers, every retry limit and lease, and every combination of      *)
(* faults.                                                                 *)
(***************************************************************************)
EXTENDS Ingestion, FiniteSetTheorems, TLAPS

-----------------------------------------------------------------------------
(* Strengthenings *)

\* A worker that is busy holds a message of a job.
BusyWorkersHaveJob ==
    \A w \in Workers : workers[w].pc # "idle" => workers[w].job \in Jobs

\* A request that is under way holds its document, and its job if it has one.
BusyHandlersHaveWork ==
    \A h \in Handlers : handlers[h].pc # "idle" =>
        /\ handlers[h].document \in Documents
        /\ handlers[h].pc \notin {"purging", "deleting"}
              => /\ handlers[h].job \in Jobs
                 /\ handlers[h].document = DocumentOf[handlers[h].job]

TypeInv == TypeOK /\ BusyWorkersHaveJob /\ BusyHandlersHaveWork

\* A request about to create a job is the only one that knows its identity.
Creating(h) == handlers[h].pc \in {"stored", "reindexing"}

CreatorsHoldFreshJobs ==
    \A h \in Handlers : Creating(h) =>
        /\ jobs[handlers[h].job].status = "NONE"
        /\ \A g \in Handlers \ {h} : handlers[g].job # handlers[h].job

\* The lease never looks older than the worker that holds it.
OwnersOutliveLease ==
    \A w \in Workers : Owner(w) =>
        /\ jobs[workers[w].job].status \notin {"NONE", "PENDING"}
        /\ Active(workers[w].job) => jobs[workers[w].job].age <= workers[w].hold

LeaseInv ==
    /\ TypeInv
    /\ CreatorsHoldFreshJobs
    /\ OwnersOutliveLease
    /\ LeaseExclusion

\* A pipeline in its transaction works on a document that exists and that no
\* request is deleting.
PipelinesLockDocument ==
    \A w \in Workers : workers[w].pc \in InTransaction =>
        /\ DocumentExists(DocumentOf[workers[w].job])
        /\ ~DeleteLocks(DocumentOf[workers[w].job])

RowsInv ==
    /\ TypeInv
    /\ CreatorsHoldFreshJobs
    /\ PipelinesLockDocument
    /\ NoRowsWithoutDocument

-----------------------------------------------------------------------------
(* Types of the values that the actions write *)

\* Every value the code writes into a job's row is a job row.
LEMMA JobRowsTyped ==
    /\ NewJob \in JobRow
    /\ \A status \in Absent : NoJobRow(status) \in JobRow
    /\ \A row \in JobRow :
          /\ QueuedRow(row) \in JobRow
          /\ ClaimedRow(row) \in JobRow
          /\ \A status \in JobStatus : WrittenRow(row, status) \in JobRow
          /\ [row EXCEPT !.age = Older(row.age, MaxAge)] \in JobRow
  <1>1. NewJob \in JobRow
    BY IngestionAssumption DEF IngestionAssumption, NewJob, JobRow, JobStatus, MaxAge
  <1>2. ASSUME NEW row \in JobRow
        PROVE  /\ \A status \in JobStatus \union Absent :
                     [row EXCEPT !.status = status] \in JobRow
               /\ [row EXCEPT !.task = "queued"] \in JobRow
               /\ [row EXCEPT !.attempts = row.attempts + 1] \in JobRow
               /\ \A age \in 0..MaxAge : [row EXCEPT !.age = age] \in JobRow
    BY DEF JobRow
  <1>3. /\ 0 \in 0..MaxAge
        /\ \A age \in 0..MaxAge : Older(age, MaxAge) \in 0..MaxAge
    BY IngestionAssumption DEF IngestionAssumption, MaxAge, Older
  <1>4. \A status \in Absent : NoJobRow(status) \in JobRow
    BY <1>1, <1>2 DEF NoJobRow
  <1>5. ASSUME NEW row \in JobRow PROVE QueuedRow(row) \in JobRow
    <2> DEFINE named == [row EXCEPT !.task = "queued"]
    <2>1. QueuedRow(row) = [named EXCEPT !.age = 0]
      BY DEF QueuedRow
    <2>2. named \in JobRow
      BY <1>2
    <2> QED BY <1>2, <1>3, <2>1, <2>2
  <1>6. ASSUME NEW row \in JobRow PROVE ClaimedRow(row) \in JobRow
    <2> DEFINE started == [row EXCEPT !.status = "PROCESSING"]
               named   == [started EXCEPT !.task = "queued"]
               counted == [named EXCEPT !.attempts = named.attempts + 1]
    <2>1. ClaimedRow(row) = [counted EXCEPT !.age = 0]
      BY DEF ClaimedRow, JobRow
    <2>2. started \in JobRow
      BY <1>2 DEF JobStatus
    <2>3. named \in JobRow
      BY <1>2, <2>2
    <2>4. counted \in JobRow
      BY <1>2, <2>3
    <2> HIDE DEF counted
    <2> QED BY <1>2, <1>3, <2>1, <2>4
  <1>7. ASSUME NEW row \in JobRow, NEW status \in JobStatus
        PROVE  WrittenRow(row, status) \in JobRow
    <2> DEFINE renamed == [row EXCEPT !.status = status]
    <2>1. WrittenRow(row, status) = [renamed EXCEPT !.age = 0]
      BY DEF WrittenRow
    <2>2. renamed \in JobRow
      BY <1>2
    <2> QED BY <1>2, <1>3, <2>1, <2>2
  <1>8. ASSUME NEW row \in JobRow
        PROVE  [row EXCEPT !.age = Older(row.age, MaxAge)] \in JobRow
    <2>1. row.age \in 0..MaxAge
      BY DEF JobRow
    <2> QED BY <2>1, <1>2, <1>3
  <1> QED BY <1>1, <1>4, <1>5, <1>6, <1>7, <1>8

\* update_document_status and update_ingestion_job_status keep the tables typed.
LEMMA RowWritesTyped ==
    ASSUME TypeOK
    PROVE  /\ \A d \in Documents, status \in DocumentStatus :
                 SetDocument(documents, d, status)
                     \in [Documents -> DocumentStatus \union Absent]
           /\ \A j \in Jobs, status \in JobStatus :
                 SetJob(jobs, j, status) \in [Jobs -> JobRow]
  <1>1. ASSUME NEW d \in Documents, NEW status \in DocumentStatus
        PROVE  SetDocument(documents, d, status)
                   \in [Documents -> DocumentStatus \union Absent]
    BY DEF TypeOK, SetDocument
  <1>2. ASSUME NEW j \in Jobs, NEW status \in JobStatus
        PROVE  SetJob(jobs, j, status) \in [Jobs -> JobRow]
    <2>1. WrittenRow(jobs[j], status) \in JobRow
      BY JobRowsTyped DEF TypeOK
    <2> QED BY <2>1 DEF TypeOK, SetJob
  <1> QED BY <1>1, <1>2

\* Adding a message to the queue, and taking one that is there, keep its type.
LEMMA QueueTyped ==
    ASSUME TypeOK, NEW m \in Messages
    PROVE  /\ Enqueue(queue, m) \in [Messages -> Nat]
           /\ queue[m] > 0 => Dequeue(queue, m) \in [Messages -> Nat]
  BY DEF TypeOK, Enqueue, Dequeue

\* The moves of a handler keep its control state typed.
LEMMA HandlerMovesTyped ==
    ASSUME TypeOK, NEW h \in Handlers
    PROVE  /\ \A pc \in HandlerPc :
                 GoTo(h, pc) => handlers' \in [Handlers -> HandlerState]
           /\ Return(h) => handlers' \in [Handlers -> HandlerState]
           /\ \A pc \in HandlerPc, d \in Documents, j \in Jobs \union {NoJob},
                 seen \in DocumentStatus \union Absent :
                 Become(h, pc, d, j, seen)
                    => handlers' \in [Handlers -> HandlerState]
  <1>1. IdleHandler \in HandlerState
    BY DEF IdleHandler, HandlerState, HandlerPc, Absent
  <1>2. ASSUME NEW pc \in HandlerPc
        PROVE  [handlers[h] EXCEPT !.pc = pc] \in HandlerState
    BY DEF TypeOK, HandlerState
  <1>3. ASSUME NEW pc \in HandlerPc, GoTo(h, pc)
        PROVE  handlers' \in [Handlers -> HandlerState]
    BY <1>2, <1>3 DEF TypeOK, GoTo
  <1>4. ASSUME Return(h)
        PROVE  handlers' \in [Handlers -> HandlerState]
    BY <1>1, <1>4 DEF TypeOK, Return
  <1>5. ASSUME NEW pc \in HandlerPc, NEW d \in Documents,
               NEW j \in Jobs \union {NoJob},
               NEW seen \in DocumentStatus \union Absent,
               Become(h, pc, d, j, seen)
        PROVE  handlers' \in [Handlers -> HandlerState]
    <2>1. [pc |-> pc, document |-> d, job |-> j, seen |-> seen] \in HandlerState
      BY DEF HandlerState
    <2> QED BY <2>1, <1>5 DEF TypeOK, Become
  <1> QED BY <1>3, <1>4, <1>5

\* The moves of a worker keep its control state typed.
LEMMA WorkerMovesTyped ==
    ASSUME TypeOK, NEW w \in Workers
    PROVE  /\ \A pc \in WorkerPc :
                 /\ [workers[w] EXCEPT !.pc = pc] \in WorkerState
                 /\ Advance(w, pc) => workers' \in [Workers -> WorkerState]
           /\ [workers[w] EXCEPT !.message = "redelivered"] \in WorkerState
           /\ workers' = [workers EXCEPT ![w] = IdleWorker]
                 => workers' \in [Workers -> WorkerState]
  <1> USE IngestionAssumption DEF IngestionAssumption
  <1>1. IdleWorker \in WorkerState
    BY DEF IdleWorker, WorkerState, WorkerPc, Absent, MaxHold, MaxAge
  <1>2. ASSUME NEW pc \in WorkerPc
        PROVE  [workers[w] EXCEPT !.pc = pc] \in WorkerState
    BY DEF TypeOK, WorkerState
  <1>3. ASSUME NEW pc \in WorkerPc, Advance(w, pc)
        PROVE  workers' \in [Workers -> WorkerState]
    BY <1>2, <1>3 DEF TypeOK, Advance
  <1>4. ASSUME workers' = [workers EXCEPT ![w] = IdleWorker]
        PROVE  workers' \in [Workers -> WorkerState]
    BY <1>1, <1>4 DEF TypeOK
  <1>5. [workers[w] EXCEPT !.message = "redelivered"] \in WorkerState
    BY DEF TypeOK, WorkerState
  <1> QED BY <1>2, <1>3, <1>4, <1>5

-----------------------------------------------------------------------------
(* Type correctness *)

LEMMA InitTyped == Init => TypeInv
  <1> SUFFICES ASSUME Init PROVE TypeInv
    OBVIOUS
  <1>1. jobs \in [Jobs -> JobRow]
    <2>1. NoJobRow("NONE") \in JobRow
      BY JobRowsTyped DEF Absent
    <2> QED BY <2>1 DEF Init
  <1>2. handlers \in [Handlers -> HandlerState]
    BY DEF Init, HandlerState, HandlerPc, IdleHandler, Absent
  <1>3. workers \in [Workers -> WorkerState]
    BY IngestionAssumption
    DEF IngestionAssumption, Init, WorkerState, WorkerPc, IdleWorker, Absent,
        MaxHold, MaxAge
  <1>4. queue \in [Messages -> Nat]
    BY DEF Init
  <1>5. /\ documents \in [Documents -> DocumentStatus \union Absent]
        /\ chunks \in SUBSET Documents
        /\ objects \in SUBSET Documents
    BY DEF Init, Absent
  <1>6. faults \in 0..MaxFaults
    BY IngestionAssumption DEF IngestionAssumption, Init
  <1>7. BusyWorkersHaveJob
    BY DEF Init, BusyWorkersHaveJob, IdleWorker
  <1>8. BusyHandlersHaveWork
    BY DEF Init, BusyHandlersHaveWork, IdleHandler
  <1> QED
    BY <1>1, <1>2, <1>3, <1>4, <1>5, <1>6, <1>7, <1>8 DEF TypeInv, TypeOK

\* A fault that is injected stays within the bound.
LEMMA InjectTyped ==
    ASSUME TypeOK, NEW kind, Inject(kind)
    PROVE  faults' \in 0..MaxFaults
  BY IngestionAssumption DEF IngestionAssumption, TypeOK, Inject

\* A request that publishes has a document, a job and a first message.
LEMMA PublisherHasMessage ==
    ASSUME BusyHandlersHaveWork, NEW h \in Handlers,
           handlers[h].pc \in {"publishing", "unpublished", "recording"}
    PROVE  /\ handlers[h].document \in Documents
           /\ handlers[h].job \in Jobs
           /\ <<handlers[h].job, 0>> \in Messages
  <1>1. handlers[h].document \in Documents /\ handlers[h].job \in Jobs
    BY DEF BusyHandlersHaveWork
  <1>2. 0 \in 0..MaxRetries
    BY IngestionAssumption DEF IngestionAssumption
  <1> QED BY <1>1, <1>2 DEF Messages

\* A handler's step leaves every variable in its type.
LEMMA ApiTyped ==
    ASSUME TypeInv, NEW h \in Handlers,
           Request(h) \/ HandlerStep(h) \/ HandlerFault(h)
    PROVE  TypeOK'
  <1> USE JobRowsTyped, RowWritesTyped, QueueTyped, HandlerMovesTyped, InjectTyped
  <1> USE DEF TypeOK, TypeInv, database
  <1>0. /\ {"stored", "publishing", "unpublished", "recording", "marking",
            "reindexing", "purging", "deleting"} \subseteq HandlerPc
        /\ "NONE" \in Absent /\ "DELETED" \in Absent
        /\ "UPLOADED" \in DocumentStatus /\ "FAILED" \in DocumentStatus
        /\ "FAILED" \in JobStatus
    BY DEF HandlerPc, Absent, DocumentStatus, JobStatus
  <1>a. ASSUME handlers[h].pc \in {"publishing", "unpublished", "recording"}
        PROVE  /\ handlers[h].document \in Documents
               /\ handlers[h].job \in Jobs
               /\ <<handlers[h].job, 0>> \in Messages
    BY <1>a, PublisherHasMessage
  <1>1. ASSUME NEW j \in Jobs, StoreUpload(h, j) PROVE TypeOK'
    BY <1>0, <1>1, IngestionAssumption DEF IngestionAssumption, StoreUpload
  <1>2. ASSUME NEW j \in Jobs, ReadForReindex(h, j) PROVE TypeOK'
    BY <1>0, <1>2, IngestionAssumption DEF IngestionAssumption, ReadForReindex
  <1>3. ASSUME NEW d \in Documents, FlushDelete(h, d) PROVE TypeOK'
    BY <1>0, <1>3 DEF FlushDelete
  <1>4. CASE CommitUpload(h)
    BY <1>0, <1>4 DEF CommitUpload
  <1>5. CASE Publish(h)
    BY <1>0, <1>a, <1>5 DEF Publish
  <1>6. CASE ReadUnpublished(h)
    BY <1>0, <1>a, <1>6 DEF ReadUnpublished
  <1>7. CASE RecordUnpublished(h)
    BY <1>0, <1>a, <1>7 DEF RecordUnpublished
  <1>8. CASE MarkQueued(h)
    BY <1>0, <1>8 DEF MarkQueued
  <1>9. CASE CommitReindex(h)
    BY <1>0, <1>9 DEF CommitReindex
  <1>10. CASE ReindexRefused(h)
    BY <1>0, <1>10 DEF ReindexRefused
  <1>11. CASE PurgeObject(h)
    BY <1>0, <1>11 DEF PurgeObject
  <1>12. CASE CommitDelete(h)
    BY <1>0, <1>12 DEF CommitDelete
  <1>13. CASE UndoUpload(h)
    BY <1>0, <1>13 DEF UndoUpload
  <1>14. CASE FailPublish(h)
    BY <1>0, <1>a, <1>14 DEF FailPublish
  <1>15. CASE AbandonRequest(h)
    BY <1>0, <1>15 DEF AbandonRequest
  <1> QED
    BY <1>1, <1>2, <1>3, <1>4, <1>5, <1>6, <1>7, <1>8, <1>9, <1>10, <1>11,
       <1>12, <1>13, <1>14, <1>15
    DEF Request, HandlerStep, HandlerFault

\* A handler's step keeps every busy handler's document and job in place.
LEMMA ApiKeepsWork ==
    ASSUME TypeInv, NEW h \in Handlers,
           Request(h) \/ HandlerStep(h) \/ HandlerFault(h)
    PROVE  BusyHandlersHaveWork' /\ BusyWorkersHaveJob'
  <1> USE DEF TypeInv, BusyHandlersHaveWork
  <1>1. BusyWorkersHaveJob'
    <2>1. workers' = workers
      BY DEF Request, HandlerStep, HandlerFault, StoreUpload, ReadForReindex,
             FlushDelete, CommitUpload, Publish, ReadUnpublished,
             RecordUnpublished, MarkQueued, CommitReindex, ReindexRefused,
             PurgeObject, CommitDelete, UndoUpload, FailPublish, AbandonRequest
    <2> QED BY <2>1 DEF BusyWorkersHaveJob
  <1> SUFFICES BusyHandlersHaveWork'
    BY <1>1
  <1>2. ASSUME handlers' = [handlers EXCEPT ![h] = IdleHandler]
        PROVE  BusyHandlersHaveWork'
    BY <1>2 DEF IdleHandler, TypeOK
  <1>3. ASSUME NEW pc, GoTo(h, pc), handlers[h].pc # "idle",
               handlers[h].pc \notin {"purging", "deleting"}
        PROVE  BusyHandlersHaveWork'
    BY <1>3 DEF GoTo, TypeOK, HandlerState
  <1>4. ASSUME NEW j \in Jobs, NEW pc \in HandlerPc \ {"purging", "deleting"},
               NEW seen, Become(h, pc, DocumentOf[j], j, seen)
        PROVE  BusyHandlersHaveWork'
    BY <1>4, IngestionAssumption DEF IngestionAssumption, Become, TypeOK, HandlerState
  <1>5. ASSUME NEW d \in Documents, FlushDelete(h, d)
        PROVE  BusyHandlersHaveWork'
    BY <1>5 DEF FlushDelete, Become, TypeOK, HandlerState
  <1>6. ASSUME NEW j \in Jobs, StoreUpload(h, j)
        PROVE  BusyHandlersHaveWork'
    <2>1. Become(h, "stored", DocumentOf[j], j, "NONE")
      BY <1>6 DEF StoreUpload
    <2>2. "stored" \in HandlerPc \ {"purging", "deleting"}
      BY DEF HandlerPc
    <2> QED BY <1>4, <2>1, <2>2
  <1>7. ASSUME NEW j \in Jobs, ReadForReindex(h, j)
        PROVE  BusyHandlersHaveWork'
    <2>1. Become(h, "reindexing", DocumentOf[j], j, documents[DocumentOf[j]])
      BY <1>7 DEF ReadForReindex
    <2>2. "reindexing" \in HandlerPc \ {"purging", "deleting"}
      BY DEF HandlerPc
    <2> QED BY <1>4, <2>1, <2>2
  <1>8. CASE CommitUpload(h) \/ CommitReindex(h)
    <2>1. handlers[h].pc \in {"stored", "reindexing"} /\ GoTo(h, "publishing")
      BY <1>8 DEF CommitUpload, CommitReindex
    <2> QED BY <1>3, <2>1
  <1>10. CASE Publish(h)
    <2>1. handlers[h].pc = "publishing" /\ GoTo(h, "marking")
      BY <1>10 DEF Publish
    <2> QED BY <1>3, <2>1
  <1>11. CASE FailPublish(h)
    <2>1. handlers[h].pc = "publishing" /\ GoTo(h, "unpublished")
      BY <1>11 DEF FailPublish
    <2> QED BY <1>3, <2>1
  <1>12. CASE PurgeObject(h)
    BY <1>12 DEF PurgeObject, GoTo, TypeOK, HandlerState
  <1>13. CASE ReadUnpublished(h)
    BY <1>13 DEF ReadUnpublished, Become, TypeOK, HandlerState
  <1>9. CASE \/ RecordUnpublished(h) \/ MarkQueued(h) \/ ReindexRefused(h)
             \/ CommitDelete(h) \/ UndoUpload(h) \/ AbandonRequest(h)
    BY <1>2, <1>9
    DEF RecordUnpublished, MarkQueued, ReindexRefused, CommitDelete, UndoUpload,
        AbandonRequest, Return
  <1> QED
    BY <1>5, <1>6, <1>7, <1>8, <1>9, <1>10, <1>11, <1>12, <1>13
    DEF Request, HandlerStep, HandlerFault

\* What a busy worker's attempt can put into the rows and the queue.
LEMMA AttemptTyped ==
    ASSUME TypeInv, NEW w \in Workers, workers[w].pc # "idle"
    PROVE  /\ workers[w].job \in Jobs
           /\ DocumentOf[workers[w].job] \in Documents
           /\ <<workers[w].job, workers[w].retries>> \in Messages
           /\ FailureStatus(w) \in DocumentStatus \intersect JobStatus
           /\ AfterFailure(w) \in WorkerPc \ {"idle"}
  <1>1. workers[w].job \in Jobs /\ DocumentOf[workers[w].job] \in Documents
    BY IngestionAssumption DEF IngestionAssumption, TypeInv, BusyWorkersHaveJob
  <1>2. workers[w].retries \in 0..MaxRetries
    BY DEF TypeInv, TypeOK, WorkerState
  <1>3. <<workers[w].job, workers[w].retries>> \in Messages
    BY <1>1, <1>2 DEF Messages
  <1>4. FailureStatus(w) \in DocumentStatus \intersect JobStatus
    BY DEF FailureStatus, DocumentStatus, JobStatus
  <1>5. AfterFailure(w) \in WorkerPc \ {"idle"}
    BY DEF AfterFailure, WorkerPc
  <1> QED BY <1>1, <1>3, <1>4, <1>5

\* Publishing with any retry counter keeps the queue typed.
LEMMA RetryTyped ==
    ASSUME TypeOK, NEW m
    PROVE  Enqueue(queue, m) \in [Messages -> Nat]
  <1>1. CASE m \in Messages
    BY <1>1, QueueTyped
  <1>2. CASE m \notin Messages
    <2>1. Enqueue(queue, m) = queue
      BY <1>2 DEF Enqueue, TypeOK
    <2> QED BY <2>1 DEF TypeOK
  <1> QED BY <1>1, <1>2

\* A worker's step leaves every variable in its type.
LEMMA WorkerTyped ==
    ASSUME TypeInv, NEW w \in Workers,
           \/ \E m \in Messages : Receive(w, m)
           \/ WorkerStep(w)
           \/ WorkerFault(w)
    PROVE  TypeOK'
  <1> USE JobRowsTyped, RowWritesTyped, QueueTyped, RetryTyped, WorkerMovesTyped,
          InjectTyped, AttemptTyped
  <1> USE DEF TypeOK, TypeInv, database
  <1>0. /\ WorkerPc = {"idle", "received", "claimed", "parsing", "embedding",
                       "failing", "persisting", "retrying", "acking"}
        /\ InTransaction = {"parsing", "embedding"}
        /\ "INDEXED" \in DocumentStatus /\ "INDEXED" \in JobStatus
    BY DEF WorkerPc, InTransaction, DocumentStatus, JobStatus
  <1>1. ASSUME NEW m \in Messages, Receive(w, m) PROVE TypeOK'
    <2> DEFINE received == [pc |-> "received", job |-> m[1], retries |-> m[2],
                            seen |-> "NONE", hold |-> 0, message |-> "held"]
    <2>1. 0 \in 0..MaxHold
      BY IngestionAssumption DEF IngestionAssumption, MaxHold, MaxAge
    <2>2. m[1] \in Jobs /\ m[2] \in 0..MaxRetries
      BY DEF Messages
    <2>3. received \in WorkerState
      BY <1>0, <2>1, <2>2 DEF WorkerState, Absent
    <2>4. workers' \in [Workers -> WorkerState]
      BY <1>1, <2>3 DEF Receive
    <2> QED BY <1>1, <2>4 DEF Receive
  <1>2. CASE Claim(w)
    BY <1>0, <1>2 DEF Claim
  <1>3. CASE Skip(w) \/ JobMissing(w) \/ BeginParsing(w) \/ ReadObject(w)
             \/ FailPipeline(w)
    <2>1. \E pc \in WorkerPc : Advance(w, pc)
      BY <1>0, <1>3 DEF Skip, JobMissing, BeginParsing, ReadObject, FailPipeline
    <2> QED
      BY <1>3, <2>1 DEF Skip, JobMissing, BeginParsing, ReadObject, FailPipeline
  <1>4. CASE CommitIndexed(w)
    BY <1>0, <1>4 DEF CommitIndexed
  <1>5. CASE ReadForFailure(w)
    <2> DEFINE moved == [workers[w] EXCEPT !.pc = "persisting"]
               read  == [moved EXCEPT !.seen = documents[DocumentOf[workers[w].job]]]
    <2>1. documents[DocumentOf[workers[w].job]] \in DocumentStatus \union Absent
      BY <1>5 DEF ReadForFailure
    <2>2. moved \in WorkerState
      BY <1>0
    <2>3. read \in WorkerState
      BY <2>1, <2>2 DEF WorkerState
    <2>4. workers' = [workers EXCEPT ![w] = read]
      BY <1>5 DEF ReadForFailure, WorkerState
    <2>5. workers' \in [Workers -> WorkerState]
      BY <2>3, <2>4
    <2> QED BY <2>5, <1>5 DEF ReadForFailure
  <1>6. CASE PersistFailure(w)
    BY <1>0, <1>6 DEF PersistFailure
  <1>7. CASE PublishRetry(w)
    BY <1>0, <1>7 DEF PublishRetry
  <1>8. CASE Acknowledge(w)
    BY <1>0, <1>8 DEF Acknowledge
  <1>9. CASE ClaimRaises(w)
    BY <1>0, <1>9 DEF ClaimRaises
  <1>10. CASE LosePersist(w)
    BY <1>0, <1>10 DEF LosePersist
  <1>11. CASE CrashWorker(w)
    BY <1>0, <1>11 DEF CrashWorker, Redelivered
  <1>12. CASE Redeliver(w)
    <2>1. workers' \in [Workers -> WorkerState]
      BY <1>12 DEF Redeliver
    <2> QED BY <1>12, <2>1 DEF Redeliver, Redelivered
  <1> QED
    BY <1>1, <1>2, <1>3, <1>4, <1>5, <1>6, <1>7, <1>8, <1>9, <1>10, <1>11, <1>12
    DEF WorkerStep, WorkerFault

\* A worker's step keeps every busy worker on a job.
LEMMA WorkerKeepsWork ==
    ASSUME TypeInv, NEW w \in Workers,
           \/ \E m \in Messages : Receive(w, m)
           \/ WorkerStep(w)
           \/ WorkerFault(w)
    PROVE  BusyHandlersHaveWork' /\ BusyWorkersHaveJob'
  <1> USE DEF TypeInv, TypeOK, WorkerState
  <1>1. handlers' = handlers
    BY DEF WorkerStep, WorkerFault, Receive, Claim, Skip, JobMissing, ClaimRaises,
           BeginParsing, ReadObject, CommitIndexed, FailPipeline, ReadForFailure,
           PersistFailure, LosePersist, PublishRetry, Acknowledge, CrashWorker,
           Redeliver
  <1>2. BusyHandlersHaveWork'
    BY <1>1 DEF BusyHandlersHaveWork
  <1> SUFFICES BusyWorkersHaveJob'
    BY <1>2
  <1>3. ASSUME NEW m \in Messages, Receive(w, m) PROVE BusyWorkersHaveJob'
    <2>1. m[1] \in Jobs
      BY DEF Messages
    <2> QED BY <1>3, <2>1 DEF Receive, BusyWorkersHaveJob
  <1>4. ASSUME NEW pc, Advance(w, pc), workers[w].pc # "idle"
        PROVE  BusyWorkersHaveJob'
    BY <1>4 DEF Advance, BusyWorkersHaveJob
  <1>5. ASSUME workers' = [workers EXCEPT ![w] = IdleWorker]
        PROVE  BusyWorkersHaveJob'
    BY <1>5 DEF BusyWorkersHaveJob, IdleWorker
  <1>6. CASE ReadForFailure(w)
    BY <1>6 DEF ReadForFailure, BusyWorkersHaveJob
  <1>7. CASE Redeliver(w)
    BY <1>7 DEF Redeliver, BusyWorkersHaveJob
  <1>8. CASE Acknowledge(w) \/ CrashWorker(w)
    BY <1>5, <1>8 DEF Acknowledge, CrashWorker
  <1>9. CASE \/ Claim(w) \/ Skip(w) \/ JobMissing(w) \/ ClaimRaises(w)
             \/ BeginParsing(w) \/ ReadObject(w) \/ CommitIndexed(w)
             \/ FailPipeline(w) \/ PersistFailure(w) \/ LosePersist(w)
             \/ PublishRetry(w)
    <2>1. workers[w].pc # "idle" /\ \E pc : Advance(w, pc)
      BY <1>9
      DEF Claim, Skip, JobMissing, ClaimRaises, BeginParsing, ReadObject,
          CommitIndexed, FailPipeline, InTransaction, PersistFailure, LosePersist,
          PublishRetry
    <2> QED BY <1>4, <2>1
  <1> QED
    BY <1>3, <1>6, <1>7, <1>8, <1>9 DEF WorkerStep, WorkerFault

\* Time passes within the caps.
LEMMA TickTyped == TypeInv /\ Tick => TypeInv'
  <1> SUFFICES ASSUME TypeInv, Tick PROVE TypeInv'
    OBVIOUS
  <1> USE DEF TypeInv, TypeOK
  <1>1. jobs' \in [Jobs -> JobRow]
    BY JobRowsTyped DEF Tick
  <1>2. ASSUME NEW w \in Workers
        PROVE  /\ workers'[w] \in WorkerState
               /\ workers'[w].pc = workers[w].pc
               /\ workers'[w].job = workers[w].job
    <2>1. Older(workers[w].hold, MaxHold) \in 0..MaxHold
      BY IngestionAssumption
      DEF IngestionAssumption, Older, MaxHold, MaxAge, WorkerState
    <2>2. /\ [workers[w] EXCEPT !.hold = Older(workers[w].hold, MaxHold)]
                \in WorkerState
          /\ workers[w] \in WorkerState
      BY <2>1 DEF WorkerState
    <2> QED BY <2>2 DEF Tick, WorkerState
  <1>3. workers' \in [Workers -> WorkerState]
    BY <1>2 DEF Tick
  <1>4. BusyWorkersHaveJob'
    BY <1>2 DEF BusyWorkersHaveJob
  <1>5. BusyHandlersHaveWork'
    BY DEF Tick, BusyHandlersHaveWork
  <1> QED BY <1>1, <1>3, <1>4, <1>5 DEF Tick

\* The model's types, with what a busy process holds, are preserved by every step.
LEMMA TypeInvStep == TypeInv /\ [Next]_vars => TypeInv'
  <1> SUFFICES ASSUME TypeInv, [Next]_vars PROVE TypeInv'
    OBVIOUS
  <1>1. CASE UNCHANGED vars
    BY <1>1
    DEF vars, TypeInv, TypeOK, BusyWorkersHaveJob, BusyHandlersHaveWork
  <1>2. ASSUME NEW h \in Handlers, Request(h) \/ HandlerStep(h) \/ HandlerFault(h)
        PROVE  TypeInv'
    BY <1>2, ApiTyped, ApiKeepsWork DEF TypeInv
  <1>3. ASSUME NEW w \in Workers,
               \/ \E m \in Messages : Receive(w, m)
               \/ WorkerStep(w)
               \/ WorkerFault(w)
        PROVE  TypeInv'
    BY <1>3, WorkerTyped, WorkerKeepsWork DEF TypeInv
  <1>4. CASE Tick
    BY <1>4, TickTyped
  <1> QED BY <1>1, <1>2, <1>3, <1>4 DEF Next

LEMMA TypesHold == Spec => []TypeInv
  BY InitTyped, TypeInvStep, PTL DEF Spec

\* Rows, objects, messages and the control state of every process stay in
\* their types: no ingestion stage is ever visible in a committed row, and
\* whoever is busy holds a job of the system.
THEOREM TypeCorrect == Spec => []TypeOK
  <1>1. TypeInv => TypeOK
    BY DEF TypeInv
  <1> QED BY <1>1, TypesHold, PTL

-----------------------------------------------------------------------------
(* Who writes a job's row, and how *)

\* What every write of a row preserves, but for its creation: an identity that
\* was never used stays unused, a removed row stays removed, no job becomes
\* PENDING again, and a row that changes has just been touched.
RowKept(j) ==
    /\ jobs[j].status = "NONE" <=> jobs'[j].status = "NONE"
    /\ jobs[j].status \in Absent => jobs'[j].status \in Absent
    /\ jobs'[j].status = "PENDING" => jobs[j].status = "PENDING"
    /\ jobs'[j] = jobs[j] \/ jobs'[j].age = 0

\* The fields of the values written.
LEMMA WrittenFields ==
    ASSUME NEW row \in JobRow, NEW status
    PROVE  /\ WrittenRow(row, status).status = status
           /\ WrittenRow(row, status).age = 0
           /\ QueuedRow(row).status = row.status
           /\ QueuedRow(row).age = 0
           /\ ClaimedRow(row).status = "PROCESSING"
           /\ ClaimedRow(row).age = 0
           /\ NoJobRow(status).status = status
           /\ NoJobRow(status).age = 0
  BY DEF JobRow, WrittenRow, QueuedRow, ClaimedRow, NoJobRow, NewJob

\* An unconditional status write keeps a row in the sense of RowKept.
LEMMA SetJobKeeps ==
    ASSUME TypeOK, NEW k \in Jobs, NEW status \in JobStatus \ {"PENDING"},
           jobs' = SetJob(jobs, k, status), NEW j \in Jobs
    PROVE  RowKept(j)
  <1>1. CASE jobs[k].status \in Absent \/ j # k
    <2>1. jobs'[j] = jobs[j]
      BY <1>1 DEF SetJob, TypeOK
    <2> QED BY <2>1 DEF RowKept
  <1>2. CASE jobs[k].status \notin Absent /\ j = k
    <2>1. jobs'[j] = WrittenRow(jobs[j], status)
      BY <1>2 DEF SetJob, TypeOK
    <2>2. jobs'[j].status = status /\ jobs'[j].age = 0
      BY <2>1, WrittenFields DEF TypeOK
    <2> QED BY <1>2, <2>2 DEF RowKept, Absent, JobStatus
  <1> QED BY <1>1, <1>2

LEMMA WorkerKeepsRows ==
    ASSUME TypeInv, NEW w \in Workers, NEW j \in Jobs,
           \/ \E m \in Messages : Receive(w, m)
           \/ WorkerStep(w)
           \/ WorkerFault(w)
    PROVE  RowKept(j)
  <1>1. CASE jobs' = jobs
    BY <1>1 DEF RowKept
  <1>2. CASE Claim(w)
    <2> DEFINE k == workers[w].job
    <2>1. CASE j # k
      BY <2>1, <1>2 DEF Claim, RowKept, TypeInv, TypeOK
    <2>2. CASE j = k
      <3>1. jobs'[j] = ClaimedRow(jobs[j])
        BY <2>2, <1>2 DEF Claim, TypeInv, TypeOK
      <3>2. jobs'[j].status = "PROCESSING" /\ jobs'[j].age = 0
        BY <3>1, WrittenFields DEF TypeInv, TypeOK
      <3>3. jobs[j].status \notin Absent
        BY <2>2, <1>2 DEF Claim, JobExists
      <3> QED BY <3>2, <3>3 DEF RowKept, Absent
    <2> QED BY <2>1, <2>2
  <1>3. CASE CommitIndexed(w)
    BY <1>3, SetJobKeeps, AttemptTyped DEF CommitIndexed, TypeInv, JobStatus
  <1>4. CASE PersistFailure(w)
    <2>1. FailureStatus(w) \in JobStatus \ {"PENDING"}
      BY DEF FailureStatus, JobStatus
    <2> QED BY <2>1, <1>4, SetJobKeeps, AttemptTyped DEF PersistFailure, TypeInv
  <1> QED
    BY <1>1, <1>2, <1>3, <1>4
    DEF database, WorkerStep, WorkerFault, Receive, Skip, JobMissing, ClaimRaises,
        BeginParsing, ReadObject, FailPipeline, ReadForFailure, LosePersist,
        PublishRetry, Acknowledge, CrashWorker, Redeliver

\* A request keeps every row but the one it creates.
LEMMA ApiKeepsRows ==
    ASSUME TypeInv, NEW h \in Handlers, NEW j \in Jobs,
           Request(h) \/ HandlerStep(h) \/ HandlerFault(h)
    PROVE  \/ RowKept(j)
           \/ Creating(h) /\ handlers[h].job = j /\ GoTo(h, "publishing")
  <1>1. CASE jobs' = jobs
    BY <1>1 DEF RowKept
  <1>2. CASE CommitUpload(h) \/ CommitReindex(h)
    <2>1. /\ Creating(h)
          /\ GoTo(h, "publishing")
          /\ jobs' = [jobs EXCEPT ![handlers[h].job] = NewJob]
      BY <1>2 DEF CommitUpload, CommitReindex, Creating
    <2>2. CASE j # handlers[h].job
      BY <2>1, <2>2 DEF RowKept, TypeInv, TypeOK
    <2> QED BY <2>1, <2>2
  <1>3. CASE RecordUnpublished(h)
    <2>1. handlers[h].job \in Jobs
      BY <1>3, PublisherHasMessage DEF RecordUnpublished, TypeInv
    <2> QED BY <2>1, <1>3, SetJobKeeps DEF RecordUnpublished, TypeInv, JobStatus
  <1>4. CASE MarkQueued(h)
    <2>1. CASE j # handlers[h].job \/ ~JobExists(handlers[h].job)
      <3>1. jobs'[j] = jobs[j]
        BY <2>1, <1>4 DEF MarkQueued, TypeInv, TypeOK
      <3> QED BY <3>1 DEF RowKept
    <2>2. CASE j = handlers[h].job /\ JobExists(handlers[h].job)
      <3>1. jobs'[j] = QueuedRow(jobs[j])
        BY <2>2, <1>4 DEF MarkQueued, TypeInv, TypeOK
      <3>2. jobs'[j].status = jobs[j].status /\ jobs'[j].age = 0
        BY <3>1, WrittenFields DEF TypeInv, TypeOK
      <3> QED BY <3>2 DEF RowKept
    <2> QED BY <2>1, <2>2
  <1>5. CASE CommitDelete(h)
    <2>1. CASE DocumentOf[j] = handlers[h].document /\ JobExists(j)
      <3>1. jobs'[j] = NoJobRow("DELETED")
        BY <2>1, <1>5 DEF CommitDelete
      <3>2. jobs'[j].status = "DELETED" /\ jobs'[j].age = 0
        BY <3>1 DEF NoJobRow, NewJob
      <3> QED BY <3>2, <2>1 DEF RowKept, JobExists, Absent
    <2>2. CASE ~(DocumentOf[j] = handlers[h].document /\ JobExists(j))
      <3>1. jobs'[j] = jobs[j]
        BY <2>2, <1>5 DEF CommitDelete
      <3> QED BY <3>1 DEF RowKept
    <2> QED BY <2>1, <2>2
  <1> QED
    BY <1>1, <1>2, <1>3, <1>4, <1>5
    DEF database, Request, HandlerStep, HandlerFault, StoreUpload, ReadForReindex,
        FlushDelete, Publish, ReadUnpublished, ReindexRefused, PurgeObject,
        UndoUpload, FailPublish, AbandonRequest

-----------------------------------------------------------------------------
(* The lease *)

\* How a worker comes to own a job: it owned it before, or it claims it now;
\* what it holds does not change otherwise.
LEMMA OwnersClaim ==
    ASSUME TypeInv, NEW w \in Workers, NEW v \in Workers,
           \/ \E m \in Messages : Receive(w, m)
           \/ WorkerStep(w)
           \/ WorkerFault(w),
           Owner(v)'
    PROVE  /\ workers'[v].job = workers[v].job
           /\ workers'[v].retries = workers[v].retries
           /\ workers'[v].hold = workers[v].hold
           /\ Owner(v) \/ (v = w /\ Claim(w))
  <1> USE DEF Owner, InTransaction, TypeInv, TypeOK, WorkerState
  <1>1. CASE v # w
    <2>1. workers'[v] = workers[v]
      BY <1>1
      DEF WorkerStep, WorkerFault, Receive, Claim, Skip, JobMissing, ClaimRaises,
          BeginParsing, ReadObject, CommitIndexed, FailPipeline, ReadForFailure,
          PersistFailure, LosePersist, PublishRetry, Acknowledge, CrashWorker,
          Redeliver, Advance
    <2> QED BY <2>1
  <1>2. CASE v = w
    <2>1. CASE \E m \in Messages : Receive(w, m)
      BY <1>2, <2>1 DEF Receive
    <2>2. CASE Skip(w) \/ JobMissing(w) \/ FailPipeline(w) \/ ClaimRaises(w)
               \/ CommitIndexed(w) \/ PublishRetry(w)
      BY <1>2, <2>2
      DEF Skip, JobMissing, FailPipeline, ClaimRaises, CommitIndexed, PublishRetry,
          Advance
    <2>3. CASE PersistFailure(w) \/ LosePersist(w)
      BY <1>2, <2>3 DEF PersistFailure, LosePersist, Advance, AfterFailure
    <2>4. CASE ReadForFailure(w)
      <3>1. workers'[w].pc = "persisting"
        BY <2>4 DEF ReadForFailure
      <3> QED BY <1>2, <3>1
    <2>5. CASE Acknowledge(w) \/ CrashWorker(w)
      BY <1>2, <2>5 DEF Acknowledge, CrashWorker, IdleWorker
    <2>6. CASE Claim(w)
      BY <1>2, <2>6 DEF Claim, Advance
    <2>7. CASE BeginParsing(w) \/ ReadObject(w)
      BY <1>2, <2>7 DEF BeginParsing, ReadObject, Advance
    <2>8. CASE Redeliver(w)
      BY <1>2, <2>8 DEF Redeliver
    <2> QED
      BY <2>1, <2>2, <2>3, <2>4, <2>5, <2>6, <2>7, <2>8
      DEF WorkerStep, WorkerFault
  <1> QED BY <1>1, <1>2

\* Time passes for a worker: what it holds gets older, nothing else changes.
LEMMA TickAges ==
    ASSUME TypeInv, Tick
    PROVE  /\ \A w \in Workers :
                 /\ workers'[w].pc = workers[w].pc
                 /\ workers'[w].job = workers[w].job
                 /\ workers'[w].retries = workers[w].retries
                 /\ workers'[w].hold >= workers[w].hold
                 /\ workers[w].pc # "idle"
                       => workers'[w].hold = Older(workers[w].hold, MaxHold)
           /\ \A j \in Jobs :
                 /\ jobs'[j].status = jobs[j].status
                 /\ Active(j) => jobs'[j].age = Older(jobs[j].age, MaxAge)
  <1>1. ASSUME NEW w \in Workers
        PROVE  /\ workers'[w].pc = workers[w].pc
               /\ workers'[w].job = workers[w].job
               /\ workers'[w].retries = workers[w].retries
               /\ workers'[w].hold >= workers[w].hold
               /\ workers[w].pc # "idle"
                     => workers'[w].hold = Older(workers[w].hold, MaxHold)
    <2>1. workers[w] \in WorkerState /\ workers[w].hold \in Nat
      BY IngestionAssumption
      DEF IngestionAssumption, TypeInv, TypeOK, WorkerState, MaxHold, MaxAge
    <2> QED BY <2>1 DEF Tick, WorkerState, Older
  <1>2. ASSUME NEW j \in Jobs
        PROVE  /\ jobs'[j].status = jobs[j].status
               /\ Active(j) => jobs'[j].age = Older(jobs[j].age, MaxAge)
    <2>1. jobs[j] \in JobRow
      BY DEF TypeInv, TypeOK
    <2> QED BY <2>1 DEF Tick, JobRow
  <1> QED BY <1>1, <1>2

\* The creator of a job stays the only one that knows its identity.
LEMMA CreatorsStep ==
    ASSUME TypeInv, CreatorsHoldFreshJobs, Next
    PROVE  CreatorsHoldFreshJobs'
  <1>1. ASSUME NEW h \in Handlers, Request(h) \/ HandlerStep(h) \/ HandlerFault(h)
        PROVE  CreatorsHoldFreshJobs'
    <2>1. ASSUME NEW j \in Jobs, StoreUpload(h, j) \/ ReadForReindex(h, j)
          PROVE  CreatorsHoldFreshJobs'
      <3>1. /\ jobs' = jobs
            /\ FreshJob(j)
            /\ \E pc, d, seen : Become(h, pc, d, j, seen)
        BY <2>1 DEF StoreUpload, ReadForReindex, database
      <3>2. /\ handlers'[h].job = j
            /\ \A g \in Handlers \ {h} : handlers'[g] = handlers[g]
        BY <3>1 DEF Become, TypeInv, TypeOK
      <3> QED
        BY <3>1, <3>2 DEF CreatorsHoldFreshJobs, Creating, FreshJob
    <2>2. ASSUME NEW d \in Documents, FlushDelete(h, d)
          PROVE  CreatorsHoldFreshJobs'
      <3>1. /\ jobs' = jobs
            /\ handlers'[h].pc = "purging" /\ handlers'[h].job = NoJob
            /\ \A g \in Handlers \ {h} : handlers'[g] = handlers[g]
        BY <2>2 DEF FlushDelete, Become, database, TypeInv, TypeOK
      <3>2. \A g \in Handlers : Creating(g) => handlers[g].job # NoJob
        BY IngestionAssumption
        DEF IngestionAssumption, Creating, TypeInv, BusyHandlersHaveWork
      <3> QED BY <3>1, <3>2 DEF CreatorsHoldFreshJobs, Creating
    <2>3. ASSUME HandlerStep(h) \/ HandlerFault(h)
          PROVE  CreatorsHoldFreshJobs'
      <3>1. /\ ~Creating(h)'
            /\ handlers'[h].job \in {handlers[h].job, NoJob}
            /\ \A g \in Handlers \ {h} : handlers'[g] = handlers[g]
        <4>1. \/ handlers' = [handlers EXCEPT ![h] = IdleHandler]
              \/ \E pc \in HandlerPc \ {"stored", "reindexing"} : GoTo(h, pc)
              \/ \E d, seen : Become(h, "recording", d, handlers[h].job, seen)
          BY <2>3
          DEF HandlerStep, HandlerFault, CommitUpload, Publish, ReadUnpublished,
              RecordUnpublished, MarkQueued, CommitReindex, ReindexRefused,
              PurgeObject, CommitDelete, UndoUpload, FailPublish, AbandonRequest,
              Return, HandlerPc
        <4>2. CASE handlers' = [handlers EXCEPT ![h] = IdleHandler]
          BY <4>2 DEF IdleHandler, Creating, TypeInv, TypeOK
        <4>3. CASE \E pc \in HandlerPc \ {"stored", "reindexing"} : GoTo(h, pc)
          BY <4>3 DEF GoTo, Creating, TypeInv, TypeOK, HandlerState
        <4>4. CASE \E d, seen : Become(h, "recording", d, handlers[h].job, seen)
          BY <4>4 DEF Become, Creating, TypeInv, TypeOK
        <4> QED BY <4>1, <4>2, <4>3, <4>4
      <3>2. ASSUME NEW g \in Handlers, Creating(g)'
            PROVE  /\ jobs'[handlers'[g].job].status = "NONE"
                   /\ \A f \in Handlers \ {g} : handlers'[f].job # handlers'[g].job
        <4>1. g # h /\ handlers'[g] = handlers[g] /\ Creating(g)
          BY <3>1, <3>2 DEF Creating
        <4>2. handlers[g].job \in Jobs
          BY <4>1 DEF Creating, TypeInv, BusyHandlersHaveWork
        <4>3. RowKept(handlers[g].job)
          BY <2>3, <4>1, <4>2, ApiKeepsRows DEF CreatorsHoldFreshJobs
        <4>4. handlers[g].job # NoJob
          BY <4>2, IngestionAssumption DEF IngestionAssumption
        <4> QED
          BY <3>1, <4>1, <4>3, <4>4 DEF CreatorsHoldFreshJobs, RowKept
      <3> QED BY <3>2 DEF CreatorsHoldFreshJobs
    <2> QED BY <1>1, <2>1, <2>2, <2>3 DEF Request
  <1>2. ASSUME NEW w \in Workers,
               \/ \E m \in Messages : Receive(w, m)
               \/ WorkerStep(w)
               \/ WorkerFault(w)
        PROVE  CreatorsHoldFreshJobs'
    <2>1. handlers' = handlers
      BY <1>2
      DEF WorkerStep, WorkerFault, Receive, Claim, Skip, JobMissing, ClaimRaises,
          BeginParsing, ReadObject, CommitIndexed, FailPipeline, ReadForFailure,
          PersistFailure, LosePersist, PublishRetry, Acknowledge, CrashWorker,
          Redeliver
    <2>2. \A h \in Handlers : Creating(h) => handlers[h].job \in Jobs
      BY DEF Creating, TypeInv, BusyHandlersHaveWork
    <2>3. \A h \in Handlers : Creating(h) => RowKept(handlers[h].job)
      BY <1>2, <2>2, WorkerKeepsRows
    <2> QED BY <2>1, <2>3 DEF CreatorsHoldFreshJobs, Creating, RowKept
  <1>3. CASE Tick
    <2>1. \A h \in Handlers : Creating(h) => handlers[h].job \in Jobs
      BY DEF Creating, TypeInv, BusyHandlersHaveWork
    <2> QED
      BY <1>3, <2>1, TickAges DEF Tick, CreatorsHoldFreshJobs, Creating
  <1> QED BY <1>1, <1>2, <1>3 DEF Next

\* A worker that owns a job took it from a row that is no longer PENDING, and
\* the row's age never exceeds the time the worker has held its message.
LEMMA OwnersStep ==
    ASSUME TypeInv, CreatorsHoldFreshJobs, OwnersOutliveLease, Next
    PROVE  OwnersOutliveLease'
  <1> SUFFICES ASSUME NEW v \in Workers, Owner(v)'
               PROVE  /\ jobs'[workers'[v].job].status \notin {"NONE", "PENDING"}
                      /\ jobs'[workers'[v].job].status = "PROCESSING"
                            => jobs'[workers'[v].job].age <= workers'[v].hold
    BY DEF OwnersOutliveLease, Active
  <1> DEFINE j == workers[v].job
  <1>1. workers[v].hold \in Nat
    BY IngestionAssumption
    DEF IngestionAssumption, TypeInv, TypeOK, WorkerState, MaxHold, MaxAge
  <1>2. Owner(v) => j \in Jobs
    BY DEF Owner, InTransaction, TypeInv, BusyWorkersHaveJob
  <1>3. ASSUME Owner(v), RowKept(j)
        PROVE  /\ jobs'[j].status \notin {"NONE", "PENDING"}
               /\ jobs'[j].status = "PROCESSING" => jobs'[j].age <= workers[v].hold
    BY <1>1, <1>3 DEF RowKept, OwnersOutliveLease, Active
  <1>4. ASSUME NEW h \in Handlers, Request(h) \/ HandlerStep(h) \/ HandlerFault(h)
        PROVE  /\ jobs'[workers'[v].job].status \notin {"NONE", "PENDING"}
               /\ jobs'[workers'[v].job].status = "PROCESSING"
                     => jobs'[workers'[v].job].age <= workers'[v].hold
    <2>1. workers' = workers
      BY <1>4
      DEF Request, HandlerStep, HandlerFault, StoreUpload, ReadForReindex,
          FlushDelete, CommitUpload, Publish, ReadUnpublished, RecordUnpublished,
          MarkQueued, CommitReindex, ReindexRefused, PurgeObject, CommitDelete,
          UndoUpload, FailPublish, AbandonRequest
    <2>2. Owner(v)
      BY <2>1 DEF Owner
    <2>3. ~(Creating(h) /\ handlers[h].job = j)
      BY <2>2 DEF CreatorsHoldFreshJobs, OwnersOutliveLease
    <2>4. RowKept(j)
      BY <1>2, <1>4, <2>2, <2>3, ApiKeepsRows
    <2> QED BY <1>3, <2>1, <2>2, <2>4
  <1>5. ASSUME NEW w \in Workers,
               \/ \E m \in Messages : Receive(w, m)
               \/ WorkerStep(w)
               \/ WorkerFault(w)
        PROVE  /\ jobs'[workers'[v].job].status \notin {"NONE", "PENDING"}
               /\ jobs'[workers'[v].job].status = "PROCESSING"
                     => jobs'[workers'[v].job].age <= workers'[v].hold
    <2>1. /\ workers'[v].job = j
          /\ workers'[v].hold = workers[v].hold
          /\ Owner(v) \/ (v = w /\ Claim(w))
      BY <1>5, OwnersClaim
    <2>2. CASE Owner(v)
      <3>1. RowKept(j)
        BY <1>2, <1>5, <2>2, WorkerKeepsRows
      <3> QED BY <1>3, <2>1, <2>2, <3>1
    <2>3. CASE v = w /\ Claim(w)
      <3>1. j \in Jobs
        BY <2>3 DEF Claim, TypeInv, BusyWorkersHaveJob
      <3>2. jobs'[j] = ClaimedRow(jobs[j])
        BY <2>3, <3>1 DEF Claim, TypeInv, TypeOK
      <3>3. jobs'[j].status = "PROCESSING" /\ jobs'[j].age = 0
        BY <3>1, <3>2, WrittenFields DEF TypeInv, TypeOK
      <3> QED BY <1>1, <2>1, <3>3
    <2> QED BY <2>1, <2>2, <2>3
  <1>6. CASE Tick
    <2>1. /\ Owner(v)
          /\ workers'[v].job = j
          /\ workers[v].pc # "idle"
          /\ workers'[v].hold = Older(workers[v].hold, MaxHold)
          /\ workers'[v].hold >= workers[v].hold
      BY <1>6, TickAges DEF Owner, InTransaction
    <2>2. jobs[j].status \notin {"NONE", "PENDING"}
      BY <2>1 DEF OwnersOutliveLease
    <2>3. jobs'[j].status = jobs[j].status
      BY <1>2, <1>6, <2>1, TickAges
    <2>4. ASSUME jobs[j].status = "PROCESSING"
          PROVE  jobs'[j].age <= workers'[v].hold
      <3>1. jobs[j].age <= workers[v].hold
        BY <2>1, <2>4 DEF OwnersOutliveLease, Active
      <3>2. jobs'[j].age = Older(jobs[j].age, MaxAge)
        BY <1>2, <1>6, <2>1, <2>4, TickAges DEF Active
      <3>3. jobs[j].age \in 0..MaxAge
        BY <1>2, <2>1 DEF TypeInv, TypeOK, JobRow
      <3>4. MaxAge \in Nat /\ MaxHold \in Nat /\ MaxAge <= MaxHold
        BY IngestionAssumption DEF IngestionAssumption, MaxAge, MaxHold
      <3> QED BY <1>1, <2>1, <3>1, <3>2, <3>3, <3>4 DEF Older
    <2> QED BY <2>1, <2>2, <2>3, <2>4
  <1> QED BY <1>4, <1>5, <1>6 DEF Next

\* A job changes hands only to a retry, or from an owner that has outlived it.
LEMMA ExclusionStep ==
    ASSUME TypeInv, OwnersOutliveLease, LeaseExclusion, Next
    PROVE  LeaseExclusion'
  <1>1. ASSUME NEW h \in Handlers, Request(h) \/ HandlerStep(h) \/ HandlerFault(h)
        PROVE  LeaseExclusion'
    <2>1. workers' = workers
      BY <1>1
      DEF Request, HandlerStep, HandlerFault, StoreUpload, ReadForReindex,
          FlushDelete, CommitUpload, Publish, ReadUnpublished, RecordUnpublished,
          MarkQueued, CommitReindex, ReindexRefused, PurgeObject, CommitDelete,
          UndoUpload, FailPublish, AbandonRequest
    <2> QED BY <2>1 DEF LeaseExclusion, Owner
  <1>2. ASSUME NEW w \in Workers,
               \/ \E m \in Messages : Receive(w, m)
               \/ WorkerStep(w)
               \/ WorkerFault(w)
        PROVE  LeaseExclusion'
    <2>1. ASSUME NEW u \in Workers, Claim(w), Owner(u), u # w,
                 workers[u].job = workers[w].job
          PROVE  workers[u].hold > StaleAfter \/ workers[w].retries > 0
      <3> DEFINE j == workers[u].job
      <3>1. jobs[j].status \notin {"NONE", "PENDING"}
        BY <2>1 DEF OwnersOutliveLease
      <3>2. \/ workers[w].retries > 0
            \/ Active(j) /\ Stale(j)
        BY <2>1, <3>1 DEF Claim, Claimable
      <3>3. ASSUME Active(j), Stale(j) PROVE workers[u].hold > StaleAfter
        <4>1. jobs[j].age <= workers[u].hold
          BY <2>1, <3>3 DEF OwnersOutliveLease
        <4>2. j \in Jobs
          BY <2>1 DEF Owner, InTransaction, TypeInv, BusyWorkersHaveJob
        <4>3. jobs[j].age \in Nat /\ workers[u].hold \in Nat /\ StaleAfter \in Nat
          BY <4>2, IngestionAssumption
          DEF IngestionAssumption, TypeInv, TypeOK, JobRow, WorkerState, MaxHold,
              MaxAge
        <4> QED BY <3>3, <4>1, <4>3 DEF Stale
      <3> QED BY <3>2, <3>3
    <2> SUFFICES ASSUME NEW u \in Workers, NEW v \in Workers, u # v,
                        Owner(u)', Owner(v)', workers'[u].job = workers'[v].job
                 PROVE  \E t \in {u, v} :
                          workers'[t].hold > StaleAfter \/ workers'[t].retries > 0
      BY DEF LeaseExclusion
    <2>2. \A t \in {u, v} :
             /\ workers'[t].job = workers[t].job
             /\ workers'[t].retries = workers[t].retries
             /\ workers'[t].hold = workers[t].hold
             /\ Owner(t) \/ (t = w /\ Claim(w))
      BY <1>2, OwnersClaim
    <2>3. CASE Owner(u) /\ Owner(v)
      BY <2>2, <2>3 DEF LeaseExclusion
    <2>4. CASE Owner(u) /\ v = w /\ Claim(w)
      BY <2>1, <2>2, <2>4
    <2>5. CASE Owner(v) /\ u = w /\ Claim(w)
      BY <2>1, <2>2, <2>5
    <2> QED BY <2>2, <2>3, <2>4, <2>5
  <1>3. CASE Tick
    <2>1. \A u \in Workers :
             /\ workers'[u].pc = workers[u].pc
             /\ workers'[u].job = workers[u].job
             /\ workers'[u].retries = workers[u].retries
             /\ workers'[u].hold >= workers[u].hold
             /\ workers'[u].hold \in Nat
             /\ workers[u].hold \in Nat
      BY <1>3, TickAges, TickTyped, IngestionAssumption
      DEF IngestionAssumption, TypeInv, TypeOK, WorkerState, MaxHold, MaxAge
    <2>2. StaleAfter \in Nat
      BY IngestionAssumption DEF IngestionAssumption
    <2>3. \A u \in Workers :
             workers[u].hold > StaleAfter => workers'[u].hold > StaleAfter
      BY <2>1, <2>2
    <2> QED BY <2>1, <2>3 DEF LeaseExclusion, Owner
  <1> QED BY <1>1, <1>2, <1>3 DEF Next

\* Two workers run one job at a time only if one of them has outlived the lease
\* or runs a Celery retry: the guarantee of claim_ingestion_job_attempt, in
\* every interleaving with requests, crashes, redeliveries and lost writes.
THEOREM LeaseIsExclusive == Spec => []LeaseExclusion
  <1>1. Init => LeaseInv
    <2> SUFFICES ASSUME Init PROVE LeaseInv
      OBVIOUS
    <2>1. \A h \in Handlers : ~Creating(h)
      BY DEF Init, Creating, IdleHandler
    <2>2. \A w \in Workers : ~Owner(w)
      BY DEF Init, Owner, InTransaction, IdleWorker
    <2> QED
      BY <2>1, <2>2, InitTyped
      DEF LeaseInv, CreatorsHoldFreshJobs, OwnersOutliveLease, LeaseExclusion
  <1>2. LeaseInv /\ [Next]_vars => LeaseInv'
    <2>1. LeaseInv /\ Next => LeaseInv'
      BY TypeInvStep, CreatorsStep, OwnersStep, ExclusionStep DEF LeaseInv
    <2>2. LeaseInv /\ UNCHANGED vars => LeaseInv'
      <3> SUFFICES ASSUME LeaseInv, UNCHANGED vars PROVE LeaseInv'
        OBVIOUS
      <3>1. TypeInv'
        BY TypeInvStep DEF LeaseInv
      <3> QED
        BY <3>1
        DEF vars, LeaseInv, CreatorsHoldFreshJobs, Creating, OwnersOutliveLease,
            Owner, Active, LeaseExclusion
    <2> QED BY <2>1, <2>2
  <1>3. LeaseInv => LeaseExclusion
    BY DEF LeaseInv
  <1> QED BY <1>1, <1>2, <1>3, PTL DEF Spec

-----------------------------------------------------------------------------
(* Rows and the row locks *)

\* No status write makes a document row appear or disappear.
LEMMA SetDocumentKeeps ==
    ASSUME TypeOK, NEW d \in Documents, NEW status \in DocumentStatus,
           documents' = SetDocument(documents, d, status), NEW c \in Documents
    PROVE  DocumentExists(c)' <=> DocumentExists(c)
  BY DEF SetDocument, TypeOK, DocumentExists, DocumentStatus, Absent

\* A worker neither creates nor removes a document.
LEMMA WorkerKeepsDocuments ==
    ASSUME TypeInv, NEW w \in Workers, NEW d \in Documents,
           \/ \E m \in Messages : Receive(w, m)
           \/ WorkerStep(w)
           \/ WorkerFault(w)
    PROVE  DocumentExists(d)' <=> DocumentExists(d)
  <1>1. CASE documents' = documents
    BY <1>1 DEF DocumentExists
  <1>2. CASE CommitIndexed(w)
    <2>1. /\ DocumentOf[workers[w].job] \in Documents
          /\ documents' = SetDocument(documents, DocumentOf[workers[w].job], "INDEXED")
      BY <1>2, AttemptTyped DEF CommitIndexed
    <2> QED BY <2>1, SetDocumentKeeps DEF TypeInv, DocumentStatus
  <1>3. CASE PersistFailure(w)
    <2>1. /\ DocumentOf[workers[w].job] \in Documents
          /\ FailureStatus(w) \in DocumentStatus
          /\ \/ documents' = documents
             \/ documents' = SetDocument(documents, DocumentOf[workers[w].job],
                                         FailureStatus(w))
      BY <1>3, AttemptTyped DEF PersistFailure
    <2> QED BY <1>1, <2>1, SetDocumentKeeps DEF TypeInv
  <1> QED
    BY <1>1, <1>2, <1>3
    DEF database, WorkerStep, WorkerFault, Receive, Claim, Skip, JobMissing,
        ClaimRaises, BeginParsing, ReadObject, FailPipeline, ReadForFailure,
        LosePersist, PublishRetry, Acknowledge, CrashWorker, Redeliver

\* A request removes a document only by the deletion that has locked it.
LEMMA ApiKeepsDocuments ==
    ASSUME TypeInv, NEW h \in Handlers, NEW d \in Documents,
           Request(h) \/ HandlerStep(h) \/ HandlerFault(h),
           DocumentExists(d)
    PROVE  DocumentExists(d)' \/ (CommitDelete(h) /\ handlers[h].document = d)
  <1>1. CASE documents' = documents
    BY <1>1 DEF DocumentExists
  <1>2. CASE CommitUpload(h)
    BY <1>2 DEF CommitUpload, DocumentExists, Absent, TypeInv, TypeOK
  <1>3. CASE CommitReindex(h)
    BY <1>3 DEF CommitReindex, DocumentExists, Absent, TypeInv, TypeOK
  <1>4. CASE RecordUnpublished(h)
    <2>1. /\ handlers[h].document \in Documents
          /\ \/ documents' = documents
             \/ documents' = SetDocument(documents, handlers[h].document, "FAILED")
      BY <1>4, PublisherHasMessage DEF RecordUnpublished, TypeInv
    <2> QED BY <1>1, <2>1, SetDocumentKeeps DEF TypeInv, DocumentStatus
  <1>5. CASE CommitDelete(h)
    BY <1>5 DEF CommitDelete, DocumentExists, TypeInv, TypeOK
  <1> QED
    BY <1>1, <1>2, <1>3, <1>4, <1>5
    DEF database, Request, HandlerStep, HandlerFault, StoreUpload, ReadForReindex,
        FlushDelete, Publish, ReadUnpublished, MarkQueued, ReindexRefused,
        PurgeObject, UndoUpload, FailPublish, AbandonRequest

\* How a worker comes to be in a transaction.
LEMMA TransactionsBegin ==
    ASSUME TypeInv, NEW w \in Workers, NEW v \in Workers,
           \/ \E m \in Messages : Receive(w, m)
           \/ WorkerStep(w)
           \/ WorkerFault(w),
           workers'[v].pc \in InTransaction
    PROVE  /\ workers'[v].job = workers[v].job
           /\ workers[v].pc \in InTransaction \/ (v = w /\ BeginParsing(w))
  <1>1. Owner(v)'
    BY DEF Owner
  <1>2. workers'[v].job = workers[v].job /\ (Owner(v) \/ (v = w /\ Claim(w)))
    BY <1>1, OwnersClaim
  <1>3. CASE v # w
    <2>1. workers'[v] = workers[v]
      BY <1>3
      DEF TypeInv, TypeOK, WorkerStep, WorkerFault, Receive, Claim, Skip, JobMissing,
          ClaimRaises, BeginParsing, ReadObject, CommitIndexed, FailPipeline,
          ReadForFailure, PersistFailure, LosePersist, PublishRetry, Acknowledge,
          CrashWorker, Redeliver, Advance
    <2> QED BY <1>2, <2>1
  <1>4. CASE v = w /\ Claim(w)
    BY <1>4 DEF Claim, Advance, InTransaction, TypeInv, TypeOK, WorkerState
  <1>5. CASE v = w /\ Owner(w) /\ workers[w].pc \notin InTransaction
    <2>1. workers[w].pc = "claimed"
      BY <1>5 DEF Owner
    <2>2. CASE BeginParsing(w)
      BY <1>2, <1>5, <2>2
    <2>3. CASE FailPipeline(w) \/ CrashWorker(w) \/ Redeliver(w)
      <3>1. workers'[w].pc \notin InTransaction
        BY <2>1, <2>3
        DEF FailPipeline, CrashWorker, Redeliver, Advance, IdleWorker, InTransaction,
            TypeInv, TypeOK, WorkerState
      <3> QED BY <1>5, <3>1
    <2> QED
      BY <2>1, <2>2, <2>3
      DEF WorkerStep, WorkerFault, Receive, Claim, Skip, JobMissing, ClaimRaises,
          ReadObject, CommitIndexed, ReadForFailure, PersistFailure, LosePersist,
          PublishRetry, Acknowledge, InTransaction
  <1> QED BY <1>2, <1>3, <1>4, <1>5

\* Row locks exclude: a pipeline in its transaction and a deletion never hold
\* the same document, and the document stays while the pipeline runs.
LEMMA PipelinesStep ==
    ASSUME TypeInv, PipelinesLockDocument, Next
    PROVE  PipelinesLockDocument'
  <1> SUFFICES ASSUME NEW v \in Workers, workers'[v].pc \in InTransaction,
                      NEW d, d = DocumentOf[workers'[v].job]
               PROVE  DocumentExists(d)' /\ ~DeleteLocks(d)'
    BY DEF PipelinesLockDocument
  <1>1. workers[v].pc \in InTransaction
           => /\ workers[v].job \in Jobs
              /\ DocumentOf[workers[v].job] \in Documents
    BY IngestionAssumption
    DEF IngestionAssumption, InTransaction, TypeInv, BusyWorkersHaveJob
  <1>2. ASSUME NEW h \in Handlers, Request(h) \/ HandlerStep(h) \/ HandlerFault(h)
        PROVE  DocumentExists(d)' /\ ~DeleteLocks(d)'
    <2>1. workers' = workers
      BY <1>2
      DEF Request, HandlerStep, HandlerFault, StoreUpload, ReadForReindex,
          FlushDelete, CommitUpload, Publish, ReadUnpublished, RecordUnpublished,
          MarkQueued, CommitReindex, ReindexRefused, PurgeObject, CommitDelete,
          UndoUpload, FailPublish, AbandonRequest
    <2>2. workers[v].pc \in InTransaction /\ d \in Documents
      BY <1>1, <2>1
    <2>3. DocumentExists(d) /\ ~DeleteLocks(d) /\ PipelineLocks(d)
      BY <1>1, <2>1, <2>2
      DEF PipelinesLockDocument, PipelineLocks, PipelineLocksJob, WorkingOn
    <2>4. DocumentExists(d)'
      BY <1>2, <2>2, <2>3, ApiKeepsDocuments DEF CommitDelete, DeleteLocks
    <2>5. \A g \in Handlers \ {h} : handlers'[g] = handlers[g]
      BY <1>2
      DEF TypeInv, TypeOK, Request, HandlerStep, HandlerFault, StoreUpload,
          ReadForReindex, FlushDelete, CommitUpload, Publish, ReadUnpublished,
          RecordUnpublished, MarkQueued, CommitReindex, ReindexRefused,
          PurgeObject, CommitDelete, UndoUpload, FailPublish, AbandonRequest,
          Become, GoTo, Return
    <2>6. ~(/\ handlers'[h].pc \in {"purging", "deleting"}
            /\ handlers'[h].document = d)
      <3>1. CASE \E c \in Documents : FlushDelete(h, c)
        BY <3>1, <2>3 DEF FlushDelete, Become, DocumentLocked, TypeInv, TypeOK
      <3>2. CASE PurgeObject(h)
        BY <3>2, <2>3 DEF PurgeObject, GoTo, DeleteLocks, TypeInv, TypeOK, HandlerState
      <3>3. CASE ~((\E c \in Documents : FlushDelete(h, c)) \/ PurgeObject(h))
        <4>1. \/ handlers' = [handlers EXCEPT ![h] = IdleHandler]
              \/ \E pc \in HandlerPc \ {"purging", "deleting"} : GoTo(h, pc)
              \/ \E pc \in HandlerPc \ {"purging", "deleting"} : \E c, j, seen :
                    Become(h, pc, c, j, seen)
          BY <1>2, <3>3
          DEF Request, HandlerStep, HandlerFault, StoreUpload, ReadForReindex,
              CommitUpload, Publish, ReadUnpublished, RecordUnpublished,
              MarkQueued, CommitReindex, ReindexRefused, CommitDelete, UndoUpload,
              FailPublish, AbandonRequest, Return, HandlerPc
        <4>2. CASE handlers' = [handlers EXCEPT ![h] = IdleHandler]
          BY <4>2 DEF IdleHandler, TypeInv, TypeOK
        <4>3. CASE \E pc \in HandlerPc \ {"purging", "deleting"} : GoTo(h, pc)
          BY <4>3 DEF GoTo, TypeInv, TypeOK, HandlerState
        <4>4. CASE \E pc \in HandlerPc \ {"purging", "deleting"} : \E c, j, seen :
                      Become(h, pc, c, j, seen)
          BY <4>4 DEF Become, TypeInv, TypeOK
        <4> QED BY <4>1, <4>2, <4>3, <4>4
      <3> QED BY <3>1, <3>2, <3>3
    <2>7. ~DeleteLocks(d)'
      BY <2>3, <2>5, <2>6 DEF DeleteLocks
    <2> QED BY <2>1, <2>4, <2>7
  <1>3. ASSUME NEW w \in Workers,
               \/ \E m \in Messages : Receive(w, m)
               \/ WorkerStep(w)
               \/ WorkerFault(w)
        PROVE  DocumentExists(d)' /\ ~DeleteLocks(d)'
    <2>1. /\ workers'[v].job = workers[v].job
          /\ workers[v].pc \in InTransaction \/ (v = w /\ BeginParsing(w))
      BY <1>3, TransactionsBegin
    <2>2. d \in Documents
      BY <1>1, <2>1, AttemptTyped DEF BeginParsing
    <2>3. DocumentExists(d) /\ ~DeleteLocks(d)
      BY <2>1 DEF PipelinesLockDocument, BeginParsing, DocumentLocked
    <2>4. DocumentExists(d)'
      BY <1>3, <2>2, <2>3, WorkerKeepsDocuments
    <2>5. handlers' = handlers
      BY <1>3
      DEF WorkerStep, WorkerFault, Receive, Claim, Skip, JobMissing, ClaimRaises,
          BeginParsing, ReadObject, CommitIndexed, FailPipeline, ReadForFailure,
          PersistFailure, LosePersist, PublishRetry, Acknowledge, CrashWorker,
          Redeliver
    <2> QED BY <2>1, <2>3, <2>4, <2>5 DEF DeleteLocks
  <1>4. CASE Tick
    <2>1. workers[v].pc \in InTransaction /\ workers'[v].job = workers[v].job
      BY <1>4, TickAges
    <2> QED
      BY <1>4, <2>1
      DEF Tick, PipelinesLockDocument, DocumentExists, DeleteLocks
  <1> QED BY <1>2, <1>3, <1>4 DEF Next

\* A row appears with its document and disappears with it.
LEMMA RowsStep ==
    ASSUME TypeInv, CreatorsHoldFreshJobs, PipelinesLockDocument,
           NoRowsWithoutDocument, Next
    PROVE  NoRowsWithoutDocument'
  <1> SUFFICES ASSUME NEW d \in Documents, ~DocumentExists(d)',
                      NEW j \in Jobs, DocumentOf[j] = d
               PROVE  ~JobExists(j)'
    <2>1. ASSUME NEW d \in Documents, ~DocumentExists(d)'
          PROVE  d \notin chunks'
      <3>1. CASE d \notin chunks
        <4>1. ASSUME NEW w \in Workers, CommitIndexed(w),
                     d = DocumentOf[workers[w].job]
              PROVE  FALSE
          <5>1. DocumentExists(d)
            BY <4>1 DEF CommitIndexed, PipelinesLockDocument, InTransaction
          <5> QED
            BY <2>1, <4>1, <5>1, WorkerKeepsDocuments DEF WorkerStep
        <4> QED
          BY <3>1, <4>1
          DEF Next, Tick, database, Request, HandlerStep, HandlerFault, StoreUpload,
              ReadForReindex, FlushDelete, CommitUpload, Publish, ReadUnpublished,
              RecordUnpublished, MarkQueued, CommitReindex, ReindexRefused,
              PurgeObject, CommitDelete, UndoUpload, FailPublish, AbandonRequest,
              WorkerStep, WorkerFault, Receive, Claim, Skip, JobMissing,
              ClaimRaises, BeginParsing, ReadObject, CommitIndexed, FailPipeline,
              ReadForFailure, PersistFailure, LosePersist, PublishRetry,
              Acknowledge, CrashWorker, Redeliver
      <3>2. CASE d \in chunks
        <4>1. DocumentExists(d)
          BY <3>2 DEF NoRowsWithoutDocument
        <4>2. PICK h \in Handlers : CommitDelete(h) /\ handlers[h].document = d
          BY <2>1, <4>1, ApiKeepsDocuments, WorkerKeepsDocuments
          DEF Next, Tick, DocumentExists
        <4> QED BY <4>2 DEF CommitDelete
      <3> QED BY <3>1, <3>2
    <2> QED BY <2>1 DEF NoRowsWithoutDocument
  <1>1. ASSUME NEW h \in Handlers, Request(h) \/ HandlerStep(h) \/ HandlerFault(h)
        PROVE  ~JobExists(j)'
    <2>1. CASE DocumentExists(d)
      <3>1. CommitDelete(h) /\ handlers[h].document = d
        BY <1>1, <2>1, ApiKeepsDocuments
      <3> QED BY <3>1 DEF CommitDelete, JobExists, NoJobRow, NewJob, Absent
    <2>2. CASE ~DocumentExists(d)
      <3>1. ~JobExists(j)
        BY <2>2 DEF NoRowsWithoutDocument
      <3>2. CASE RowKept(j)
        BY <3>1, <3>2 DEF RowKept, JobExists
      <3>3. CASE Creating(h) /\ handlers[h].job = j /\ GoTo(h, "publishing")
        <4>1. handlers[h].document = d /\ handlers[h].pc \in {"stored", "reindexing"}
          BY <3>3 DEF Creating, TypeInv, BusyHandlersHaveWork
        <4>2. CASE jobs' = jobs
          BY <3>1, <4>2 DEF JobExists
        <4>3. CASE CommitUpload(h) \/ CommitReindex(h)
          <5>1. DocumentExists(d)'
            BY <4>1, <4>3
            DEF CommitUpload, CommitReindex, DocumentExists, Absent, TypeInv, TypeOK
          <5> QED BY <5>1
        <4> QED
          BY <1>1, <4>1, <4>2, <4>3
          DEF database, Request, HandlerStep, HandlerFault, StoreUpload,
              ReadForReindex, FlushDelete, Publish, ReadUnpublished,
              RecordUnpublished, MarkQueued, ReindexRefused, PurgeObject,
              CommitDelete, UndoUpload, FailPublish, AbandonRequest, Idle
      <3> QED BY <1>1, <3>2, <3>3, ApiKeepsRows
    <2> QED BY <2>1, <2>2
  <1>2. ASSUME NEW w \in Workers,
               \/ \E m \in Messages : Receive(w, m)
               \/ WorkerStep(w)
               \/ WorkerFault(w)
        PROVE  ~JobExists(j)'
    <2>1. ~DocumentExists(d)
      BY <1>2, WorkerKeepsDocuments
    <2>2. ~JobExists(j)
      BY <2>1 DEF NoRowsWithoutDocument
    <2>3. RowKept(j)
      BY <1>2, WorkerKeepsRows
    <2> QED BY <2>2, <2>3 DEF RowKept, JobExists
  <1>3. CASE Tick
    <2>1. ~DocumentExists(d) /\ jobs'[j].status = jobs[j].status
      BY <1>3, TickAges DEF Tick, DocumentExists
    <2> QED BY <2>1 DEF NoRowsWithoutDocument, JobExists
  <1> QED BY <1>1, <1>2, <1>3 DEF Next

\* A deleted document leaves no job and no chunk behind, whatever reindex
\* requests, workers, crashes and failed deletions were under way: what
\* delete_document and the cascading foreign keys promise.
THEOREM DeletionLeavesNoRows == Spec => []NoRowsWithoutDocument
  <1>1. Init => RowsInv
    <2> SUFFICES ASSUME Init PROVE RowsInv
      OBVIOUS
    <2>1. \A h \in Handlers : ~Creating(h)
      BY DEF Init, Creating, IdleHandler
    <2>2. \A w \in Workers : workers[w].pc \notin InTransaction
      BY DEF Init, InTransaction, IdleWorker
    <2>3. NoRowsWithoutDocument
      BY DEF Init, NoRowsWithoutDocument, JobExists, NoJobRow, NewJob, Absent
    <2> QED
      BY <2>1, <2>2, <2>3, InitTyped
      DEF RowsInv, CreatorsHoldFreshJobs, PipelinesLockDocument
  <1>2. RowsInv /\ [Next]_vars => RowsInv'
    <2>1. RowsInv /\ Next => RowsInv'
      BY TypeInvStep, CreatorsStep, PipelinesStep, RowsStep DEF RowsInv
    <2>2. RowsInv /\ UNCHANGED vars => RowsInv'
      <3> SUFFICES ASSUME RowsInv, UNCHANGED vars PROVE RowsInv'
        OBVIOUS
      <3>1. TypeInv'
        BY TypeInvStep DEF RowsInv
      <3> QED
        BY <3>1
        DEF vars, RowsInv, CreatorsHoldFreshJobs, Creating, PipelinesLockDocument,
            DocumentExists, DeleteLocks, NoRowsWithoutDocument, JobExists
    <2> QED BY <2>1, <2>2
  <1>3. RowsInv => NoRowsWithoutDocument
    BY DEF RowsInv
  <1> QED BY <1>1, <1>2, <1>3, PTL DEF Spec

-----------------------------------------------------------------------------
(* What a step of a request or of a worker writes *)

RequestMoves(h) == Request(h) \/ HandlerStep(h) \/ HandlerFault(h)

WorkerMoves(w) ==
    \/ \E m \in Messages : Receive(w, m)
    \/ WorkerStep(w)
    \/ WorkerFault(w)

\* The row of job j after a step of worker w.
WorkerWrites(w, j) ==
    \/ jobs'[j] = jobs[j]
    \/ /\ j = workers[w].job /\ JobExists(j)
       /\ \/ Claim(w) /\ jobs'[j] = ClaimedRow(jobs[j])
          \/ CommitIndexed(w) /\ jobs'[j] = WrittenRow(jobs[j], "INDEXED")
          \/ PersistFailure(w) /\ jobs'[j] = WrittenRow(jobs[j], FailureStatus(w))

\* The row of job j after a step of request h.
RequestWrites(h, j) ==
    \/ jobs'[j] = jobs[j]
    \/ /\ j = handlers[h].job
       /\ \/ (CommitUpload(h) \/ CommitReindex(h)) /\ jobs'[j] = NewJob
          \/ /\ RecordUnpublished(h) /\ JobExists(j)
             /\ jobs'[j] = WrittenRow(jobs[j], "FAILED")
          \/ MarkQueued(h) /\ JobExists(j) /\ jobs'[j] = QueuedRow(jobs[j])
    \/ /\ CommitDelete(h) /\ JobExists(j) /\ DocumentOf[j] = handlers[h].document
       /\ jobs'[j] = NoJobRow("DELETED")

\* The unconditional status write, row by row.
LEMMA SetJobWrites ==
    ASSUME TypeOK, NEW k \in Jobs, NEW status, NEW j \in Jobs,
           jobs' = SetJob(jobs, k, status)
    PROVE  \/ jobs'[j] = jobs[j]
           \/ j = k /\ JobExists(j) /\ jobs'[j] = WrittenRow(jobs[j], status)
  BY DEF SetJob, TypeOK, JobExists

\* A worker moves alone, and writes the row of its own job only.
LEMMA WorkerActs ==
    ASSUME TypeInv, NEW w \in Workers, WorkerMoves(w)
    PROVE  /\ handlers' = handlers /\ objects' = objects
           /\ \A v \in Workers \ {w} : workers'[v] = workers[v]
           /\ \A j \in Jobs : WorkerWrites(w, j)
  <1>1. /\ handlers' = handlers /\ objects' = objects
        /\ \A v \in Workers \ {w} : workers'[v] = workers[v]
    BY DEF TypeInv, TypeOK, WorkerMoves, WorkerStep, WorkerFault, Receive, Claim, Skip,
           JobMissing, ClaimRaises, BeginParsing, ReadObject, CommitIndexed,
           FailPipeline, ReadForFailure, PersistFailure, LosePersist, PublishRetry,
           Acknowledge, CrashWorker, Redeliver, Advance
  <1>2. ASSUME NEW j \in Jobs PROVE WorkerWrites(w, j)
    <2>1. CASE jobs' = jobs
      BY <2>1 DEF WorkerWrites
    <2>2. CASE Claim(w)
      BY <2>2 DEF Claim, WorkerWrites, TypeInv, TypeOK
    <2>3. CASE CommitIndexed(w)
      <3>1. workers[w].job \in Jobs /\ jobs' = SetJob(jobs, workers[w].job, "INDEXED")
        BY <2>3, AttemptTyped DEF CommitIndexed
      <3> QED BY <3>1, <2>3, SetJobWrites DEF WorkerWrites, TypeInv
    <2>4. CASE PersistFailure(w)
      <3>1. /\ workers[w].job \in Jobs
            /\ jobs' = SetJob(jobs, workers[w].job, FailureStatus(w))
        BY <2>4, AttemptTyped DEF PersistFailure
      <3> QED BY <3>1, <2>4, SetJobWrites DEF WorkerWrites, TypeInv
    <2> QED
      BY <2>1, <2>2, <2>3, <2>4
      DEF database, WorkerMoves, WorkerStep, WorkerFault, Receive, Skip, JobMissing,
          ClaimRaises, BeginParsing, ReadObject, FailPipeline, ReadForFailure,
          LosePersist, PublishRetry, Acknowledge, CrashWorker, Redeliver
  <1> QED BY <1>1, <1>2

\* A request moves alone, and writes the row of its own job or, when it
\* deletes a document, the rows of the document's jobs.
LEMMA RequestActs ==
    ASSUME TypeInv, NEW h \in Handlers, RequestMoves(h)
    PROVE  /\ workers' = workers
           /\ \A g \in Handlers \ {h} : handlers'[g] = handlers[g]
           /\ \A j \in Jobs : RequestWrites(h, j)
  <1>1. /\ workers' = workers
        /\ \A g \in Handlers \ {h} : handlers'[g] = handlers[g]
    BY DEF TypeInv, TypeOK, RequestMoves, Request, HandlerStep, HandlerFault,
           StoreUpload, ReadForReindex, FlushDelete, CommitUpload, Publish,
           ReadUnpublished, RecordUnpublished, MarkQueued, CommitReindex,
           ReindexRefused, PurgeObject, CommitDelete, UndoUpload, FailPublish,
           AbandonRequest, Become, GoTo, Return
  <1>2. ASSUME NEW j \in Jobs PROVE RequestWrites(h, j)
    <2>1. CASE jobs' = jobs
      BY <2>1 DEF RequestWrites
    <2>2. CASE CommitUpload(h) \/ CommitReindex(h)
      BY <2>2 DEF CommitUpload, CommitReindex, RequestWrites, TypeInv, TypeOK
    <2>3. CASE RecordUnpublished(h)
      <3>1. /\ handlers[h].job \in Jobs
            /\ jobs' = SetJob(jobs, handlers[h].job, "FAILED")
        BY <2>3, PublisherHasMessage DEF RecordUnpublished, TypeInv
      <3> QED BY <3>1, <2>3, SetJobWrites DEF RequestWrites, TypeInv
    <2>4. CASE MarkQueued(h)
      BY <2>4 DEF MarkQueued, RequestWrites, TypeInv, TypeOK
    <2>5. CASE CommitDelete(h)
      BY <2>5 DEF CommitDelete, RequestWrites
    <2> QED
      BY <2>1, <2>2, <2>3, <2>4, <2>5
      DEF database, RequestMoves, Request, HandlerStep, HandlerFault, StoreUpload,
          ReadForReindex, FlushDelete, Publish, ReadUnpublished, ReindexRefused,
          PurgeObject, UndoUpload, FailPublish, AbandonRequest
  <1> QED BY <1>1, <1>2

\* A request that goes on keeps its document and its job; otherwise it ends or
\* begins.
LEMMA RequestGoes ==
    ASSUME TypeInv, NEW h \in Handlers, RequestMoves(h)
    PROVE  \/ handlers'[h] = IdleHandler
           \/ /\ handlers'[h].document = handlers[h].document
              /\ handlers'[h].job = handlers[h].job
              /\ ~Idle(h)
              /\ handlers'[h].pc \in {"publishing", "unpublished", "recording",
                                      "marking", "deleting"}
           \/ \E j \in Jobs : /\ StoreUpload(h, j) \/ ReadForReindex(h, j)
                              /\ handlers'[h].job = j
                              /\ handlers'[h].document = DocumentOf[j]
                              /\ Creating(h)'
           \/ \E d \in Documents : /\ FlushDelete(h, d)
                                   /\ handlers'[h].document = d
                                   /\ handlers'[h].job = NoJob
                                   /\ handlers'[h].pc = "purging"
  <1> USE DEF TypeInv, TypeOK, Idle
  <1>1. CASE \/ \E j \in Jobs : StoreUpload(h, j) \/ ReadForReindex(h, j)
             \/ \E d \in Documents : FlushDelete(h, d)
    BY <1>1 DEF StoreUpload, ReadForReindex, FlushDelete, Become, Creating
  <1>2. CASE \/ RecordUnpublished(h) \/ MarkQueued(h) \/ ReindexRefused(h)
             \/ CommitDelete(h) \/ UndoUpload(h) \/ AbandonRequest(h)
    BY <1>2 DEF RecordUnpublished, MarkQueued, ReindexRefused, CommitDelete,
                UndoUpload, AbandonRequest, Return
  <1>3. CASE \/ CommitUpload(h) \/ Publish(h) \/ CommitReindex(h) \/ PurgeObject(h)
             \/ FailPublish(h)
    <2>1. \E pc \in {"publishing", "unpublished", "marking", "deleting"} : GoTo(h, pc)
      BY <1>3 DEF CommitUpload, Publish, CommitReindex, PurgeObject, FailPublish
    <2>2. ~Idle(h)
      BY <1>3 DEF CommitUpload, Publish, CommitReindex, PurgeObject, FailPublish
    <2> QED BY <2>1, <2>2 DEF GoTo, HandlerState
  <1>4. CASE ReadUnpublished(h)
    BY <1>4 DEF ReadUnpublished, Become
  <1> QED
    BY <1>1, <1>2, <1>3, <1>4 DEF RequestMoves, Request, HandlerStep, HandlerFault

\* What a step of a request puts into the queue.
LEMMA RequestQueues ==
    ASSUME TypeInv, NEW h \in Handlers, RequestMoves(h)
    PROVE  \/ queue' = queue
           \/ /\ Publish(h) \/ FailPublish(h)
              /\ handlers[h].pc = "publishing" /\ handlers[h].job \in Jobs
              /\ <<handlers[h].job, 0>> \in Messages
              /\ queue' = Enqueue(queue, <<handlers[h].job, 0>>)
  <1>1. CASE Publish(h) \/ FailPublish(h)
    BY <1>1, PublisherHasMessage DEF Publish, FailPublish, TypeInv
  <1> QED
    BY <1>1
    DEF RequestMoves, Request, HandlerStep, HandlerFault, StoreUpload, ReadForReindex,
        FlushDelete, CommitUpload, ReadUnpublished, RecordUnpublished, MarkQueued,
        CommitReindex, ReindexRefused, PurgeObject, CommitDelete, UndoUpload,
        AbandonRequest

\* What a step of a worker takes from the queue, or puts into it.
LEMMA WorkerQueues ==
    ASSUME TypeInv, NEW w \in Workers, WorkerMoves(w)
    PROVE  \/ queue' = queue
           \/ \E m \in Messages : Receive(w, m)
           \/ /\ PublishRetry(w) \/ CrashWorker(w) \/ Redeliver(w)
              /\ workers[w].pc # "idle" /\ workers[w].job \in Jobs
              /\ \E r \in 0..(MaxRetries + 1) :
                    queue' = Enqueue(queue, <<workers[w].job, r>>)
  <1>1. CASE PublishRetry(w) \/ CrashWorker(w) \/ Redeliver(w)
    <2>1. workers[w].pc # "idle" /\ workers[w].job \in Jobs
      BY <1>1 DEF PublishRetry, CrashWorker, Redeliver, TypeInv, BusyWorkersHaveJob
    <2>2. /\ workers[w].retries \in 0..(MaxRetries + 1)
          /\ workers[w].retries + 1 \in 0..(MaxRetries + 1)
      BY IngestionAssumption DEF IngestionAssumption, TypeInv, TypeOK, WorkerState
    <2> QED
      BY <1>1, <2>1, <2>2 DEF PublishRetry, CrashWorker, Redeliver, Redelivered
  <1> QED
    BY <1>1
    DEF WorkerMoves, WorkerStep, WorkerFault, Claim, Skip, JobMissing, ClaimRaises,
        BeginParsing, ReadObject, CommitIndexed, FailPipeline, ReadForFailure,
        PersistFailure, LosePersist, Acknowledge

\* The copies of one message after another is put into the queue or taken.
LEMMA CopiesOf ==
    ASSUME TypeOK, NEW m \in Messages, NEW n
    PROVE  /\ n # m => Enqueue(queue, n)[m] = queue[m] /\ Dequeue(queue, n)[m] = queue[m]
           /\ n = m => Enqueue(queue, n)[m] = queue[m] + 1
           /\ n = m => Dequeue(queue, n)[m] = queue[m] - 1
           /\ queue[m] \in Nat
  BY DEF TypeOK, Enqueue, Dequeue

\* The job that a worker holds after a step: its own, none, or the one of the
\* message it has just received.
LEMMA WorkerHolds ==
    ASSUME TypeInv, NEW w \in Workers, WorkerMoves(w)
    PROVE  \/ workers'[w] = IdleWorker
           \/ workers[w].pc # "idle" /\ workers'[w].job = workers[w].job
              /\ workers'[w].retries = workers[w].retries
           \/ \E m \in Messages : /\ Receive(w, m) /\ queue[m] > 0
                                  /\ workers'[w].job = m[1]
                                  /\ workers'[w].retries = m[2]
                                  /\ workers'[w].pc = "received"
  <1> USE DEF TypeInv, TypeOK, WorkerState
  <1>1. ASSUME NEW m \in Messages, Receive(w, m)
        PROVE  /\ queue[m] > 0
               /\ workers'[w].job = m[1] /\ workers'[w].retries = m[2]
               /\ workers'[w].pc = "received"
    <2> DEFINE received == [pc |-> "received", job |-> m[1], retries |-> m[2],
                            seen |-> "NONE", hold |-> 0, message |-> "held"]
    <2>1. workers'[w] = received /\ queue[m] > 0
      BY <1>1 DEF Receive
    <2> QED BY <2>1
  <1>2. CASE Acknowledge(w) \/ CrashWorker(w)
    BY <1>2 DEF Acknowledge, CrashWorker
  <1>3. CASE ReadForFailure(w) \/ Redeliver(w)
    BY <1>3 DEF ReadForFailure, Redeliver
  <1>4. CASE \/ Claim(w) \/ Skip(w) \/ JobMissing(w) \/ ClaimRaises(w)
             \/ BeginParsing(w) \/ ReadObject(w) \/ CommitIndexed(w)
             \/ FailPipeline(w) \/ PersistFailure(w) \/ LosePersist(w)
             \/ PublishRetry(w)
    <2>1. workers[w].pc # "idle" /\ \E pc : Advance(w, pc)
      BY <1>4
      DEF Claim, Skip, JobMissing, ClaimRaises, BeginParsing, ReadObject,
          CommitIndexed, FailPipeline, InTransaction, PersistFailure, LosePersist,
          PublishRetry
    <2> QED BY <2>1 DEF Advance
  <1> QED BY <1>1, <1>2, <1>3, <1>4 DEF WorkerMoves, WorkerStep, WorkerFault

-----------------------------------------------------------------------------
(* Jobs that are not created yet *)

\* Nobody but its creator knows the identity of a job without a row.
FreshJobsAreUnknown ==
    \A j \in Jobs : jobs[j].status = "NONE" =>
        /\ \A r \in 0..MaxRetries : queue[<<j, r>>] = 0
        /\ WorkingOn(j) = {}
        /\ \A h \in Handlers : handlers[h].job = j => Creating(h)

LEMMA FreshStep ==
    ASSUME TypeInv, CreatorsHoldFreshJobs, FreshJobsAreUnknown, Next
    PROVE  FreshJobsAreUnknown'
  <1> SUFFICES ASSUME NEW j \in Jobs, jobs'[j].status = "NONE"
               PROVE  /\ \A r \in 0..MaxRetries : queue'[<<j, r>>] = 0
                      /\ \A v \in Workers : workers'[v].job # j
                      /\ \A h \in Handlers : handlers'[h].job = j => Creating(h)'
    BY DEF FreshJobsAreUnknown, WorkingOn
  <1>a. \A r \in 0..MaxRetries : <<j, r>> \in Messages
    BY DEF Messages
  <1>b. j # NoJob
    BY IngestionAssumption DEF IngestionAssumption
  <1>c. jobs[j].status = "NONE" =>
           /\ \A r \in 0..MaxRetries : queue[<<j, r>>] = 0
           /\ \A v \in Workers : workers[v].job # j
           /\ \A h \in Handlers : handlers[h].job = j => Creating(h)
    BY DEF FreshJobsAreUnknown, WorkingOn
  <1>1. ASSUME NEW h \in Handlers, RequestMoves(h)
        PROVE  /\ \A r \in 0..MaxRetries : queue'[<<j, r>>] = 0
               /\ \A v \in Workers : workers'[v].job # j
               /\ \A g \in Handlers : handlers'[g].job = j => Creating(g)'
    <2>1. RequestWrites(h, j) /\ jobs[j] \in JobRow
      BY <1>1, RequestActs DEF TypeInv, TypeOK
    <2>2. jobs[j].status = "NONE"
      BY <2>1, WrittenFields DEF RequestWrites, NewJob, JobExists, Absent
    <2>3. ~((CommitUpload(h) \/ CommitReindex(h)) /\ handlers[h].job = j)
      <3>1. ASSUME (CommitUpload(h) \/ CommitReindex(h)) /\ handlers[h].job = j
            PROVE  jobs'[j] = NewJob
        BY <3>1 DEF CommitUpload, CommitReindex, TypeInv, TypeOK
      <3> QED BY <3>1 DEF NewJob
    <2>4. \A r \in 0..MaxRetries : queue'[<<j, r>>] = 0
      <3>1. CASE queue' = queue
        BY <3>1, <2>2, <1>c
      <3>2. CASE /\ handlers[h].pc = "publishing" /\ handlers[h].job \in Jobs
                 /\ queue' = Enqueue(queue, <<handlers[h].job, 0>>)
        <4>1. handlers[h].job # j
          BY <3>2, <2>2, <1>c DEF Creating
        <4> QED BY <3>2, <4>1, <1>a, <1>c, <2>2, CopiesOf DEF TypeInv
      <3> QED BY <1>1, <3>1, <3>2, RequestQueues
    <2>5. \A v \in Workers : workers'[v].job # j
      BY <1>1, <1>c, <2>2, RequestActs
    <2>6. ASSUME NEW g \in Handlers, handlers'[g].job = j
          PROVE  Creating(g)'
      <3>1. CASE g # h
        BY <3>1, <2>6, <2>2, <1>c, <1>1, RequestActs DEF Creating
      <3>2. CASE g = h
        <4>1. handlers[h].job = j => Creating(h)
          BY <1>c, <2>2
        <4>2. ASSUME ~Idle(h), handlers[h].job = j, handlers'[h].job = j,
                     handlers'[h].pc \in {"publishing", "unpublished", "recording",
                                          "marking", "deleting"}
              PROVE  FALSE
          <5>1. Creating(h)
            BY <4>1, <4>2
          <5>2. CASE UndoUpload(h) \/ AbandonRequest(h) \/ ReindexRefused(h)
            BY <5>2, <4>2
            DEF UndoUpload, AbandonRequest, ReindexRefused, Return, IdleHandler,
                TypeInv, TypeOK
          <5> QED
            BY <1>1, <2>3, <4>2, <5>1, <5>2
            DEF Creating, Idle, RequestMoves, Request, HandlerStep, HandlerFault,
                StoreUpload, ReadForReindex, FlushDelete, Publish, ReadUnpublished,
                RecordUnpublished, MarkQueued, PurgeObject, CommitDelete, FailPublish
        <4> QED BY <1>1, <1>b, <2>6, <3>2, <4>2, RequestGoes DEF IdleHandler
      <3> QED BY <3>1, <3>2
    <2> QED BY <2>4, <2>5, <2>6
  <1>2. ASSUME NEW w \in Workers, WorkerMoves(w)
        PROVE  /\ \A r \in 0..MaxRetries : queue'[<<j, r>>] = 0
               /\ \A v \in Workers : workers'[v].job # j
               /\ \A g \in Handlers : handlers'[g].job = j => Creating(g)'
    <2>1. WorkerWrites(w, j) /\ jobs[j] \in JobRow
      BY <1>2, WorkerActs DEF TypeInv, TypeOK
    <2>2. jobs[j].status = "NONE"
      BY <2>1, WrittenFields DEF WorkerWrites, FailureStatus, Absent
    <2>3. \A m \in Messages : queue[m] > 0 => m[1] # j
      BY <1>c, <2>2 DEF Messages
    <2>4. \A r \in 0..MaxRetries : queue'[<<j, r>>] = 0
      <3>1. CASE queue' = queue
        BY <3>1, <2>2, <1>c
      <3>2. ASSUME NEW m \in Messages, Receive(w, m)
            PROVE  \A r \in 0..MaxRetries : queue'[<<j, r>>] = 0
        <4>1. m[1] # j /\ queue' = Dequeue(queue, m)
          BY <3>2, <2>3 DEF Receive
        <4>2. \A r \in 0..MaxRetries : m # <<j, r>>
          BY <4>1
        <4> QED BY <4>1, <4>2, <1>a, <1>c, <2>2, CopiesOf DEF TypeInv
      <3>3. ASSUME NEW r, queue' = Enqueue(queue, <<workers[w].job, r>>)
            PROVE  \A s \in 0..MaxRetries : queue'[<<j, s>>] = 0
        <4>1. \A s \in 0..MaxRetries : <<workers[w].job, r>> # <<j, s>>
          BY <2>2, <1>c
        <4> QED BY <3>3, <4>1, <1>a, <1>c, <2>2, CopiesOf DEF TypeInv
      <3> QED BY <1>2, <3>1, <3>2, <3>3, WorkerQueues
    <2>5. \A v \in Workers : workers'[v].job # j
      <3>1. workers'[w].job # j
        BY <1>2, <1>b, <1>c, <2>2, <2>3, WorkerHolds DEF IdleWorker
      <3> QED BY <3>1, <1>2, <1>c, <2>2, WorkerActs
    <2> QED BY <1>2, <2>4, <2>5, <1>c, <2>2, WorkerActs DEF Creating
  <1>3. CASE Tick
    <2>1. jobs[j].status = "NONE" /\ queue' = queue /\ handlers' = handlers
      BY <1>3, TickAges DEF Tick
    <2>2. \A v \in Workers : workers'[v].job = workers[v].job
      BY <1>3, TickAges
    <2> QED BY <1>c, <2>1, <2>2 DEF Creating
  <1> QED BY <1>1, <1>2, <1>3 DEF Next, RequestMoves, WorkerMoves

-----------------------------------------------------------------------------
(* Who carries an unfinished job *)

\* The faults after which a job may be left to nobody, and which the carriers
\* below exclude: a process dies, or a worker's transaction fails.
NoLosses == Faults \intersect {"worker_crash", "database", "api"} = {}

\* A worker between its claim, or the discovery that the job is gone, and the
\* end of the attempt.
Attempting(w) == workers[w].pc \in {"claimed", "parsing", "embedding", "failing",
                                    "persisting", "retrying"}

\* The task id of a job under way is known to the row, so that a retry is
\* recognised; the attempt's job is claimed or deleted.
TaskIsKnown ==
    /\ \A j \in Jobs : jobs[j].status = "PROCESSING" => jobs[j].task = "queued"
    /\ \A w \in Workers : Attempting(w) =>
          \/ jobs[workers[w].job].status = "DELETED"
          \/ /\ jobs[workers[w].job].status # "PENDING"
             /\ jobs[workers[w].job].task = "queued"

\* The attempt that is to be retried was not the last one.
RetriesRemain ==
    \A w \in Workers : workers[w].pc = "retrying" => workers[w].retries < MaxRetries

CarrierInv ==
    /\ TypeInv
    /\ CreatorsHoldFreshJobs
    /\ FreshJobsAreUnknown
    /\ TaskIsKnown
    /\ RetriesRemain
    /\ InFlightJobHasCarrier

\* The other fields of the values written.
LEMMA KeptFields ==
    ASSUME NEW row \in JobRow, NEW status
    PROVE  /\ WrittenRow(row, status).task = row.task
           /\ WrittenRow(row, status).attempts = row.attempts
           /\ QueuedRow(row).task = "queued"
           /\ QueuedRow(row).attempts = row.attempts
           /\ ClaimedRow(row).task = "queued"
           /\ ClaimedRow(row).attempts = row.attempts + 1
  BY DEF JobRow, WrittenRow, QueuedRow, ClaimedRow

\* Time changes nothing in a row but its age.
LEMMA TickKeepsRows ==
    ASSUME TypeInv, Tick, NEW j \in Jobs
    PROVE  /\ jobs'[j].status = jobs[j].status
           /\ jobs'[j].task = jobs[j].task
           /\ jobs'[j].attempts = jobs[j].attempts
  BY DEF Tick, TypeInv, TypeOK, JobRow

\* How an attempt begins, and when it is to be retried.
LEMMA AttemptsBegin ==
    ASSUME TypeInv, NEW w \in Workers, WorkerMoves(w), Attempting(w)'
    PROVE  /\ workers[w].pc # "idle"
           /\ workers'[w].job = workers[w].job
           /\ workers'[w].retries = workers[w].retries
           /\ Attempting(w) \/ Claim(w) \/ JobMissing(w) \/ ClaimRaises(w)
           /\ workers'[w].pc = "retrying" =>
                 \/ workers[w].pc = "retrying"
                 \/ ~FinalAttempt(w)
  <1> USE DEF TypeInv, TypeOK, WorkerState, Attempting
  <1>1. ~(Acknowledge(w) \/ CrashWorker(w) \/ Skip(w) \/ CommitIndexed(w)
          \/ PublishRetry(w) \/ \E m \in Messages : Receive(w, m))
    <2>1. ASSUME NEW m \in Messages, Receive(w, m) PROVE workers'[w].pc = "received"
      BY <2>1, WorkerHolds DEF Receive
    <2> QED
      BY <2>1 DEF Acknowledge, CrashWorker, IdleWorker, Skip, CommitIndexed,
                  PublishRetry, Advance
  <1>2. /\ workers[w].pc # "idle"
        /\ workers'[w].job = workers[w].job
        /\ workers'[w].retries = workers[w].retries
    BY <1>1, WorkerHolds DEF IdleWorker
  <1>3. Attempting(w) \/ Claim(w) \/ JobMissing(w) \/ ClaimRaises(w)
    <2>1. Redeliver(w) => workers'[w].pc = workers[w].pc
      BY DEF Redeliver
    <2> QED
      BY <1>1, <2>1
      DEF WorkerMoves, WorkerStep, WorkerFault, BeginParsing, ReadObject, FailPipeline,
          InTransaction, ReadForFailure, PersistFailure, LosePersist
  <1>4. workers'[w].pc = "retrying" => workers[w].pc = "retrying" \/ ~FinalAttempt(w)
    <2>1. Redeliver(w) => workers'[w].pc = workers[w].pc
      BY DEF Redeliver
    <2>2. PersistFailure(w) \/ LosePersist(w) =>
             (workers'[w].pc = "retrying" => ~FinalAttempt(w))
      BY DEF PersistFailure, LosePersist, Advance, AfterFailure
    <2>3. ReadForFailure(w) => workers'[w].pc = "persisting"
      BY DEF ReadForFailure
    <2> QED
      BY <1>1, <2>1, <2>2, <2>3
      DEF WorkerMoves, WorkerStep, WorkerFault, Claim, JobMissing, ClaimRaises,
          BeginParsing, ReadObject, FailPipeline, Advance
  <1> QED BY <1>2, <1>3, <1>4

LEMMA RetriesStep ==
    ASSUME TypeInv, RetriesRemain, Next
    PROVE  RetriesRemain'
  <1> SUFFICES ASSUME NEW v \in Workers, workers'[v].pc = "retrying"
               PROVE  workers'[v].retries < MaxRetries
    BY DEF RetriesRemain
  <1>1. ASSUME NEW h \in Handlers, RequestMoves(h)
        PROVE  workers'[v].retries < MaxRetries
    BY <1>1, RequestActs DEF RetriesRemain
  <1>2. ASSUME NEW w \in Workers, WorkerMoves(w)
        PROVE  workers'[v].retries < MaxRetries
    <2>1. CASE v # w
      BY <2>1, <1>2, WorkerActs DEF RetriesRemain
    <2>2. CASE v = w
      <3>1. Attempting(w)'
        BY <2>2 DEF Attempting
      <3>2. /\ workers'[w].retries = workers[w].retries
            /\ workers[w].pc = "retrying" \/ ~FinalAttempt(w)
        BY <1>2, <2>2, <3>1, AttemptsBegin
      <3>3. workers[w].retries \in Nat /\ MaxRetries \in Nat
        BY IngestionAssumption DEF IngestionAssumption, TypeInv, TypeOK, WorkerState
      <3> QED BY <2>2, <3>2, <3>3 DEF RetriesRemain, FinalAttempt
    <2> QED BY <2>1, <2>2
  <1>3. CASE Tick
    BY <1>3, TickAges DEF RetriesRemain
  <1> QED BY <1>1, <1>2, <1>3 DEF Next, RequestMoves, WorkerMoves

LEMMA TaskStep ==
    ASSUME NoLosses, TypeInv, CreatorsHoldFreshJobs, FreshJobsAreUnknown, TaskIsKnown,
           Next
    PROVE  TaskIsKnown'
  <1>a. \A v \in Workers : Attempting(v) =>
           /\ workers[v].job \in Jobs
           /\ jobs[workers[v].job].status # "NONE"
           /\ \/ jobs[workers[v].job].status = "DELETED"
              \/ /\ jobs[workers[v].job].status # "PENDING"
                 /\ jobs[workers[v].job].task = "queued"
    BY DEF Attempting, TypeInv, BusyWorkersHaveJob, FreshJobsAreUnknown, WorkingOn,
           TaskIsKnown
  <1>b. \A j \in Jobs : jobs[j] \in JobRow
    BY DEF TypeInv, TypeOK
  <1>1. ASSUME NEW h \in Handlers, RequestMoves(h)
        PROVE  TaskIsKnown'
    <2>1. ASSUME NEW j \in Jobs, jobs'[j].status = "PROCESSING"
          PROVE  jobs'[j].task = "queued"
      <3>1. RequestWrites(h, j)
        BY <1>1, RequestActs
      <3> QED
        BY <2>1, <3>1, <1>b, WrittenFields, KeptFields
        DEF RequestWrites, TaskIsKnown, NewJob
    <2>2. ASSUME NEW v \in Workers, Attempting(v)'
          PROVE  \/ jobs'[workers'[v].job].status = "DELETED"
                 \/ /\ jobs'[workers'[v].job].status # "PENDING"
                    /\ jobs'[workers'[v].job].task = "queued"
      <3> DEFINE j == workers[v].job
      <3>1. workers' = workers /\ Attempting(v)
        BY <1>1, <2>2, RequestActs DEF Attempting
      <3>2. RequestWrites(h, j)
        BY <1>1, <1>a, <3>1, RequestActs
      <3>3. ~(CommitUpload(h) \/ CommitReindex(h)) \/ j # handlers[h].job
        BY <1>a, <3>1 DEF CommitUpload, CommitReindex, CreatorsHoldFreshJobs, Creating
      <3>4. j \in Jobs /\ jobs[j] \in JobRow
        BY <1>a, <1>b, <3>1
      <3>5. \/ jobs'[j].status = "DELETED"
            \/ jobs'[j].status # "PENDING" /\ jobs'[j].task = "queued"
        BY <1>a, <3>1, <3>2, <3>3, <3>4, WrittenFields, KeptFields
        DEF RequestWrites, JobExists, Absent
      <3> QED BY <3>1, <3>5
    <2> QED BY <2>1, <2>2 DEF TaskIsKnown
  <1>2. ASSUME NEW w \in Workers, WorkerMoves(w)
        PROVE  TaskIsKnown'
    <2>1. ASSUME NEW j \in Jobs, jobs'[j].status = "PROCESSING"
          PROVE  jobs'[j].task = "queued"
      <3>1. WorkerWrites(w, j)
        BY <1>2, WorkerActs
      <3>2. PersistFailure(w) /\ j = workers[w].job /\ JobExists(j)
               => jobs[j].task = "queued"
        BY <1>a DEF PersistFailure, Attempting, JobExists, Absent
      <3> QED
        BY <2>1, <3>1, <3>2, <1>b, WrittenFields, KeptFields
        DEF WorkerWrites, TaskIsKnown
    <2>2. ASSUME NEW v \in Workers, Attempting(v)'
          PROVE  \/ jobs'[workers'[v].job].status = "DELETED"
                 \/ /\ jobs'[workers'[v].job].status # "PENDING"
                    /\ jobs'[workers'[v].job].task = "queued"
      <3> DEFINE j == workers[v].job
      <3>1. /\ workers'[v].job = j
            /\ workers[v].pc # "idle"
            /\ Attempting(v) \/ (v = w /\ (Claim(w) \/ JobMissing(w)))
        <4>1. CASE v # w
          BY <4>1, <1>2, <2>2, WorkerActs DEF Attempting
        <4>2. CASE v = w
          <5>1. ~ClaimRaises(w)
            BY DEF ClaimRaises, Inject, NoLosses
          <5> QED BY <4>2, <5>1, <1>2, <2>2, AttemptsBegin
        <4> QED BY <4>1, <4>2
      <3>2. j \in Jobs /\ jobs[j] \in JobRow /\ jobs[j].status # "NONE"
        BY <1>b, <3>1
        DEF TypeInv, BusyWorkersHaveJob, FreshJobsAreUnknown, WorkingOn
      <3>3. WorkerWrites(w, j)
        BY <1>2, <3>2, WorkerActs
      <3>4. CASE Attempting(v)
        BY <3>1, <3>2, <3>3, <3>4, <1>a, WrittenFields, KeptFields
        DEF WorkerWrites, JobExists, Absent, FailureStatus
      <3>5. CASE v = w /\ Claim(w)
        <4>1. jobs'[j] = ClaimedRow(jobs[j])
          BY <3>2, <3>5 DEF Claim, TypeInv, TypeOK
        <4> QED BY <3>1, <3>2, <4>1, WrittenFields, KeptFields
      <3>6. CASE v = w /\ JobMissing(w)
        BY <3>1, <3>2, <3>6 DEF JobMissing, JobExists, Absent, database
      <3> QED BY <3>1, <3>4, <3>5, <3>6
    <2> QED BY <2>1, <2>2 DEF TaskIsKnown
  <1>3. CASE Tick
    <2>1. \A j \in Jobs : /\ jobs'[j].status = jobs[j].status
                          /\ jobs'[j].task = jobs[j].task
      BY <1>3, TickKeepsRows
    <2>2. \A v \in Workers : /\ workers'[v].pc = workers[v].pc
                             /\ workers'[v].job = workers[v].job
      BY <1>3, TickAges
    <2> QED BY <2>1, <2>2, <1>a DEF TaskIsKnown, Attempting
  <1> QED BY <1>1, <1>2, <1>3 DEF Next, RequestMoves, WorkerMoves

\* The read before a failure is recorded moves the worker on, with its job.
LEMMA ReadMoves ==
    ASSUME TypeInv, NEW w \in Workers, ReadForFailure(w)
    PROVE  /\ workers'[w].pc = "persisting"
           /\ workers'[w].job = workers[w].job
           /\ workers'[w].retries = workers[w].retries
  <1> DEFINE moved == [workers[w] EXCEPT !.pc = "persisting"]
             read  == [moved EXCEPT !.seen = documents[DocumentOf[workers[w].job]]]
  <1>1. /\ moved.pc = "persisting" /\ moved.job = workers[w].job
        /\ moved.retries = workers[w].retries /\ moved \in WorkerState
    BY DEF TypeInv, TypeOK, WorkerState, WorkerPc
  <1>2. /\ read.pc = moved.pc /\ read.job = moved.job /\ read.retries = moved.retries
    BY <1>1 DEF WorkerState
  <1>3. workers'[w] = read
    BY DEF ReadForFailure, TypeInv, TypeOK
  <1> HIDE DEF moved, read
  <1> QED BY <1>1, <1>2, <1>3

\* A step of a request passes the job on: to the broker, to the record of the
\* failed publication, or to the request that has just created it.
LEMMA RequestCarries ==
    ASSUME NoLosses, CarrierInv, NEW h \in Handlers, RequestMoves(h), NEW j \in Jobs
    PROVE  /\ jobs'[j].status = "PENDING" => CarriesPending(j)'
           /\ jobs'[j].status = "PROCESSING" => CarriesProcessing(j)'
  <1> USE DEF CarrierInv
  <1>1. /\ RequestWrites(h, j) /\ jobs[j] \in JobRow
        /\ workers' = workers
        /\ \A g \in Handlers \ {h} : handlers'[g] = handlers[g]
    BY RequestActs DEF TypeInv, TypeOK
  <1>2. \A r \in 0..MaxRetries : queue[<<j, r>>] > 0 => queue'[<<j, r>>] > 0
    <2>1. \A r \in 0..MaxRetries : <<j, r>> \in Messages
      BY DEF Messages
    <2>2. ASSUME NEW r \in 0..MaxRetries, queue[<<j, r>>] > 0,
                 queue' = Enqueue(queue, <<handlers[h].job, 0>>)
          PROVE  queue'[<<j, r>>] > 0
      BY <2>1, <2>2, CopiesOf DEF TypeInv
    <2> QED BY <2>2, RequestQueues
  <1>3. ASSUME jobs'[j].status = "PENDING"
        PROVE  CarriesPending(j)'
    <2>1. CASE (CommitUpload(h) \/ CommitReindex(h)) /\ j = handlers[h].job
      <3>1. handlers'[h].pc = "publishing" /\ handlers'[h].job = j
        BY <2>1 DEF CommitUpload, CommitReindex, GoTo, TypeInv, TypeOK, HandlerState
      <3> QED BY <3>1 DEF CarriesPending
    <2>2. CASE ~((CommitUpload(h) \/ CommitReindex(h)) /\ j = handlers[h].job)
      <3>1. jobs[j].status = "PENDING" /\ ~(RecordUnpublished(h) /\ j = handlers[h].job)
        <4>1. ASSUME RecordUnpublished(h), j = handlers[h].job, jobs[j].status = "PENDING"
              PROVE  FALSE
          <5>1. jobs'[j] = WrittenRow(jobs[j], "FAILED")
            BY <4>1 DEF RecordUnpublished, SetJob, Absent, TypeInv, TypeOK
          <5> QED BY <5>1, <1>1, <1>3, WrittenFields
        <4> QED BY <1>1, <1>3, <2>2, <4>1, WrittenFields DEF RequestWrites
      <3>2. CASE \E g \in Handlers :
                    /\ handlers[g].job = j
                    /\ handlers[g].pc \in {"publishing", "unpublished", "recording"}
        <4>1. PICK g \in Handlers :
                    /\ handlers[g].job = j
                    /\ handlers[g].pc \in {"publishing", "unpublished", "recording"}
          BY <3>2
        <4>2. CASE g # h
          BY <4>1, <4>2, <1>1 DEF CarriesPending
        <4>3. CASE g = h /\ Publish(h)
          <5>1. 0 \in 0..MaxRetries /\ <<j, 0>> \in Messages
            BY IngestionAssumption DEF IngestionAssumption, Messages
          <5>2. queue' = Enqueue(queue, <<j, 0>>)
            BY <4>1, <4>3 DEF Publish
          <5>3. queue'[<<j, 0>>] > 0
            BY <5>1, <5>2, CopiesOf DEF TypeInv
          <5> QED BY <5>1, <5>3 DEF CarriesPending
        <4>4. CASE g = h /\ (FailPublish(h) \/ ReadUnpublished(h))
          <5>1. /\ handlers'[h].job = j
                /\ handlers'[h].pc \in {"unpublished", "recording"}
            BY <4>1, <4>4
            DEF FailPublish, ReadUnpublished, GoTo, Become, TypeInv, TypeOK,
                HandlerState
          <5> QED BY <5>1 DEF CarriesPending
        <4> QED
          BY <3>1, <4>1, <4>2, <4>3, <4>4
          DEF NoLosses, Inject, Idle, RequestMoves, Request, HandlerStep, HandlerFault,
              StoreUpload, ReadForReindex, FlushDelete, CommitUpload,
              RecordUnpublished, MarkQueued, CommitReindex, ReindexRefused,
              PurgeObject, CommitDelete, UndoUpload, AbandonRequest
      <3>3. CASE ~\E g \in Handlers :
                    /\ handlers[g].job = j
                    /\ handlers[g].pc \in {"publishing", "unpublished", "recording"}
        <4>1. CarriesPending(j)
          BY <3>1 DEF InFlightJobHasCarrier
        <4> QED BY <1>1, <1>2, <3>3, <4>1 DEF CarriesPending, WorkingOn
      <3> QED BY <3>2, <3>3
    <2> QED BY <2>1, <2>2
  <1>4. ASSUME jobs'[j].status = "PROCESSING"
        PROVE  CarriesProcessing(j)'
    <2>1. jobs[j].status = "PROCESSING"
      BY <1>1, <1>4, WrittenFields DEF RequestWrites, NewJob
    <2>2. CarriesProcessing(j)
      BY <2>1 DEF InFlightJobHasCarrier
    <2>3. \A r \in 1..MaxRetries : r \in 0..MaxRetries
      BY IngestionAssumption DEF IngestionAssumption
    <2> QED BY <1>1, <1>2, <2>2, <2>3 DEF CarriesProcessing, WorkingOn
  <1> QED BY <1>3, <1>4

\* A step of a worker passes the job on: from the queue to the worker, through
\* the attempt, and back to the queue when the attempt is to be retried.
LEMMA WorkerCarries ==
    ASSUME NoLosses, CarrierInv, NEW w \in Workers, WorkerMoves(w), NEW j \in Jobs
    PROVE  /\ jobs'[j].status = "PENDING" => CarriesPending(j)'
           /\ jobs'[j].status = "PROCESSING" => CarriesProcessing(j)'
  <1> USE DEF CarrierInv
  <1>1. /\ WorkerWrites(w, j) /\ jobs[j] \in JobRow
        /\ handlers' = handlers
        /\ \A v \in Workers \ {w} : workers'[v] = workers[v]
    BY WorkerActs DEF TypeInv, TypeOK
  <1>2. \A r \in 0..MaxRetries :
           queue[<<j, r>>] > 0 =>
              \/ queue'[<<j, r>>] > 0
              \/ /\ workers'[w].job = j /\ workers'[w].retries = r
                 /\ workers'[w].pc = "received"
    <2>1. \A r \in 0..MaxRetries : <<j, r>> \in Messages
      BY DEF Messages
    <2>2. ASSUME NEW r \in 0..MaxRetries, queue[<<j, r>>] > 0,
                 NEW m \in Messages, Receive(w, m)
          PROVE  \/ queue'[<<j, r>>] > 0
                 \/ /\ workers'[w].job = j /\ workers'[w].retries = r
                    /\ workers'[w].pc = "received"
      <3>1. CASE m = <<j, r>>
        BY <3>1, <2>2 DEF Receive, TypeInv, TypeOK
      <3>2. CASE m # <<j, r>>
        BY <3>2, <2>1, <2>2, CopiesOf DEF Receive, TypeInv
      <3> QED BY <3>1, <3>2
    <2>3. ASSUME NEW r \in 0..MaxRetries, queue[<<j, r>>] > 0,
                 NEW s, queue' = Enqueue(queue, <<workers[w].job, s>>)
          PROVE  queue'[<<j, r>>] > 0
      BY <2>1, <2>3, CopiesOf DEF TypeInv
    <2> QED BY <2>2, <2>3, WorkerQueues
  <1>3. workers[w].pc \in WorkerPc /\ workers[w].retries \in 0..MaxRetries
    BY DEF TypeInv, TypeOK, WorkerState
  <1>4. ~(ClaimRaises(w) \/ LosePersist(w) \/ CrashWorker(w))
    BY DEF ClaimRaises, LosePersist, CrashWorker, Inject, NoLosses
  <1>5. ASSUME jobs'[j].status = "PENDING"
        PROVE  CarriesPending(j)'
    <2>1. jobs[j].status = "PENDING" /\ jobs'[j] = jobs[j]
      BY <1>1, <1>5, WrittenFields DEF WorkerWrites, FailureStatus
    <2>2. CarriesPending(j)
      BY <2>1 DEF InFlightJobHasCarrier
    <2>3. CASE workers[w].job = j /\ workers[w].pc \in {"received", "failing", "persisting"}
      <3>1. \/ JobMissing(w) \/ ReadForFailure(w) \/ Redeliver(w)
        <4>1. ~Claim(w) /\ ~PersistFailure(w)
          <5>1. ASSUME Claim(w) PROVE FALSE
            <6>1. jobs'[j] = ClaimedRow(jobs[j])
              BY <2>3, <5>1 DEF Claim, TypeInv, TypeOK
            <6> QED BY <6>1, <1>1, <1>5, WrittenFields
          <5>2. ASSUME PersistFailure(w) PROVE FALSE
            <6>1. jobs'[j] = WrittenRow(jobs[j], FailureStatus(w))
              BY <2>1, <2>3, <5>2 DEF PersistFailure, SetJob, Absent, TypeInv, TypeOK
            <6> QED BY <6>1, <1>1, <1>5, WrittenFields DEF FailureStatus
          <5> QED BY <5>1, <5>2
        <4>2. ~Skip(w)
          BY <2>1, <2>3 DEF Skip, Claimable
        <4> QED
          BY <1>4, <2>3, <4>1, <4>2
          DEF WorkerMoves, WorkerStep, WorkerFault, Receive, BeginParsing, ReadObject,
              CommitIndexed, FailPipeline, InTransaction, PublishRetry, Acknowledge
      <3>2. /\ workers'[w].job = j
            /\ workers'[w].pc \in {"received", "failing", "persisting"}
        <4>1. CASE JobMissing(w) \/ Redeliver(w)
          BY <2>3, <4>1
          DEF JobMissing, Redeliver, Advance, TypeInv, TypeOK, WorkerState
        <4>2. CASE ReadForFailure(w)
          BY <2>3, <4>2, ReadMoves
        <4> QED BY <3>1, <4>1, <4>2
      <3> QED BY <3>2 DEF CarriesPending, WorkingOn
    <2>4. CASE ~(workers[w].job = j /\ workers[w].pc \in {"received", "failing", "persisting"})
      BY <1>1, <1>2, <2>2, <2>4 DEF CarriesPending, WorkingOn
    <2> QED BY <2>3, <2>4
  <1>6. ASSUME jobs'[j].status = "PROCESSING"
        PROVE  CarriesProcessing(j)'
    <2>a. ASSUME workers'[w].job = j, Attempting(w)'
          PROVE  CarriesProcessing(j)'
      BY <2>a DEF CarriesProcessing, WorkingOn, Attempting
    <2>1. CASE Claim(w) /\ j = workers[w].job
      <3>1. workers'[w].job = j /\ workers'[w].pc = "claimed"
        BY <2>1 DEF Claim, Advance, TypeInv, TypeOK, WorkerState
      <3> QED BY <3>1, <2>a DEF Attempting
    <2>2. CASE PersistFailure(w) /\ j = workers[w].job
      <3>1. JobExists(j)
        BY <1>1, <1>6, <2>2 DEF PersistFailure, SetJob, JobExists, Absent, TypeInv, TypeOK
      <3>2. jobs'[j] = WrittenRow(jobs[j], FailureStatus(w))
        BY <3>1, <2>2 DEF PersistFailure, SetJob, JobExists, TypeInv, TypeOK
      <3>3. ~FinalAttempt(w)
        BY <3>2, <1>1, <1>6, WrittenFields DEF FailureStatus
      <3>4. workers'[w].job = j /\ workers'[w].pc = "retrying"
        BY <3>3, <2>2
        DEF PersistFailure, AfterFailure, Advance, TypeInv, TypeOK, WorkerState
      <3> QED BY <3>4, <2>a DEF Attempting
    <2>3. CASE ~((Claim(w) \/ PersistFailure(w)) /\ j = workers[w].job)
      <3>1. jobs[j].status = "PROCESSING" /\ ~(CommitIndexed(w) /\ j = workers[w].job)
        <4>1. ASSUME CommitIndexed(w), j = workers[w].job, jobs[j].status = "PROCESSING"
              PROVE  FALSE
          <5>1. jobs'[j] = WrittenRow(jobs[j], "INDEXED")
            BY <4>1 DEF CommitIndexed, SetJob, Absent, TypeInv, TypeOK
          <5> QED BY <5>1, <1>1, <1>6, WrittenFields
        <4> QED BY <1>1, <1>6, <2>3, <4>1, WrittenFields DEF WorkerWrites
      <3>2. CarriesProcessing(j)
        BY <3>1 DEF InFlightJobHasCarrier
      <3>3. CASE workers[w].job = j /\ Attempting(w)
        <4>1. CASE PublishRetry(w)
          <5> DEFINE r == workers[w].retries + 1
          <5>1. r \in 1..MaxRetries /\ r \in 0..MaxRetries
            BY <1>3, <4>1, IngestionAssumption
            DEF PublishRetry, RetriesRemain, IngestionAssumption
          <5>2. <<j, r>> \in Messages /\ queue' = Enqueue(queue, <<j, r>>)
            BY <3>3, <4>1, <5>1 DEF PublishRetry, Messages
          <5>3. queue'[<<j, r>>] > 0
            BY <5>2, CopiesOf DEF TypeInv
          <5> QED BY <5>1, <5>3 DEF CarriesProcessing
        <4>2. CASE ~PublishRetry(w)
          <5>1. \/ BeginParsing(w) \/ ReadObject(w) \/ FailPipeline(w)
                \/ ReadForFailure(w) \/ Redeliver(w)
            BY <1>4, <2>3, <3>1, <3>3, <4>2
            DEF Attempting, WorkerMoves, WorkerStep, WorkerFault, Receive, Claim, Skip,
                JobMissing, Acknowledge
          <5>2. /\ workers'[w].job = j
                /\ workers'[w].pc \in {"parsing", "embedding", "failing", "persisting",
                                       workers[w].pc}
            <6>1. CASE \/ BeginParsing(w) \/ ReadObject(w) \/ FailPipeline(w)
                       \/ Redeliver(w)
              BY <3>3, <6>1
              DEF BeginParsing, ReadObject, FailPipeline, Redeliver, Advance, TypeInv,
                  TypeOK, WorkerState
            <6>2. CASE ReadForFailure(w)
              BY <3>3, <6>2, ReadMoves
            <6> QED BY <5>1, <6>1, <6>2
          <5> QED BY <3>3, <5>2, <2>a DEF Attempting
        <4> QED BY <4>1, <4>2
      <3>4. CASE workers[w].job = j /\ workers[w].pc = "received" /\ workers[w].retries > 0
        <4>1. ~Skip(w) /\ ~JobMissing(w)
          BY <3>1, <3>4
          DEF Skip, JobMissing, JobExists, Absent, Claimable, Active, TaskIsKnown
        <4>2. Redeliver(w)
          BY <1>4, <2>3, <3>4, <4>1
          DEF WorkerMoves, WorkerStep, WorkerFault, Receive, BeginParsing, ReadObject,
              CommitIndexed, FailPipeline, InTransaction, ReadForFailure,
              PublishRetry, Acknowledge
        <4>3. /\ workers'[w].job = j /\ workers'[w].pc = "received"
              /\ workers'[w].retries > 0
          BY <3>4, <4>2 DEF Redeliver, TypeInv, TypeOK, WorkerState
        <4> QED BY <4>3 DEF CarriesProcessing, WorkingOn
      <3>5. CASE ~(/\ workers[w].job = j
                   /\ \/ Attempting(w)
                      \/ workers[w].pc = "received" /\ workers[w].retries > 0)
        <4>1. CASE \E r \in 1..MaxRetries : queue[<<j, r>>] > 0
          <5>1. PICK r \in 1..MaxRetries : queue[<<j, r>>] > 0
            BY <4>1
          <5>2. r \in 0..MaxRetries /\ r > 0
            BY IngestionAssumption DEF IngestionAssumption
          <5> QED BY <1>2, <5>1, <5>2 DEF CarriesProcessing, WorkingOn
        <4>2. CASE ~\E r \in 1..MaxRetries : queue[<<j, r>>] > 0
          BY <1>1, <3>2, <3>5, <4>2 DEF CarriesProcessing, WorkingOn, Attempting
        <4> QED BY <4>1, <4>2
      <3> QED BY <3>3, <3>4, <3>5
    <2> QED BY <2>1, <2>2, <2>3
  <1> QED BY <1>5, <1>6

\* Every unfinished job has a request, a message or a worker that will go on
\* with it, as long as no process dies and no transaction of a worker fails;
\* publications that raise, ambiguous ones among them, expired visibility
\* timeouts and failed deletions of objects lose no job.
THEOREM UnfinishedJobsAreCarried ==
    ASSUME NoLosses
    PROVE  Spec => []InFlightJobHasCarrier
  <1>1. Init => CarrierInv
    <2> SUFFICES ASSUME Init PROVE CarrierInv
      OBVIOUS
    <2>1. /\ \A h \in Handlers : ~Creating(h) /\ handlers[h].job = NoJob
          /\ \A w \in Workers : workers[w].pc = "idle" /\ workers[w].job = NoJob
          /\ \A j \in Jobs : jobs[j].status = "NONE" /\ j # NoJob
      BY IngestionAssumption
      DEF IngestionAssumption, Init, Creating, IdleHandler, IdleWorker, NoJobRow, NewJob
    <2>2. FreshJobsAreUnknown
      BY <2>1 DEF Init, Messages, FreshJobsAreUnknown, WorkingOn
    <2> QED
      BY <2>1, <2>2, InitTyped
      DEF CarrierInv, CreatorsHoldFreshJobs, TaskIsKnown, Attempting, RetriesRemain,
          InFlightJobHasCarrier
  <1>2. CarrierInv /\ [Next]_vars => CarrierInv'
    <2> SUFFICES ASSUME CarrierInv, [Next]_vars PROVE CarrierInv'
      OBVIOUS
    <2>1. CASE Next
      <3>1. ASSUME NEW h \in Handlers, RequestMoves(h) PROVE InFlightJobHasCarrier'
        BY <3>1, RequestCarries DEF InFlightJobHasCarrier
      <3>2. ASSUME NEW w \in Workers, WorkerMoves(w) PROVE InFlightJobHasCarrier'
        BY <3>2, WorkerCarries DEF InFlightJobHasCarrier
      <3>3. ASSUME Tick PROVE InFlightJobHasCarrier'
        <4>1. /\ handlers' = handlers /\ queue' = queue
              /\ \A j \in Jobs : jobs'[j].status = jobs[j].status
              /\ \A w \in Workers : /\ workers'[w].pc = workers[w].pc
                                    /\ workers'[w].job = workers[w].job
                                    /\ workers'[w].retries = workers[w].retries
          BY <3>3, TickAges DEF Tick, CarrierInv
        <4>2. \A j \in Jobs : /\ CarriesPending(j) => CarriesPending(j)'
                              /\ CarriesProcessing(j) => CarriesProcessing(j)'
          BY <4>1 DEF CarriesPending, CarriesProcessing, WorkingOn
        <4> QED BY <4>1, <4>2 DEF CarrierInv, InFlightJobHasCarrier
      <3> QED
        BY <2>1, <3>1, <3>2, <3>3, TypeInvStep, CreatorsStep, FreshStep, TaskStep,
           RetriesStep
        DEF CarrierInv, Next, RequestMoves, WorkerMoves
    <2>2. CASE UNCHANGED vars
      <3>1. TypeInv'
        BY <2>2, TypeInvStep DEF CarrierInv
      <3>2. \A j \in Jobs : /\ CarriesPending(j)' <=> CarriesPending(j)
                            /\ CarriesProcessing(j)' <=> CarriesProcessing(j)
        BY <2>2 DEF vars, CarriesPending, CarriesProcessing, WorkingOn
      <3> QED
        BY <2>2, <3>1, <3>2
        DEF vars, CarrierInv, CreatorsHoldFreshJobs, Creating, FreshJobsAreUnknown,
            WorkingOn, TaskIsKnown, Attempting, RetriesRemain, InFlightJobHasCarrier
    <2> QED BY <2>1, <2>2
  <1>3. CarrierInv => InFlightJobHasCarrier
    BY DEF CarrierInv
  <1> QED BY <1>1, <1>2, <1>3, PTL DEF Spec

-----------------------------------------------------------------------------
(* Rows and objects *)

\* An upload that has stored its object is alone with a document that has no
\* row yet.
UploadsAreAlone ==
    \A h \in Handlers : handlers[h].pc = "stored" =>
        /\ documents[handlers[h].document] = "NONE"
        /\ handlers[h].document \in objects
        /\ \A g \in Handlers \ {h} : handlers[g].document # handlers[h].document

\* A deletion works on a document that was created, and has removed its object
\* before it commits.
DeletionsPurge ==
    \A h \in Handlers :
        /\ handlers[h].pc \in {"purging", "deleting"}
              => documents[handlers[h].document] # "NONE"
        /\ handlers[h].pc = "deleting" => handlers[h].document \notin objects

StorageInv ==
    /\ TypeInv
    /\ UploadsAreAlone
    /\ DeletionsPurge
    /\ StorageMatchesRows

\* The row of a document stays as it is, or stays.
DocumentKept(d) ==
    \/ documents'[d] = documents[d]
    \/ DocumentExists(d) /\ DocumentExists(d)'

LEMMA SetDocumentWrites ==
    ASSUME TypeOK, NEW d \in Documents, NEW status \in DocumentStatus,
           documents' = SetDocument(documents, d, status), NEW c \in Documents
    PROVE  DocumentKept(c)
  BY DEF SetDocument, TypeOK, DocumentKept, DocumentExists, DocumentStatus, Absent

LEMMA WorkerKeepsDocumentRows ==
    ASSUME TypeInv, NEW w \in Workers, NEW d \in Documents, WorkerMoves(w)
    PROVE  DocumentKept(d)
  <1>1. CASE documents' = documents
    BY <1>1 DEF DocumentKept
  <1>2. CASE CommitIndexed(w)
    <2>1. /\ DocumentOf[workers[w].job] \in Documents
          /\ documents' = SetDocument(documents, DocumentOf[workers[w].job], "INDEXED")
      BY <1>2, AttemptTyped DEF CommitIndexed
    <2> QED BY <2>1, SetDocumentWrites DEF TypeInv, DocumentStatus
  <1>3. CASE PersistFailure(w)
    <2>1. /\ DocumentOf[workers[w].job] \in Documents
          /\ FailureStatus(w) \in DocumentStatus
          /\ \/ documents' = documents
             \/ documents' = SetDocument(documents, DocumentOf[workers[w].job],
                                         FailureStatus(w))
      BY <1>3, AttemptTyped DEF PersistFailure
    <2> QED BY <1>1, <2>1, SetDocumentWrites DEF TypeInv
  <1> QED
    BY <1>1, <1>2, <1>3
    DEF database, WorkerMoves, WorkerStep, WorkerFault, Receive, Claim, Skip,
        JobMissing, ClaimRaises, BeginParsing, ReadObject, FailPipeline,
        ReadForFailure, LosePersist, PublishRetry, Acknowledge, CrashWorker, Redeliver

\* The steps of a request that touch neither an object nor the existence of a
\* row, and that neither begin nor end a window.
PlainStep(h) ==
    \/ \E j \in Jobs : ReadForReindex(h, j)
    \/ \E d \in Documents : FlushDelete(h, d)
    \/ Publish(h) \/ FailPublish(h) \/ ReadUnpublished(h) \/ RecordUnpublished(h)
    \/ MarkQueued(h) \/ CommitReindex(h) \/ ReindexRefused(h)

LEMMA PlainSteps ==
    ASSUME TypeInv, NEW h \in Handlers, PlainStep(h)
    PROVE  /\ objects' = objects
           /\ handlers[h].pc \notin {"stored", "purging", "deleting"}
           /\ handlers'[h].pc \notin {"stored", "deleting"}
           /\ \A d \in Documents : DocumentKept(d)
           /\ handlers'[h].pc = "purging" => DocumentExists(handlers'[h].document)
           /\ \/ handlers'[h] = IdleHandler
              \/ handlers'[h].document = handlers[h].document
              \/ DocumentExists(handlers'[h].document)
  <1> USE DEF PlainStep, TypeInv, TypeOK
  <1>1. objects' = objects /\ handlers[h].pc \notin {"stored", "purging", "deleting"}
    BY DEF ReadForReindex, FlushDelete, Publish, FailPublish, ReadUnpublished,
           RecordUnpublished, MarkQueued, CommitReindex, ReindexRefused, Idle
  <1>2. RequestMoves(h)
    BY DEF RequestMoves, Request, HandlerStep, HandlerFault
  <1>3. /\ handlers'[h].pc \notin {"stored", "deleting"}
        /\ handlers'[h].pc = "purging" => DocumentExists(handlers'[h].document)
        /\ \/ handlers'[h] = IdleHandler
           \/ handlers'[h].document = handlers[h].document
           \/ DocumentExists(handlers'[h].document)
    <2>1. CASE \/ \E j \in Jobs : ReadForReindex(h, j)
               \/ \E d \in Documents : FlushDelete(h, d)
      BY <2>1 DEF ReadForReindex, FlushDelete, Become
    <2>2. CASE RecordUnpublished(h) \/ MarkQueued(h) \/ ReindexRefused(h)
      BY <2>2 DEF RecordUnpublished, MarkQueued, ReindexRefused, Return, IdleHandler
    <2>3. CASE Publish(h) \/ FailPublish(h) \/ CommitReindex(h)
      BY <2>3 DEF Publish, FailPublish, CommitReindex, GoTo, HandlerState
    <2>4. CASE ReadUnpublished(h)
      BY <2>4 DEF ReadUnpublished, Become
    <2> QED BY <2>1, <2>2, <2>3, <2>4
  <1>4. ASSUME NEW d \in Documents PROVE DocumentKept(d)
    <2>1. CASE documents' = documents
      BY <2>1 DEF DocumentKept
    <2>2. CASE CommitReindex(h)
      BY <2>2 DEF CommitReindex, DocumentKept, DocumentExists, Absent
    <2>3. CASE RecordUnpublished(h)
      <3>1. /\ handlers[h].document \in Documents
            /\ \/ documents' = documents
               \/ documents' = SetDocument(documents, handlers[h].document, "FAILED")
        BY <2>3, PublisherHasMessage DEF RecordUnpublished
      <3> QED BY <2>1, <3>1, SetDocumentWrites DEF DocumentStatus
    <2> QED
      BY <2>1, <2>2, <2>3
      DEF database, ReadForReindex, FlushDelete, Publish, FailPublish,
          ReadUnpublished, MarkQueued, ReindexRefused
  <1> QED BY <1>1, <1>3, <1>4

LEMMA StorageStepOfRequest ==
    ASSUME {"storage", "api"} \intersect Faults = {}, StorageInv,
           NEW h \in Handlers, RequestMoves(h)
    PROVE  UploadsAreAlone' /\ DeletionsPurge' /\ StorageMatchesRows'
  <1> USE DEF StorageInv, TypeInv, TypeOK, HandlerState
  <1>1. \A g \in Handlers \ {h} : handlers'[g] = handlers[g]
    BY RequestActs
  <1>2. \A g \in Handlers : handlers[g].pc # "idle" => handlers[g].document \in Documents
    BY DEF BusyHandlersHaveWork
  <1>3. ASSUME NEW j \in Jobs, StoreUpload(h, j)
        PROVE  UploadsAreAlone' /\ DeletionsPurge' /\ StorageMatchesRows'
    <2> DEFINE d == DocumentOf[j]
    <2>1. /\ handlers'[h].pc = "stored" /\ handlers'[h].document = d
          /\ documents' = documents /\ objects' = objects \union {d}
          /\ d \in Documents /\ documents[d] = "NONE"
          /\ handlers[h].pc = "idle"
          /\ \A g \in Handlers : handlers[g].document # d
      BY <1>3, IngestionAssumption
      DEF IngestionAssumption, StoreUpload, Become, Idle, database
    <2> HIDE DEF d
    <2>2. UploadsAreAlone'
      BY <1>1, <2>1 DEF UploadsAreAlone
    <2>3. DeletionsPurge'
      BY <1>1, <2>1 DEF DeletionsPurge
    <2>4. StorageMatchesRows'
      BY <1>1, <2>1 DEF StorageMatchesRows, DocumentExists
    <2> QED BY <2>2, <2>3, <2>4
  <1>4. CASE CommitUpload(h)
    <2> DEFINE d == handlers[h].document
    <2>1. /\ handlers'[h].pc = "publishing" /\ handlers'[h].document = d
          /\ documents' = [documents EXCEPT ![d] = "UPLOADED"]
          /\ objects' = objects
          /\ d \in Documents /\ documents[d] = "NONE" /\ d \in objects
          /\ handlers[h].pc = "stored"
          /\ \A g \in Handlers \ {h} : handlers[g].document # d
      BY <1>2, <1>4 DEF CommitUpload, GoTo, UploadsAreAlone
    <2> HIDE DEF d
    <2>2. /\ documents'[d] = "UPLOADED"
          /\ \A c \in Documents \ {d} : documents'[c] = documents[c]
      BY <2>1
    <2>3. UploadsAreAlone'
      BY <1>1, <1>2, <2>1, <2>2 DEF UploadsAreAlone
    <2>4. DeletionsPurge'
      BY <1>1, <1>2, <2>1, <2>2 DEF DeletionsPurge
    <2>5. StorageMatchesRows'
      BY <1>1, <2>1, <2>2 DEF StorageMatchesRows, DocumentExists, Absent
    <2> QED BY <2>3, <2>4, <2>5
  <1>5. CASE PurgeObject(h)
    <2> DEFINE d == handlers[h].document
    <2>1. /\ handlers'[h].pc = "deleting" /\ handlers'[h].document = d
          /\ documents' = documents /\ objects' = objects \ {d}
          /\ d \in Documents /\ documents[d] # "NONE"
          /\ handlers[h].pc = "purging"
      BY <1>2, <1>5 DEF PurgeObject, GoTo, DeletionsPurge, Inject, database
    <2> HIDE DEF d
    <2>2. UploadsAreAlone'
      BY <1>1, <2>1 DEF UploadsAreAlone
    <2>3. DeletionsPurge'
      BY <1>1, <2>1 DEF DeletionsPurge
    <2>4. StorageMatchesRows'
      BY <1>1, <2>1 DEF StorageMatchesRows, DocumentExists
    <2> QED BY <2>2, <2>3, <2>4
  <1>6. CASE CommitDelete(h)
    <2> DEFINE d == handlers[h].document
    <2>1. /\ handlers'[h] = IdleHandler
          /\ documents' = [documents EXCEPT ![d] = "DELETED"]
          /\ objects' = objects
          /\ d \in Documents /\ documents[d] # "NONE" /\ d \notin objects
          /\ handlers[h].pc = "deleting" /\ handlers[h].document = d
      BY <1>2, <1>6 DEF CommitDelete, Return, DeletionsPurge
    <2> HIDE DEF d
    <2>2. /\ documents'[d] = "DELETED"
          /\ \A c \in Documents \ {d} : documents'[c] = documents[c]
      BY <2>1
    <2>3. IdleHandler.pc = "idle" /\ IdleHandler.document \notin Documents
      BY IngestionAssumption DEF IngestionAssumption, IdleHandler
    <2>4. UploadsAreAlone'
      BY <1>1, <1>2, <2>1, <2>2, <2>3 DEF UploadsAreAlone
    <2>5. DeletionsPurge'
      BY <1>1, <1>2, <2>1, <2>2, <2>3 DEF DeletionsPurge
    <2>6. ASSUME NEW c \in Documents
          PROVE  /\ c \in objects' => \/ DocumentExists(c)'
                                      \/ \E g \in Handlers : /\ handlers'[g].document = c
                                                             /\ handlers'[g].pc \in {"stored"}
                 /\ DocumentExists(c)' => \/ c \in objects'
                                          \/ \E g \in Handlers : /\ handlers'[g].document = c
                                                                 /\ handlers'[g].pc \in {"deleting"}
      <3>1. CASE c = d
        BY <2>1, <2>2, <3>1 DEF DocumentExists, Absent
      <3>2. CASE c # d
        BY <1>1, <2>1, <2>2, <3>2 DEF StorageMatchesRows, DocumentExists
      <3> QED BY <3>1, <3>2
    <2>7. StorageMatchesRows'
      BY <2>6 DEF StorageMatchesRows
    <2> QED BY <2>4, <2>5, <2>7
  <1>7. CASE PlainStep(h)
    <2>1. /\ objects' = objects
          /\ handlers[h].pc \notin {"stored", "purging", "deleting"}
          /\ handlers'[h].pc \notin {"stored", "deleting"}
          /\ \A d \in Documents : DocumentKept(d)
          /\ handlers'[h].pc = "purging" => DocumentExists(handlers'[h].document)
          /\ \/ handlers'[h] = IdleHandler
             \/ handlers'[h].document = handlers[h].document
             \/ DocumentExists(handlers'[h].document)
      BY <1>7, PlainSteps
    <2>2. IdleHandler.document \notin Documents /\ IdleHandler.pc = "idle"
      BY IngestionAssumption DEF IngestionAssumption, IdleHandler
    <2>3. \A d \in Documents : /\ DocumentExists(d)' <=> DocumentExists(d)
                               /\ documents[d] = "NONE" <=> documents'[d] = "NONE"
      BY <2>1 DEF DocumentKept, DocumentExists, Absent
    <2>4. ASSUME NEW g \in Handlers, handlers'[g].pc = "stored"
          PROVE  /\ documents'[handlers'[g].document] = "NONE"
                 /\ handlers'[g].document \in objects'
                 /\ \A f \in Handlers \ {g} :
                       handlers'[f].document # handlers'[g].document
      <3>1. /\ g # h /\ handlers'[g] = handlers[g] /\ handlers[g].pc = "stored"
            /\ handlers[g].document \in Documents
            /\ documents[handlers[g].document] = "NONE"
            /\ handlers[g].document \in objects
            /\ \A f \in Handlers \ {g} : handlers[f].document # handlers[g].document
        BY <1>1, <1>2, <2>1, <2>4 DEF UploadsAreAlone
      <3>2. handlers'[h].document # handlers[g].document
        BY <2>1, <2>2, <3>1 DEF DocumentExists, Absent
      <3> QED BY <1>1, <2>1, <2>3, <3>1, <3>2
    <2>5. ASSUME NEW g \in Handlers
          PROVE  /\ handlers'[g].pc \in {"purging", "deleting"}
                       => documents'[handlers'[g].document] # "NONE"
                 /\ handlers'[g].pc = "deleting" => handlers'[g].document \notin objects'
      <3>1. CASE g # h
        BY <1>1, <1>2, <2>1, <2>3, <3>1 DEF DeletionsPurge
      <3>2. CASE g = h
        <4>1. CASE handlers'[h].pc = "purging"
          <5>1. handlers'[h].document \in Documents
            BY <1>7, <4>1, TypeInvStep, <2>1
            DEF Next, PlainStep, Request, HandlerStep, HandlerFault,
                BusyHandlersHaveWork
          <5> QED BY <2>1, <2>3, <3>2, <4>1, <5>1 DEF DocumentExists, Absent
        <4>2. CASE handlers'[h].pc # "purging"
          BY <2>1, <3>2, <4>2
        <4> QED BY <4>1, <4>2
      <3> QED BY <3>1, <3>2
    <2>6. StorageMatchesRows'
      BY <1>1, <2>1, <2>3 DEF StorageMatchesRows
    <2> QED BY <2>4, <2>5, <2>6 DEF UploadsAreAlone, DeletionsPurge
  <1>8. ~UndoUpload(h) /\ ~AbandonRequest(h)
    BY DEF UndoUpload, AbandonRequest, Inject
  <1> QED
    BY <1>3, <1>4, <1>5, <1>6, <1>7, <1>8
    DEF RequestMoves, Request, HandlerStep, HandlerFault, PlainStep

\* Rows and objects agree outside the windows of an upload and of a deletion,
\* whatever the workers do and however they die, as long as no request dies
\* half-way and no deletion in the object store fails.
THEOREM StorageFollowsRows ==
    ASSUME {"storage", "api"} \intersect Faults = {}
    PROVE  Spec => []StorageMatchesRows
  <1>1. Init => StorageInv
    <2> SUFFICES ASSUME Init PROVE StorageInv
      OBVIOUS
    <2>1. \A h \in Handlers : handlers[h].pc = "idle"
      BY DEF Init, IdleHandler
    <2> QED
      BY <2>1, InitTyped
      DEF Init, StorageInv, UploadsAreAlone, DeletionsPurge, StorageMatchesRows,
          DocumentExists, Absent
  <1>2. StorageInv /\ [Next]_vars => StorageInv'
    <2> SUFFICES ASSUME StorageInv, [Next]_vars PROVE StorageInv'
      OBVIOUS
    <2>1. TypeInv'
      BY TypeInvStep DEF StorageInv
    <2>2. \A h \in Handlers : handlers[h].pc # "idle" => handlers[h].document \in Documents
      BY DEF StorageInv, TypeInv, BusyHandlersHaveWork
    <2>3. ASSUME handlers' = handlers, objects' = objects,
                 \A d \in Documents : DocumentKept(d)
          PROVE  StorageInv'
      <3>1. \A d \in Documents : /\ DocumentExists(d)' <=> DocumentExists(d)
                                 /\ documents[d] = "NONE" <=> documents'[d] = "NONE"
        BY <2>3 DEF DocumentKept, DocumentExists, Absent
      <3>2. UploadsAreAlone' /\ DeletionsPurge'
        BY <2>2, <2>3, <3>1 DEF StorageInv, UploadsAreAlone, DeletionsPurge
      <3>3. StorageMatchesRows'
        BY <2>3, <3>1 DEF StorageInv, StorageMatchesRows
      <3> QED BY <2>1, <3>2, <3>3 DEF StorageInv
    <2>4. ASSUME NEW h \in Handlers, RequestMoves(h) PROVE StorageInv'
      BY <2>1, <2>4, StorageStepOfRequest DEF StorageInv
    <2>5. ASSUME NEW w \in Workers, WorkerMoves(w) PROVE StorageInv'
      BY <2>3, <2>5, WorkerActs, WorkerKeepsDocumentRows DEF StorageInv
    <2>6. CASE Tick \/ UNCHANGED vars
      BY <2>3, <2>6 DEF Tick, vars, DocumentKept
    <2> QED BY <2>4, <2>5, <2>6 DEF Next, RequestMoves, WorkerMoves
  <1>3. StorageInv => StorageMatchesRows
    BY DEF StorageInv
  <1> QED BY <1>1, <1>2, <1>3, PTL DEF Spec

-----------------------------------------------------------------------------
(* The attempts that are left: every waiting copy of a message, every worker
   and every request about to publish holds the attempts its chain of retries
   may still make. *)

AttemptsFrom(x, first) == {<<x, a>> : a \in first..MaxRetries}

CopyTokens(j, r) == UNION {AttemptsFrom(<<r, n>>, r) : n \in 1..queue[<<j, r>>]}

QueueTokens(j) == UNION {CopyTokens(j, r) : r \in 0..MaxRetries}

FirstLeft(w) ==
    IF workers[w].pc = "received" THEN workers[w].retries
    ELSE IF Attempting(w) THEN workers[w].retries + 1
    ELSE MaxRetries + 1

WorkerTokens(j) == UNION {AttemptsFrom(w, FirstLeft(w)) : w \in WorkingOn(j)}

Publishing(j) ==
    {h \in Handlers : handlers[h].job = j /\ handlers[h].pc = "publishing"}

RequestTokens(j) == UNION {AttemptsFrom(h, 0) : h \in Publishing(j)}

TokensFinite(j) ==
    /\ IsFiniteSet(QueueTokens(j))
    /\ IsFiniteSet(WorkerTokens(j))
    /\ IsFiniteSet(RequestTokens(j))

Left(j) == Cardinality(QueueTokens(j)) + Cardinality(WorkerTokens(j))
              + Cardinality(RequestTokens(j))

\* A job's attempts and the attempts left are within the budget of one chain
\* for its publication and one for every fault.
WithinBudget(j) ==
    /\ TokensFinite(j)
    /\ jobs[j].attempts + Left(j) <= (MaxRetries + 1) * (1 + faults)

BudgetInv ==
    /\ TypeInv
    /\ CreatorsHoldFreshJobs
    /\ FreshJobsAreUnknown
    /\ RetriesRemain
    /\ \A j \in Jobs : WithinBudget(j)

\* The attempts of one chain.
LEMMA ChainSize ==
    ASSUME NEW x, NEW first \in 0..(MaxRetries + 1)
    PROVE  /\ IsFiniteSet(AttemptsFrom(x, first))
           /\ Cardinality(AttemptsFrom(x, first)) = MaxRetries + 1 - first
           /\ \A a : <<x, a>> \in AttemptsFrom(x, first) <=> a \in first..MaxRetries
  <1> DEFINE S == first..MaxRetries
             T == AttemptsFrom(x, first)
             f == [a \in S |-> <<x, a>>]
  <1>1. first \in Int /\ MaxRetries \in Nat /\ first <= MaxRetries + 1
    BY IngestionAssumption DEF IngestionAssumption
  <1>2. IsFiniteSet(S) /\ Cardinality(S) = MaxRetries + 1 - first
    BY <1>1, FS_Interval
  <1>3. f \in Bijection(S, T)
    <2>1. f \in [S -> T]
      BY DEF AttemptsFrom
    <2>2. \A a, b \in S : f[a] = f[b] => a = b
      OBVIOUS
    <2>3. \A t \in T : \E a \in S : f[a] = t
      BY DEF AttemptsFrom
    <2> HIDE DEF S, T, f
    <2> QED BY <2>1, <2>2, <2>3 DEF Bijection, Injection, Surjection, IsInjective
  <1>4. ExistsBijection(S, T)
    BY <1>3 DEF ExistsBijection
  <1>5. IsFiniteSet(T) /\ Cardinality(T) = Cardinality(S)
    <2> HIDE DEF S, T
    <2> QED BY <1>2, <1>4, FS_Bijection
  <1>6. \A a : <<x, a>> \in T <=> a \in S
    BY DEF AttemptsFrom
  <1> QED BY <1>2, <1>5, <1>6

\* A set of attempts that loses nothing but what another gains.
LEMMA SizeWithin ==
    ASSUME NEW S, IsFiniteSet(S), NEW T, T \subseteq S
    PROVE  IsFiniteSet(T) /\ Cardinality(T) <= Cardinality(S)
           /\ Cardinality(T) \in Nat /\ Cardinality(S) \in Nat
  BY FS_Subset, FS_CardinalityType

LEMMA SizeWithChain ==
    ASSUME NEW S, IsFiniteSet(S), NEW x, NEW first \in 0..(MaxRetries + 1),
           NEW T, T \subseteq S \union AttemptsFrom(x, first)
    PROVE  /\ IsFiniteSet(T) /\ Cardinality(T) \in Nat /\ Cardinality(S) \in Nat
           /\ Cardinality(T) <= Cardinality(S) + (MaxRetries + 1 - first)
  <1> DEFINE C == AttemptsFrom(x, first)
  <1>1. IsFiniteSet(C) /\ Cardinality(C) = MaxRetries + 1 - first
    BY ChainSize
  <1> HIDE DEF C
  <1>2. /\ IsFiniteSet(S \union C) /\ IsFiniteSet(S \cap C)
        /\ Cardinality(S \union C)
              = Cardinality(S) + Cardinality(C) - Cardinality(S \cap C)
    <2>1. IsFiniteSet(S \cap C)
      BY FS_Subset
    <2> QED BY <1>1, <2>1, FS_Union
  <1>3. T \subseteq S \union C
    BY DEF C
  <1>4. /\ Cardinality(T) \in Nat /\ Cardinality(S) \in Nat /\ IsFiniteSet(T)
        /\ Cardinality(S \cap C) \in Nat /\ Cardinality(C) \in Nat
        /\ Cardinality(T) <= Cardinality(S \union C)
    BY <1>1, <1>2, <1>3, SizeWithin, FS_CardinalityType
  <1>5. MaxRetries \in Nat
    BY IngestionAssumption DEF IngestionAssumption
  <1> QED BY <1>1, <1>2, <1>4, <1>5

LEMMA SizeWithoutChain ==
    ASSUME NEW S, IsFiniteSet(S), NEW x, NEW first \in 0..(MaxRetries + 1),
           AttemptsFrom(x, first) \subseteq S,
           NEW T, T \subseteq S \ AttemptsFrom(x, first)
    PROVE  /\ IsFiniteSet(T) /\ Cardinality(T) \in Nat /\ Cardinality(S) \in Nat
           /\ Cardinality(T) <= Cardinality(S) - (MaxRetries + 1 - first)
  <1> DEFINE C == AttemptsFrom(x, first)
  <1>1. IsFiniteSet(C) /\ Cardinality(C) = MaxRetries + 1 - first
    BY ChainSize
  <1>2. T \subseteq S \ C /\ C \subseteq S
    OBVIOUS
  <1> HIDE DEF C
  <1>3. IsFiniteSet(S \ C) /\ Cardinality(S \ C) = Cardinality(S) - Cardinality(S \cap C)
    BY FS_Difference
  <1>4. S \cap C = C
    BY <1>2
  <1>5. /\ Cardinality(T) \in Nat /\ Cardinality(S) \in Nat /\ IsFiniteSet(T)
        /\ Cardinality(C) \in Nat
        /\ Cardinality(T) <= Cardinality(S \ C)
    BY <1>1, <1>2, <1>3, SizeWithin, FS_CardinalityType
  <1>6. MaxRetries \in Nat
    BY IngestionAssumption DEF IngestionAssumption
  <1> QED BY <1>1, <1>3, <1>4, <1>5, <1>6

\* What the tokens of a job are.
LEMMA TokenMembers ==
    ASSUME TypeInv, NEW j \in Jobs
    PROVE  /\ \A t : t \in QueueTokens(j) <=>
                 \E r \in 0..MaxRetries : \E n \in 1..queue[<<j, r>>] :
                    t \in AttemptsFrom(<<r, n>>, r)
           /\ \A t : t \in WorkerTokens(j) <=>
                 \E v \in Workers : /\ workers[v].job = j
                                    /\ t \in AttemptsFrom(v, FirstLeft(v))
           /\ \A t : t \in RequestTokens(j) <=>
                 \E h \in Handlers : /\ handlers[h].job = j
                                     /\ handlers[h].pc = "publishing"
                                     /\ t \in AttemptsFrom(h, 0)
  <1>1. \A t : t \in QueueTokens(j) <=>
           \E r \in 0..MaxRetries : t \in CopyTokens(j, r)
    BY DEF QueueTokens
  <1>2. \A r, t : t \in CopyTokens(j, r) <=>
           \E n \in 1..queue[<<j, r>>] : t \in AttemptsFrom(<<r, n>>, r)
    BY DEF CopyTokens
  <1>3. \A t : t \in WorkerTokens(j) <=>
           \E v \in Workers : /\ workers[v].job = j
                              /\ t \in AttemptsFrom(v, FirstLeft(v))
    BY DEF WorkerTokens, WorkingOn
  <1>4. \A t : t \in RequestTokens(j) <=>
           \E h \in Handlers : /\ handlers[h].job = j
                               /\ handlers[h].pc = "publishing"
                               /\ t \in AttemptsFrom(h, 0)
    BY DEF RequestTokens, Publishing
  <1> QED BY <1>1, <1>2, <1>3, <1>4

\* A waiting copy adds one chain, a received one takes one away.
LEMMA QueueTrades ==
    ASSUME TypeInv, TypeInv', NEW j \in Jobs, NEW r \in 0..MaxRetries,
           IsFiniteSet(QueueTokens(j))
    PROVE  LET q  == Cardinality(QueueTokens(j))
               q2 == Cardinality(QueueTokens(j)')
           IN  /\ queue' = Enqueue(queue, <<j, r>>) =>
                     /\ IsFiniteSet(QueueTokens(j)') /\ q \in Nat /\ q2 \in Nat
                     /\ q2 <= q + (MaxRetries + 1 - r)
               /\ queue[<<j, r>>] > 0 /\ queue' = Dequeue(queue, <<j, r>>) =>
                     /\ IsFiniteSet(QueueTokens(j)') /\ q \in Nat /\ q2 \in Nat
                     /\ q2 <= q - (MaxRetries + 1 - r)
  <1>1. /\ r \in 0..(MaxRetries + 1) /\ MaxRetries \in Nat
        /\ \A s \in 0..MaxRetries : <<j, s>> \in Messages
    BY IngestionAssumption DEF IngestionAssumption, Messages
  <1>2. \A s \in 0..MaxRetries : s # r => <<j, s>> # <<j, r>>
    OBVIOUS
  <1>3. ASSUME queue' = Enqueue(queue, <<j, r>>)
        PROVE  /\ IsFiniteSet(QueueTokens(j)')
               /\ Cardinality(QueueTokens(j)) \in Nat
               /\ Cardinality(QueueTokens(j)') \in Nat
               /\ Cardinality(QueueTokens(j)')
                     <= Cardinality(QueueTokens(j)) + (MaxRetries + 1 - r)
    <2> DEFINE last == queue[<<j, r>>] + 1
    <2>1. ASSUME NEW t \in QueueTokens(j)'
          PROVE  t \in QueueTokens(j) \union AttemptsFrom(<<r, last>>, r)
      <3>1. PICK s \in 0..MaxRetries : \E n \in 1..queue'[<<j, s>>] :
                    t \in AttemptsFrom(<<s, n>>, s)
        BY <2>1 DEF QueueTokens, CopyTokens
      <3>2. PICK n \in 1..queue'[<<j, s>>] : t \in AttemptsFrom(<<s, n>>, s)
        BY <3>1
      <3>3. CASE s # r
        <4>1. queue'[<<j, s>>] = queue[<<j, s>>]
          BY <1>1, <1>2, <1>3, <3>3, CopiesOf DEF TypeInv
        <4> QED BY <3>2, <4>1, TokenMembers
      <3>4. CASE s = r
        <4>1. queue'[<<j, r>>] = last /\ queue[<<j, r>>] \in Nat
          BY <1>1, <1>3, CopiesOf DEF TypeInv
        <4>2. n = last \/ n \in 1..queue[<<j, r>>]
          BY <3>2, <3>4, <4>1
        <4> QED BY <3>2, <3>4, <4>2, TokenMembers
      <3> QED BY <3>3, <3>4
    <2> QED BY <1>1, <2>1, SizeWithChain
  <1>4. ASSUME queue[<<j, r>>] > 0, queue' = Dequeue(queue, <<j, r>>)
        PROVE  /\ IsFiniteSet(QueueTokens(j)')
               /\ Cardinality(QueueTokens(j)) \in Nat
               /\ Cardinality(QueueTokens(j)') \in Nat
               /\ Cardinality(QueueTokens(j)')
                     <= Cardinality(QueueTokens(j)) - (MaxRetries + 1 - r)
    <2> DEFINE last == queue[<<j, r>>]
    <2>a. last \in Nat /\ last \in 1..last
      BY <1>1, <1>4, CopiesOf DEF TypeInv
    <2>1. AttemptsFrom(<<r, last>>, r) \subseteq QueueTokens(j)
      BY <2>a, TokenMembers
    <2>2. ASSUME NEW t \in QueueTokens(j)'
          PROVE  t \in QueueTokens(j) \ AttemptsFrom(<<r, last>>, r)
      <3>1. PICK s \in 0..MaxRetries : \E n \in 1..queue'[<<j, s>>] :
                    t \in AttemptsFrom(<<s, n>>, s)
        BY <2>2 DEF QueueTokens, CopyTokens
      <3>2. PICK n \in 1..queue'[<<j, s>>] : t \in AttemptsFrom(<<s, n>>, s)
        BY <3>1
      <3>3. CASE s # r
        <4>1. queue'[<<j, s>>] = queue[<<j, s>>]
          BY <1>1, <1>2, <1>4, <3>3, CopiesOf DEF TypeInv
        <4>2. t \in QueueTokens(j)
          BY <3>2, <4>1, TokenMembers
        <4>3. <<s, n>> # <<r, last>>
          BY <3>3
        <4>4. t \notin AttemptsFrom(<<r, last>>, r)
          BY <3>2, <4>3 DEF AttemptsFrom
        <4> QED BY <4>2, <4>4
      <3>4. CASE s = r
        <4>1. queue'[<<j, r>>] = last - 1
          BY <1>1, <1>4, CopiesOf DEF TypeInv
        <4>2. n \in 1..last /\ n # last
          BY <2>a, <3>2, <3>4, <4>1
        <4>3. t \in QueueTokens(j)
          BY <3>2, <3>4, <4>2, TokenMembers
        <4>4. <<s, n>> # <<r, last>>
          BY <4>2
        <4>5. t \notin AttemptsFrom(<<r, last>>, r)
          BY <3>2, <4>4 DEF AttemptsFrom
        <4> QED BY <4>3, <4>5
      <3> QED BY <3>3, <3>4
    <2> QED BY <1>1, <2>1, <2>2, SizeWithoutChain
  <1> QED BY <1>3, <1>4

\* A message of another job leaves a job's copies alone.
LEMMA QueueElsewhere ==
    ASSUME TypeInv, NEW j \in Jobs, NEW k, NEW r, k # j,
           \/ queue' = queue
           \/ queue' = Enqueue(queue, <<k, r>>)
           \/ queue' = Dequeue(queue, <<k, r>>)
    PROVE  QueueTokens(j)' \subseteq QueueTokens(j)
  <1>1. ASSUME NEW s \in 0..MaxRetries PROVE queue'[<<j, s>>] = queue[<<j, s>>]
    <2>1. <<j, s>> \in Messages /\ <<k, r>> # <<j, s>>
      BY DEF Messages
    <2> QED BY <2>1, CopiesOf DEF TypeInv
  <1>2. ASSUME NEW t \in QueueTokens(j)' PROVE t \in QueueTokens(j)
    <2>1. PICK s \in 0..MaxRetries : \E n \in 1..queue'[<<j, s>>] :
                  t \in AttemptsFrom(<<s, n>>, s)
      BY <1>2 DEF QueueTokens, CopyTokens
    <2> QED BY <1>1, <2>1, TokenMembers
  <1> QED BY <1>2

LEMMA FirstLeftTyped ==
    ASSUME TypeInv, NEW w \in Workers
    PROVE  FirstLeft(w) \in 0..(MaxRetries + 1) /\ MaxRetries \in Nat
  BY IngestionAssumption
  DEF IngestionAssumption, TypeInv, TypeOK, WorkerState, FirstLeft

\* A worker that moves trades the attempts it held for those it holds now.
LEMMA WorkerTrades ==
    ASSUME TypeInv, TypeInv', NEW j \in Jobs, NEW w \in Workers,
           \A v \in Workers \ {w} : workers'[v] = workers[v],
           IsFiniteSet(WorkerTokens(j)),
           NEW held \in 0..(MaxRetries + 1), NEW holds \in 0..(MaxRetries + 1),
           (workers[w].job = j /\ held = FirstLeft(w)) \/ held = MaxRetries + 1,
           workers'[w].job = j => FirstLeft(w)' >= holds
    PROVE  /\ IsFiniteSet(WorkerTokens(j)')
           /\ Cardinality(WorkerTokens(j)) \in Nat
           /\ Cardinality(WorkerTokens(j)') \in Nat
           /\ Cardinality(WorkerTokens(j)')
                 <= Cardinality(WorkerTokens(j)) + held - holds
  <1> DEFINE Rest == {t \in WorkerTokens(j) : t[1] # w}
             Old  == AttemptsFrom(w, held)
             New  == AttemptsFrom(w, holds)
  <1>1. Old \subseteq WorkerTokens(j)
    <2>1. CASE workers[w].job = j /\ held = FirstLeft(w)
      BY <2>1, TokenMembers
    <2>2. CASE held = MaxRetries + 1
      <3>1. (MaxRetries + 1)..MaxRetries = {}
        BY IngestionAssumption DEF IngestionAssumption
      <3> QED BY <2>2, <3>1 DEF AttemptsFrom
    <2> QED BY <2>1, <2>2
  <1>2. Rest \subseteq WorkerTokens(j) \ Old
    BY DEF AttemptsFrom
  <1>3. /\ IsFiniteSet(Rest) /\ Cardinality(Rest) \in Nat
        /\ Cardinality(WorkerTokens(j)) \in Nat
        /\ Cardinality(Rest) <= Cardinality(WorkerTokens(j)) - (MaxRetries + 1 - held)
    <2> HIDE DEF Rest
    <2> QED BY <1>1, <1>2, SizeWithoutChain
  <1>4. ASSUME NEW t \in WorkerTokens(j)' PROVE t \in Rest \union New
    <2>1. PICK v \in Workers : /\ workers'[v].job = j
                               /\ t \in AttemptsFrom(v, FirstLeft(v)')
      BY <1>4 DEF WorkerTokens, WorkingOn, AttemptsFrom
    <2>2. CASE v # w
      <3>1. workers'[v] = workers[v]
        BY <2>2
      <3>2. FirstLeft(v)' = FirstLeft(v)
        BY <3>1 DEF FirstLeft, Attempting
      <3>3. t \in WorkerTokens(j)
        BY <2>1, <3>1, <3>2, TokenMembers
      <3>4. t[1] = v
        BY <2>1 DEF AttemptsFrom
      <3> QED BY <2>2, <3>3, <3>4
    <2>3. CASE v = w
      <3>1. FirstLeft(w)' >= holds /\ t \in AttemptsFrom(w, FirstLeft(w)')
        BY <2>1, <2>3
      <3>2. PICK a \in FirstLeft(w)'..MaxRetries : t = <<w, a>>
        BY <3>1 DEF AttemptsFrom
      <3>3. FirstLeft(w)' \in Int /\ MaxRetries \in Int /\ holds \in Int
        BY IngestionAssumption
        DEF IngestionAssumption, TypeInv, TypeOK, WorkerState, FirstLeft
      <3>4. a \in holds..MaxRetries
        BY <3>1, <3>3
      <3> QED BY <3>2, <3>4 DEF AttemptsFrom
    <2> QED BY <2>2, <2>3
  <1>5. /\ IsFiniteSet(WorkerTokens(j)') /\ Cardinality(WorkerTokens(j)') \in Nat
        /\ Cardinality(WorkerTokens(j)') <= Cardinality(Rest) + (MaxRetries + 1 - holds)
    <2> HIDE DEF Rest
    <2> QED BY <1>3, <1>4, SizeWithChain
  <1>6. MaxRetries \in Nat
    BY IngestionAssumption DEF IngestionAssumption
  <1> HIDE DEF Rest
  <1> QED BY <1>3, <1>5, <1>6

\* A request trades the attempts of the message it is about to publish.
LEMMA RequestTrades ==
    ASSUME TypeInv, NEW j \in Jobs, NEW h \in Handlers,
           \A g \in Handlers \ {h} : handlers'[g] = handlers[g],
           IsFiniteSet(RequestTokens(j)),
           NEW held \in {0, MaxRetries + 1}, NEW holds \in {0, MaxRetries + 1},
           held = 0 => handlers[h].job = j /\ handlers[h].pc = "publishing",
           handlers'[h].job = j /\ handlers'[h].pc = "publishing" => holds = 0
    PROVE  /\ IsFiniteSet(RequestTokens(j)')
           /\ Cardinality(RequestTokens(j)) \in Nat
           /\ Cardinality(RequestTokens(j)') \in Nat
           /\ Cardinality(RequestTokens(j)')
                 <= Cardinality(RequestTokens(j)) + held - holds
  <1> DEFINE Rest == {t \in RequestTokens(j) : t[1] # h}
             Old  == AttemptsFrom(h, held)
             New  == AttemptsFrom(h, holds)
  <1>0. /\ held \in 0..(MaxRetries + 1) /\ holds \in 0..(MaxRetries + 1)
        /\ MaxRetries \in Nat /\ (MaxRetries + 1)..MaxRetries = {}
    BY IngestionAssumption DEF IngestionAssumption
  <1>1. Old \subseteq RequestTokens(j)
    <2>1. CASE held = 0
      BY <2>1, TokenMembers
    <2>2. CASE held = MaxRetries + 1
      BY <1>0, <2>2 DEF AttemptsFrom
    <2> QED BY <2>1, <2>2
  <1>2. Rest \subseteq RequestTokens(j) \ Old
    BY DEF AttemptsFrom
  <1>3. /\ IsFiniteSet(Rest) /\ Cardinality(Rest) \in Nat
        /\ Cardinality(RequestTokens(j)) \in Nat
        /\ Cardinality(Rest) <= Cardinality(RequestTokens(j)) - (MaxRetries + 1 - held)
    <2> HIDE DEF Rest
    <2> QED BY <1>0, <1>1, <1>2, SizeWithoutChain
  <1>4. ASSUME NEW t \in RequestTokens(j)' PROVE t \in Rest \union New
    <2>1. PICK g \in Handlers : /\ handlers'[g].job = j
                                /\ handlers'[g].pc = "publishing"
                                /\ t \in AttemptsFrom(g, 0)
      BY <1>4 DEF RequestTokens, Publishing, AttemptsFrom
    <2>2. CASE g # h
      <3>1. t \in RequestTokens(j)
        BY <2>1, <2>2, TokenMembers
      <3>2. t[1] = g
        BY <2>1 DEF AttemptsFrom
      <3> QED BY <2>2, <3>1, <3>2
    <2>3. CASE g = h
      BY <2>1, <2>3
    <2> QED BY <2>2, <2>3
  <1>5. /\ IsFiniteSet(RequestTokens(j)') /\ Cardinality(RequestTokens(j)') \in Nat
        /\ Cardinality(RequestTokens(j)') <= Cardinality(Rest) + (MaxRetries + 1 - holds)
    <2> HIDE DEF Rest
    <2> QED BY <1>0, <1>3, <1>4, SizeWithChain
  <1> HIDE DEF Rest
  <1> QED BY <1>0, <1>3, <1>5

\* The budget grows by one chain with every fault.
LEMMA BudgetGrows ==
    ASSUME TypeInv
    PROVE  /\ (MaxRetries + 1) * (1 + faults) \in Nat
           /\ (MaxRetries + 1) * (1 + faults) >= MaxRetries + 1
           /\ faults' = faults + 1 =>
                 (MaxRetries + 1) * (1 + faults')
                    = (MaxRetries + 1) * (1 + faults) + (MaxRetries + 1)
  <1>1. MaxRetries + 1 \in Nat /\ faults \in Nat
    BY IngestionAssumption DEF IngestionAssumption, TypeInv, TypeOK
  <1>2. \A m, f \in Nat : /\ m * (1 + f) = m + m * f
                          /\ m * f \in Nat
                          /\ m * (1 + (f + 1)) = m * (1 + f) + m
    BY SMT
  <1> QED BY <1>1, <1>2

\* The faults injected never decrease, and neither does the budget.
LEMMA FaultsGrow ==
    ASSUME TypeInv, Next
    PROVE  faults' = faults \/ faults' = faults + 1
  BY DEF Next, Tick, Request, HandlerStep, HandlerFault, StoreUpload, ReadForReindex,
         FlushDelete, CommitUpload, Publish, ReadUnpublished, RecordUnpublished,
         MarkQueued, CommitReindex, ReindexRefused, PurgeObject, CommitDelete,
         UndoUpload, FailPublish, AbandonRequest, Inject, WorkerStep, WorkerFault,
         Receive, Claim, Skip, JobMissing, ClaimRaises, BeginParsing, ReadObject,
         CommitIndexed, FailPipeline, ReadForFailure, PersistFailure, LosePersist,
         PublishRetry, Acknowledge, CrashWorker, Redeliver

\* Only a claim counts an attempt.
LEMMA AttemptsOfRows ==
    ASSUME TypeInv, TypeInv', NEW j \in Jobs
    PROVE  /\ jobs[j].attempts \in Nat /\ jobs'[j].attempts \in Nat
           /\ \A h \in Handlers : RequestWrites(h, j) =>
                 jobs'[j].attempts <= jobs[j].attempts
           /\ \A w \in Workers : WorkerWrites(w, j) =>
                 \/ jobs'[j].attempts = jobs[j].attempts
                 \/ /\ Claim(w) /\ workers[w].job = j
                    /\ jobs'[j].attempts = jobs[j].attempts + 1
  <1>1. jobs[j] \in JobRow /\ jobs'[j] \in JobRow
    BY DEF TypeInv, TypeOK
  <1>2. jobs[j].attempts \in Nat /\ jobs'[j].attempts \in Nat
    BY <1>1 DEF JobRow
  <1>3. ASSUME NEW h \in Handlers, RequestWrites(h, j)
        PROVE  jobs'[j].attempts <= jobs[j].attempts
    <2>1. NewJob.attempts = 0 /\ NoJobRow("DELETED").attempts = 0
      BY DEF NewJob, NoJobRow
    <2> QED BY <1>1, <1>2, <1>3, <2>1, KeptFields DEF RequestWrites
  <1>4. ASSUME NEW w \in Workers, WorkerWrites(w, j)
        PROVE  \/ jobs'[j].attempts = jobs[j].attempts
               \/ /\ Claim(w) /\ workers[w].job = j
                  /\ jobs'[j].attempts = jobs[j].attempts + 1
    BY <1>1, <1>4, KeptFields DEF WorkerWrites
  <1> QED BY <1>2, <1>3, <1>4

\* A request keeps every job within its budget: the job it creates starts with
\* one chain, its publication hands the chain to the message, and a publication
\* that raises is a fault.
LEMMA RequestBudget ==
    ASSUME BudgetInv, TypeInv', NEW h \in Handlers, RequestMoves(h), NEW j \in Jobs
    PROVE  WithinBudget(j)'
  <1> USE DEF BudgetInv
  <1> DEFINE q == Cardinality(QueueTokens(j))
             k == Cardinality(WorkerTokens(j))
             r == Cardinality(RequestTokens(j))
             q2 == Cardinality(QueueTokens(j)')
             k2 == Cardinality(WorkerTokens(j)')
             r2 == Cardinality(RequestTokens(j)')
             a == jobs[j].attempts
             a2 == jobs'[j].attempts
             budget == (MaxRetries + 1) * (1 + faults)
             budget2 == (MaxRetries + 1) * (1 + faults')
  <1>1. /\ TokensFinite(j) /\ a + (q + k + r) <= budget
        /\ workers' = workers
        /\ \A g \in Handlers \ {h} : handlers'[g] = handlers[g]
        /\ RequestWrites(h, j)
    BY RequestActs DEF WithinBudget, Left
  <1>2. /\ IsFiniteSet(QueueTokens(j)) /\ IsFiniteSet(WorkerTokens(j))
        /\ IsFiniteSet(RequestTokens(j))
    BY <1>1 DEF TokensFinite
  <1>3. q \in Nat /\ k \in Nat /\ r \in Nat
    BY <1>2, FS_CardinalityType
  <1>4. IsFiniteSet(WorkerTokens(j)') /\ k2 = k
    <2>1. WorkerTokens(j)' = WorkerTokens(j)
      BY <1>1 DEF WorkerTokens, WorkingOn, FirstLeft, Attempting
    <2> QED BY <1>2, <2>1
  <1>5. a \in Nat /\ a2 \in Nat /\ a2 <= a
    BY <1>1, AttemptsOfRows
  <1>6. /\ budget \in Nat /\ budget >= MaxRetries + 1 /\ MaxRetries \in Nat
        /\ \/ faults' = faults /\ budget2 = budget
           \/ faults' = faults + 1 /\ budget2 = budget + (MaxRetries + 1)
    <2>1. Next
      BY DEF Next, RequestMoves
    <2> QED
      BY <2>1, FaultsGrow, BudgetGrows, IngestionAssumption DEF IngestionAssumption
  <1>7. ASSUME IsFiniteSet(QueueTokens(j)'), IsFiniteSet(RequestTokens(j)'),
               a2 + (q2 + k2 + r2) <= budget2
        PROVE  WithinBudget(j)'
    BY <1>4, <1>7 DEF WithinBudget, TokensFinite, Left
  <1>8. queue' = queue => IsFiniteSet(QueueTokens(j)') /\ q2 <= q /\ q2 \in Nat
    <2>1. NoJob # j
      BY IngestionAssumption DEF IngestionAssumption
    <2> QED BY <1>2, <2>1, QueueElsewhere, SizeWithin
  <1>9. handlers[h].job # j => IsFiniteSet(QueueTokens(j)') /\ q2 <= q /\ q2 \in Nat
    BY <1>2, <1>8, RequestQueues, QueueElsewhere, SizeWithin
  <1>10. CASE (CommitUpload(h) \/ CommitReindex(h)) /\ handlers[h].job = j
    <2>1. /\ jobs'[j] = NewJob /\ queue' = queue
          /\ handlers[h].pc \in {"stored", "reindexing"}
      BY <1>10 DEF CommitUpload, CommitReindex, TypeInv, TypeOK
    <2>2. jobs[j].status = "NONE"
      BY <1>10, <2>1 DEF CreatorsHoldFreshJobs, Creating
    <2>3. /\ \A s \in 0..MaxRetries : queue[<<j, s>>] = 0
          /\ \A v \in Workers : workers[v].job # j
          /\ \A g \in Handlers : handlers[g].job = j => handlers[g].pc # "publishing"
      BY <2>2 DEF FreshJobsAreUnknown, WorkingOn, Creating
    <2>4. QueueTokens(j) = {} /\ WorkerTokens(j) = {} /\ RequestTokens(j) = {}
      <3>1. \A t : t \notin QueueTokens(j)
        <4>1. \A s \in 0..MaxRetries : 1..queue[<<j, s>>] = {}
          BY <2>3
        <4> QED BY <4>1, TokenMembers
      <3>2. \A t : t \notin WorkerTokens(j)
        BY <2>3, TokenMembers
      <3>3. \A t : t \notin RequestTokens(j)
        BY <2>3, TokenMembers
      <3> QED BY <3>1, <3>2, <3>3
    <2>5. q = 0 /\ k = 0 /\ r = 0
      BY <2>4, FS_EmptySet
    <2>6. IsFiniteSet(RequestTokens(j)') /\ r2 <= r + (MaxRetries + 1) /\ r2 \in Nat
      BY <1>1, <1>2, <1>6, <1>3, RequestTrades
    <2>7. a2 = 0
      BY <2>1 DEF NewJob
    <2>8. a2 + (q2 + k2 + r2) <= budget2
      <3> HIDE DEF q, k, r, q2, k2, r2, a, a2, budget, budget2
      <3> QED BY <1>3, <1>4, <1>6, <1>8, <2>1, <2>5, <2>6, <2>7
    <2> QED BY <1>7, <1>8, <2>1, <2>6, <2>8
  <1>11. CASE Publish(h) /\ handlers[h].job = j
    <2>1. /\ queue' = Enqueue(queue, <<j, 0>>) /\ handlers[h].pc = "publishing"
          /\ handlers'[h].pc = "marking"
      BY <1>11 DEF Publish, GoTo, TypeInv, TypeOK, HandlerState
    <2>2. IsFiniteSet(QueueTokens(j)') /\ q2 \in Nat /\ q2 <= q + (MaxRetries + 1 - 0)
      BY <1>2, <1>6, <2>1, QueueTrades
    <2>3. /\ IsFiniteSet(RequestTokens(j)') /\ r2 \in Nat
          /\ r2 <= r + 0 - (MaxRetries + 1)
      BY <1>1, <1>2, <1>11, <2>1, RequestTrades
    <2>4. a2 + (q2 + k2 + r2) <= budget2
      <3> HIDE DEF q, k, r, q2, k2, r2, a, a2, budget, budget2
      <3> QED BY <1>1, <1>3, <1>4, <1>5, <1>6, <2>2, <2>3
    <2> QED BY <1>7, <2>2, <2>3, <2>4
  <1>12. ~((CommitUpload(h) \/ CommitReindex(h)) /\ handlers[h].job = j) =>
             ~(handlers'[h].job = j /\ handlers'[h].pc = "publishing")
    <2> SUFFICES ASSUME ~((CommitUpload(h) \/ CommitReindex(h)) /\ handlers[h].job = j),
                        handlers'[h].job = j, handlers'[h].pc = "publishing"
                 PROVE  FALSE
      OBVIOUS
    <2>1. ~Idle(h) /\ handlers[h].job = j
      BY RequestGoes DEF IdleHandler, Creating
    <2> QED
      BY <2>1
      DEF TypeInv, TypeOK, HandlerState, RequestMoves, Request, HandlerStep,
          HandlerFault, StoreUpload, ReadForReindex, FlushDelete, Publish,
          ReadUnpublished, RecordUnpublished, MarkQueued, ReindexRefused,
          PurgeObject, CommitDelete, UndoUpload, FailPublish, AbandonRequest,
          GoTo, Return, Become, IdleHandler
  <1>13. CASE ~((CommitUpload(h) \/ CommitReindex(h) \/ Publish(h)) /\ handlers[h].job = j)
    <2>1. IsFiniteSet(RequestTokens(j)') /\ r2 \in Nat /\ r2 <= r
      <3>1. ~(handlers'[h].job = j /\ handlers'[h].pc = "publishing")
        BY <1>12, <1>13
      <3>2. /\ IsFiniteSet(RequestTokens(j)') /\ r2 \in Nat
            /\ r2 <= r + (MaxRetries + 1) - (MaxRetries + 1)
        BY <1>1, <1>2, <1>6, <3>1, RequestTrades
      <3> HIDE DEF r, r2
      <3> QED BY <1>3, <1>6, <3>2
    <2>2. CASE handlers[h].job # j \/ queue' = queue
      <3>1. a2 + (q2 + k2 + r2) <= budget2
        <4>1. q2 <= q /\ q2 \in Nat
          BY <1>8, <1>9, <2>2
        <4> HIDE DEF q, k, r, q2, k2, r2, a, a2, budget, budget2
        <4> QED BY <1>1, <1>3, <1>4, <1>5, <1>6, <2>1, <4>1
      <3> QED BY <1>7, <1>8, <1>9, <2>1, <2>2, <3>1
    <2>3. CASE handlers[h].job = j /\ queue' # queue
      <3>1. FailPublish(h) /\ queue' = Enqueue(queue, <<j, 0>>)
        BY <1>13, <2>3, RequestQueues
      <3>2. faults' = faults + 1
        BY <3>1, <2>3 DEF FailPublish, Inject
      <3>3. /\ IsFiniteSet(QueueTokens(j)') /\ q2 \in Nat
            /\ q2 <= q + (MaxRetries + 1 - 0)
        BY <1>2, <1>6, <3>1, QueueTrades
      <3>4. faults \in Nat
        BY DEF TypeInv, TypeOK
      <3>5. a2 + (q2 + k2 + r2) <= budget2
        <4> HIDE DEF q, k, r, q2, k2, r2, a, a2, budget, budget2
        <4> QED BY <1>1, <1>3, <1>4, <1>5, <1>6, <2>1, <3>2, <3>3, <3>4
      <3> QED BY <1>7, <2>1, <3>3, <3>5
    <2> QED BY <2>2, <2>3
  <1> QED BY <1>10, <1>11, <1>13

\* Between two receptions a worker only uses up the attempts it holds.
LEMMA FirstLeftGrows ==
    ASSUME TypeInv, NEW w \in Workers, WorkerMoves(w),
           ~(\E m \in Messages : Receive(w, m))
    PROVE  /\ workers'[w].job \in {workers[w].job, NoJob}
           /\ FirstLeft(w)' >= FirstLeft(w)
           /\ Claim(w) => /\ FirstLeft(w) = workers[w].retries
                          /\ FirstLeft(w)' = workers[w].retries + 1
           /\ PublishRetry(w) => /\ FirstLeft(w) = workers[w].retries + 1
                                 /\ FirstLeft(w)' = MaxRetries + 1
  <1> USE DEF TypeInv, TypeOK, WorkerState, Attempting, FirstLeft
  <1>1. workers[w].retries \in 0..MaxRetries /\ MaxRetries \in Nat
    BY IngestionAssumption DEF IngestionAssumption
  <1>2. /\ workers'[w] = IdleWorker
           \/ (workers'[w].job = workers[w].job /\ workers'[w].retries = workers[w].retries)
        /\ workers'[w].job \in {workers[w].job, NoJob}
    BY WorkerHolds DEF IdleWorker
  <1>3. CASE workers'[w] = IdleWorker
    <2>1. ~Claim(w) /\ ~PublishRetry(w)
      BY <1>3 DEF Claim, PublishRetry, Advance, IdleWorker
    <2>2. FirstLeft(w)' = MaxRetries + 1
      BY <1>3 DEF IdleWorker
    <2>3. FirstLeft(w) \in 0..(MaxRetries + 1)
      BY <1>1
    <2> QED BY <1>1, <1>2, <2>1, <2>2, <2>3
  <1>4. CASE workers'[w].pc = workers[w].pc /\ workers'[w].retries = workers[w].retries
    <2>1. ~Claim(w) /\ ~PublishRetry(w)
      BY <1>4 DEF Claim, PublishRetry, Advance
    <2>2. FirstLeft(w)' = FirstLeft(w) /\ FirstLeft(w) \in 0..(MaxRetries + 1)
      BY <1>1, <1>4
    <2> QED BY <1>1, <1>2, <2>1, <2>2
  <1>5. CASE ReadForFailure(w)
    <2>1. workers'[w].pc = "persisting" /\ workers[w].pc = "failing"
      BY <1>5, ReadMoves DEF ReadForFailure
    <2>2. workers'[w].retries = workers[w].retries
      BY <1>5, ReadMoves
    <2>3. FirstLeft(w)' = FirstLeft(w) /\ FirstLeft(w) \in 0..(MaxRetries + 1)
      BY <1>1, <2>1, <2>2
    <2> QED BY <1>1, <1>2, <2>1, <2>3 DEF Claim, PublishRetry
  <1>6. ASSUME NEW pc, Advance(w, pc)
        PROVE  workers'[w].pc = pc /\ workers'[w].retries = workers[w].retries
    BY <1>6 DEF Advance
  <1>7. CASE Claim(w)
    BY <1>1, <1>2, <1>6, <1>7 DEF Claim, PublishRetry
  <1>8. CASE PublishRetry(w)
    BY <1>1, <1>2, <1>6, <1>8 DEF Claim, PublishRetry
  <1>9. CASE \/ Skip(w) \/ JobMissing(w) \/ ClaimRaises(w) \/ BeginParsing(w)
             \/ ReadObject(w) \/ CommitIndexed(w) \/ FailPipeline(w)
             \/ PersistFailure(w) \/ LosePersist(w)
    <2>1. /\ workers[w].pc \in {"received", "claimed", "parsing", "embedding",
                                "persisting"}
          /\ workers'[w].retries = workers[w].retries
          /\ workers'[w].pc \in {"failing", "parsing", "embedding", "acking",
                                 "retrying"}
          /\ workers[w].pc = "received" \/ workers'[w].pc # "received"
      BY <1>6, <1>9
      DEF Skip, JobMissing, ClaimRaises, BeginParsing, ReadObject, CommitIndexed,
          FailPipeline, PersistFailure, LosePersist, AfterFailure, InTransaction
    <2>2. FirstLeft(w)' >= FirstLeft(w)
      BY <1>1, <2>1
    <2>3. ~Claim(w) /\ ~PublishRetry(w)
      BY <1>6, <2>1 DEF Claim, PublishRetry
    <2> QED BY <1>2, <2>2, <2>3
  <1>10. Redeliver(w) => /\ workers'[w].pc = workers[w].pc
                         /\ workers'[w].retries = workers[w].retries
    BY DEF Redeliver
  <1>11. Acknowledge(w) \/ CrashWorker(w) => workers'[w] = IdleWorker
    BY DEF Acknowledge, CrashWorker
  <1> QED
    BY <1>3, <1>4, <1>5, <1>7, <1>8, <1>9, <1>10, <1>11
    DEF WorkerMoves, WorkerStep, WorkerFault

\* A worker keeps every job within its budget: a reception hands the chain to
\* the worker, a claim uses up one attempt, a retry hands the rest back to the
\* queue, and a crash or a redelivery, which doubles a chain, is a fault.
LEMMA WorkerBudget ==
    ASSUME BudgetInv, TypeInv', NEW w \in Workers, WorkerMoves(w), NEW j \in Jobs
    PROVE  WithinBudget(j)'
  <1> USE DEF BudgetInv
  <1> DEFINE q == Cardinality(QueueTokens(j))
             k == Cardinality(WorkerTokens(j))
             r == Cardinality(RequestTokens(j))
             q2 == Cardinality(QueueTokens(j)')
             k2 == Cardinality(WorkerTokens(j)')
             r2 == Cardinality(RequestTokens(j)')
             a == jobs[j].attempts
             a2 == jobs'[j].attempts
             budget == (MaxRetries + 1) * (1 + faults)
             budget2 == (MaxRetries + 1) * (1 + faults')
             f == FirstLeft(w)
             f2 == FirstLeft(w)'
             M == MaxRetries
  <1>1. /\ TokensFinite(j) /\ a + (q + k + r) <= budget
        /\ handlers' = handlers
        /\ \A v \in Workers \ {w} : workers'[v] = workers[v]
        /\ WorkerWrites(w, j)
    BY WorkerActs DEF WithinBudget, Left
  <1>2. /\ IsFiniteSet(QueueTokens(j)) /\ IsFiniteSet(WorkerTokens(j))
        /\ IsFiniteSet(RequestTokens(j))
    BY <1>1 DEF TokensFinite
  <1>3. q \in Nat /\ k \in Nat /\ r \in Nat
    BY <1>2, FS_CardinalityType
  <1>4. IsFiniteSet(RequestTokens(j)') /\ r2 = r
    <2>1. RequestTokens(j)' = RequestTokens(j)
      BY <1>1 DEF RequestTokens, Publishing
    <2> QED BY <1>2, <2>1
  <1>5. /\ a \in Nat /\ a2 \in Nat
        /\ \/ a2 = a
           \/ Claim(w) /\ workers[w].job = j /\ a2 = a + 1
    BY <1>1, AttemptsOfRows
  <1>6. /\ budget \in Nat /\ M \in Nat /\ faults \in Nat
        /\ \/ faults' = faults /\ budget2 = budget
           \/ faults' = faults + 1 /\ budget2 = budget + (M + 1)
    <2>1. Next
      BY DEF Next, WorkerMoves
    <2>2. faults \in Nat
      BY DEF TypeInv, TypeOK
    <2> QED
      BY <2>1, <2>2, FaultsGrow, BudgetGrows, IngestionAssumption DEF IngestionAssumption
  <1>7. ASSUME IsFiniteSet(QueueTokens(j)'), IsFiniteSet(WorkerTokens(j)'),
               a2 + (q2 + k2 + r2) <= budget2
        PROVE  WithinBudget(j)'
    BY <1>4, <1>7 DEF WithinBudget, TokensFinite, Left
  <1>8. queue' = queue => IsFiniteSet(QueueTokens(j)') /\ q2 <= q /\ q2 \in Nat
    <2>1. NoJob # j
      BY IngestionAssumption DEF IngestionAssumption
    <2> QED BY <1>2, <2>1, QueueElsewhere, SizeWithin
  <1>9. /\ f \in 0..(M + 1) /\ f2 \in 0..(M + 1) /\ M + 1 \in 0..(M + 1)
    BY IngestionAssumption
    DEF IngestionAssumption, TypeInv, TypeOK, WorkerState, FirstLeft
  <1>10. ASSUME NEW m \in Messages, Receive(w, m) PROVE WithinBudget(j)'
    <2>1. /\ m[1] \in Jobs /\ m[2] \in 0..M /\ m = <<m[1], m[2]>>
      BY DEF Messages
    <2>2. /\ queue[m] > 0 /\ queue' = Dequeue(queue, m)
          /\ workers'[w].job = m[1] /\ f2 = m[2]
          /\ ~Claim(w) /\ faults' = faults
      <3> DEFINE received == [pc |-> "received", job |-> m[1], retries |-> m[2],
                              seen |-> "NONE", hold |-> 0, message |-> "held"]
      <3>1. workers'[w] = received
        BY <1>10 DEF Receive, TypeInv, TypeOK
      <3>2. workers'[w].pc = "received" /\ workers'[w].retries = m[2]
            /\ workers'[w].job = m[1]
        BY <3>1
      <3> QED BY <1>10, <3>2 DEF Receive, Claim, FirstLeft
    <2>3. CASE m[1] = j
      <3>1. /\ IsFiniteSet(QueueTokens(j)') /\ q2 \in Nat
            /\ q2 <= q - (M + 1 - m[2])
        BY <1>2, <2>1, <2>2, <2>3, QueueTrades
      <3>2. m[2] \in 0..(M + 1) /\ f2 >= m[2]
        BY <1>6, <2>1, <2>2
      <3>3. /\ IsFiniteSet(WorkerTokens(j)') /\ k2 \in Nat
            /\ k2 <= k + (M + 1) - m[2]
        <4> HIDE DEF f, f2
        <4>1. workers'[w].job = j => FirstLeft(w)' >= m[2]
          BY <3>2 DEF f2
        <4> QED BY <1>1, <1>2, <1>9, <3>2, <4>1, WorkerTrades
      <3>4. a2 + (q2 + k2 + r2) <= budget2
        <4> HIDE DEF q, k, r, q2, k2, r2, a, a2, budget, budget2
        <4> QED BY <1>1, <1>3, <1>4, <1>5, <1>6, <2>1, <2>2, <3>1, <3>3
      <3> QED BY <1>7, <3>1, <3>3, <3>4
    <2>4. CASE m[1] # j
      <3>1. IsFiniteSet(QueueTokens(j)') /\ q2 \in Nat /\ q2 <= q
        BY <1>2, <2>1, <2>2, <2>4, QueueElsewhere, SizeWithin
      <3>2. /\ IsFiniteSet(WorkerTokens(j)') /\ k2 \in Nat
            /\ k2 <= k + (M + 1) - (M + 1)
        BY <1>1, <1>2, <1>9, <2>2, <2>4, WorkerTrades
      <3>3. a2 + (q2 + k2 + r2) <= budget2
        <4> HIDE DEF q, k, r, q2, k2, r2, a, a2, budget, budget2
        <4> QED BY <1>1, <1>3, <1>4, <1>5, <1>6, <2>2, <3>1, <3>2
      <3> QED BY <1>7, <3>1, <3>2, <3>3
    <2> QED BY <2>3, <2>4
  <1>11. ASSUME ~(\E m \in Messages : Receive(w, m)), workers[w].job # j
         PROVE  WithinBudget(j)'
    <2>1. workers'[w].job # j
      BY <1>11, FirstLeftGrows, IngestionAssumption DEF IngestionAssumption
    <2>2. IsFiniteSet(QueueTokens(j)') /\ q2 \in Nat /\ q2 <= q
      BY <1>2, <1>8, <1>11, WorkerQueues, QueueElsewhere, SizeWithin
    <2>3. /\ IsFiniteSet(WorkerTokens(j)') /\ k2 \in Nat
          /\ k2 <= k + (M + 1) - (M + 1)
      BY <1>1, <1>2, <1>9, <2>1, WorkerTrades
    <2>4. a2 + (q2 + k2 + r2) <= budget2
      <3> HIDE DEF q, k, r, q2, k2, r2, a, a2, budget, budget2
      <3> QED BY <1>1, <1>3, <1>4, <1>5, <1>6, <1>11, <2>2, <2>3
    <2> QED BY <1>7, <2>2, <2>3, <2>4
  <1>12. ASSUME ~(\E m \in Messages : Receive(w, m)), workers[w].job = j
         PROVE  WithinBudget(j)'
    <2>1. /\ IsFiniteSet(WorkerTokens(j)') /\ k2 \in Nat /\ k2 <= k + f - f2
          /\ f2 >= f
      BY <1>1, <1>2, <1>9, <1>12, WorkerTrades, FirstLeftGrows
    <2>2. CASE Claim(w)
      <3>1. queue' = queue /\ faults' = faults /\ f2 = f + 1
        BY <1>12, <2>2, FirstLeftGrows DEF Claim
      <3>2. a2 + (q2 + k2 + r2) <= budget2
        <4> HIDE DEF q, k, r, q2, k2, r2, a, a2, budget, budget2, f, f2
        <4> QED BY <1>1, <1>3, <1>4, <1>5, <1>6, <1>8, <1>9, <2>1, <3>1
      <3> QED BY <1>7, <1>8, <2>1, <3>1, <3>2
    <2>3. CASE PublishRetry(w)
      <3>1. /\ f = workers[w].retries + 1 /\ f2 = M + 1 /\ faults' = faults
            /\ queue' = Enqueue(queue, <<j, workers[w].retries + 1>>)
            /\ workers[w].retries \in 0..M /\ workers[w].retries < M
        BY <1>12, <2>3, FirstLeftGrows
        DEF PublishRetry, RetriesRemain, TypeInv, TypeOK, WorkerState
      <3>2. f \in 0..M /\ queue' = Enqueue(queue, <<j, f>>)
        <4> HIDE DEF f
        <4> QED BY <1>6, <3>1
      <3>3. /\ IsFiniteSet(QueueTokens(j)') /\ q2 \in Nat /\ q2 <= q + (M + 1 - f)
        <4> HIDE DEF f
        <4> QED BY <1>2, <3>2, QueueTrades
      <3>4. ~Claim(w)
        BY <2>3 DEF Claim, PublishRetry
      <3>5. a2 + (q2 + k2 + r2) <= budget2
        <4> HIDE DEF q, k, r, q2, k2, r2, a, a2, budget, budget2, f, f2
        <4> QED BY <1>1, <1>3, <1>4, <1>5, <1>6, <1>9, <2>1, <3>1, <3>3, <3>4
      <3> QED BY <1>7, <2>1, <3>3, <3>5
    <2>4. CASE CrashWorker(w) \/ Redeliver(w)
      <3>1. /\ faults' = faults + 1
            /\ queue' = queue \/ queue' = Enqueue(queue, <<j, workers[w].retries>>)
            /\ workers[w].retries \in 0..M
        BY <1>12, <2>4
        DEF CrashWorker, Redeliver, Redelivered, Inject, TypeInv, TypeOK, WorkerState
      <3>2. IsFiniteSet(QueueTokens(j)') /\ q2 \in Nat /\ q2 <= q + (M + 1)
        <4>1. CASE queue' = queue
          <5>1. IsFiniteSet(QueueTokens(j)') /\ q2 \in Nat /\ q2 <= q
            BY <1>8, <4>1
          <5> HIDE DEF q, q2
          <5> QED BY <1>3, <1>6, <5>1
        <4>2. CASE queue' = Enqueue(queue, <<j, workers[w].retries>>)
          <5>1. /\ IsFiniteSet(QueueTokens(j)') /\ q2 \in Nat
                /\ q2 <= q + (M + 1 - workers[w].retries)
            BY <1>2, <3>1, <4>2, QueueTrades
          <5> HIDE DEF q, q2
          <5> QED BY <1>3, <1>6, <3>1, <5>1
        <4> QED BY <3>1, <4>1, <4>2
      <3>3. ~Claim(w)
        <4>1. workers[w] \in WorkerState
          BY DEF TypeInv, TypeOK
        <4>2. CrashWorker(w) => workers'[w].pc = "idle"
          BY DEF CrashWorker, IdleWorker, TypeInv, TypeOK
        <4>3. Redeliver(w) => workers'[w].pc = workers[w].pc
          BY DEF Redeliver, TypeInv, TypeOK, WorkerState
        <4>4. Claim(w) => workers'[w].pc = "claimed" /\ workers[w].pc = "received"
          BY DEF Claim, Advance, TypeInv, TypeOK, WorkerState
        <4> QED BY <2>4, <4>2, <4>3, <4>4
      <3>4. a2 + (q2 + k2 + r2) <= budget2
        <4> HIDE DEF q, k, r, q2, k2, r2, a, a2, budget, budget2, f, f2
        <4> QED BY <1>1, <1>3, <1>4, <1>5, <1>6, <1>9, <2>1, <3>1, <3>2, <3>3
      <3> QED BY <1>7, <2>1, <3>2, <3>4
    <2>5. CASE ~(Claim(w) \/ PublishRetry(w) \/ CrashWorker(w) \/ Redeliver(w))
      <3>1. queue' = queue
        BY <1>12, <2>5, WorkerQueues
      <3>2. a2 + (q2 + k2 + r2) <= budget2
        <4> HIDE DEF q, k, r, q2, k2, r2, a, a2, budget, budget2, f, f2
        <4> QED BY <1>1, <1>3, <1>4, <1>5, <1>6, <1>8, <1>9, <2>1, <2>5, <3>1
      <3> QED BY <1>7, <1>8, <2>1, <3>1, <3>2
    <2> QED BY <2>2, <2>3, <2>4, <2>5
  <1> QED BY <1>10, <1>11, <1>12

\* A job's attempts never exceed one chain of retries for its publication and
\* one for every fault, however its messages are duplicated, redelivered and
\* retried: what INGESTION_TASK_MAX_RETRIES promises of the table's attempts.
THEOREM AttemptsAreBounded == Spec => []AttemptsBounded
  <1>1. Init => BudgetInv
    <2> SUFFICES ASSUME Init PROVE BudgetInv
      OBVIOUS
    <2>1. /\ \A h \in Handlers : /\ handlers[h].pc = "idle"
                                 /\ handlers[h].job = NoJob
          /\ \A w \in Workers : workers[w].pc = "idle" /\ workers[w].job = NoJob
          /\ \A j \in Jobs : /\ jobs[j].status = "NONE" /\ j # NoJob
                             /\ jobs[j].attempts = 0
          /\ \A j \in Jobs, r \in 0..MaxRetries : queue[<<j, r>>] = 0
      BY IngestionAssumption
      DEF IngestionAssumption, Init, IdleHandler, IdleWorker, NoJobRow, NewJob, Messages
    <2>2. FreshJobsAreUnknown /\ CreatorsHoldFreshJobs /\ RetriesRemain
      BY <2>1
      DEF FreshJobsAreUnknown, WorkingOn, CreatorsHoldFreshJobs, Creating, RetriesRemain
    <2>3. TypeInv
      BY InitTyped
    <2>4. ASSUME NEW j \in Jobs PROVE WithinBudget(j)
      <3>1. QueueTokens(j) = {} /\ WorkerTokens(j) = {} /\ RequestTokens(j) = {}
        <4>1. \A r \in 0..MaxRetries : 1..queue[<<j, r>>] = {}
          BY <2>1
        <4>2. \A t : t \notin QueueTokens(j)
          BY <2>3, <4>1, TokenMembers
        <4>3. \A t : t \notin WorkerTokens(j)
          BY <2>1, <2>3, TokenMembers
        <4>4. \A t : t \notin RequestTokens(j)
          BY <2>1, <2>3, TokenMembers
        <4> QED BY <4>2, <4>3, <4>4
      <3>2. TokensFinite(j) /\ Left(j) = 0
        BY <3>1, FS_EmptySet DEF TokensFinite, Left
      <3> QED BY <2>1, <2>3, <3>2, BudgetGrows DEF WithinBudget
    <2> QED BY <2>2, <2>3, <2>4 DEF BudgetInv
  <1>2. BudgetInv /\ [Next]_vars => BudgetInv'
    <2> SUFFICES ASSUME BudgetInv, [Next]_vars PROVE BudgetInv'
      OBVIOUS
    <2>1. TypeInv /\ TypeInv'
      BY TypeInvStep DEF BudgetInv
    <2>2. ASSUME NEW j \in Jobs, queue' = queue, handlers' = handlers, faults' = faults,
                 jobs'[j].attempts = jobs[j].attempts,
                 \A w \in Workers : /\ workers'[w].pc = workers[w].pc
                                    /\ workers'[w].job = workers[w].job
                                    /\ workers'[w].retries = workers[w].retries
          PROVE  WithinBudget(j)'
      <3>1. QueueTokens(j)' = QueueTokens(j) /\ RequestTokens(j)' = RequestTokens(j)
        BY <2>2 DEF QueueTokens, CopyTokens, RequestTokens, Publishing
      <3>2. WorkerTokens(j)' = WorkerTokens(j)
        <4>1. /\ WorkingOn(j)' = WorkingOn(j)
              /\ \A w \in WorkingOn(j) : FirstLeft(w)' = FirstLeft(w)
          BY <2>2 DEF WorkingOn, FirstLeft, Attempting
        <4> QED BY <4>1 DEF WorkerTokens
      <3> QED
        BY <2>2, <3>1, <3>2 DEF BudgetInv, WithinBudget, TokensFinite, Left
    <2>3. CASE Next
      <3>1. \A j \in Jobs : WithinBudget(j)'
        <4> TAKE j \in Jobs
        <4>1. ASSUME NEW h \in Handlers, RequestMoves(h) PROVE WithinBudget(j)'
          BY <2>1, <4>1, RequestBudget
        <4>2. ASSUME NEW w \in Workers, WorkerMoves(w) PROVE WithinBudget(j)'
          BY <2>1, <4>2, WorkerBudget
        <4>3. CASE Tick
          BY <2>1, <2>2, <4>3, TickAges, TickKeepsRows DEF Tick
        <4> QED BY <2>3, <4>1, <4>2, <4>3 DEF Next, RequestMoves, WorkerMoves
      <3> QED
        BY <2>1, <2>3, <3>1, CreatorsStep, FreshStep, RetriesStep DEF BudgetInv
    <2>4. CASE UNCHANGED vars
      <3>1. \A j \in Jobs : WithinBudget(j)'
        BY <2>2, <2>4 DEF vars
      <3> QED
        BY <2>1, <2>4, <3>1
        DEF vars, BudgetInv, CreatorsHoldFreshJobs, Creating, FreshJobsAreUnknown,
            WorkingOn, RetriesRemain
    <2> QED BY <2>3, <2>4
  <1>3. BudgetInv => AttemptsBounded
    <2> SUFFICES ASSUME BudgetInv, NEW j \in Jobs
                 PROVE  jobs[j].attempts <= (MaxRetries + 1) * (1 + faults)
      BY DEF AttemptsBounded
    <2>1. TokensFinite(j) /\ jobs[j].attempts + Left(j) <= (MaxRetries + 1) * (1 + faults)
      BY DEF BudgetInv, WithinBudget
    <2>2. Left(j) \in Nat
      BY <2>1, FS_CardinalityType DEF TokensFinite, Left
    <2>3. jobs[j].attempts \in Nat /\ (MaxRetries + 1) * (1 + faults) \in Nat
      BY BudgetGrows DEF BudgetInv, TypeInv, TypeOK, JobRow
    <2> QED BY <2>1, <2>2, <2>3
  <1> QED BY <1>1, <1>2, <1>3, PTL DEF Spec

-----------------------------------------------------------------------------
(* Jobs whose messages are delivered once *)

\* The faults that leave every message delivered once, and let every process
\* and every transaction come to its end: publications that raise and send
\* nothing, and deletions of objects that fail.
DeliveredOnce == Faults \subseteq {"publish", "storage"}

\* A request that has created job j and has not published it, or has failed to.
Pledged(h, j) ==
    /\ handlers[h].job = j
    /\ handlers[h].pc \in {"publishing", "unpublished", "recording"}

\* A worker that has received job j and still has something to do for it.
Carrying(w, j) == workers[w].job = j /\ workers[w].pc \notin {"idle", "acking"}

\* A job is in one place: with a request, in one message, or with a worker.
OneCarrier(j) ==
    /\ \A g, h \in Handlers : Pledged(g, j) /\ Pledged(h, j) => g = h
    /\ \A v, w \in Workers : Carrying(v, j) /\ Carrying(w, j) => v = w
    /\ \A r, s \in 0..MaxRetries : queue[<<j, r>>] > 0 /\ queue[<<j, s>>] > 0 => r = s
    /\ \A r \in 0..MaxRetries : queue[<<j, r>>] <= 1
    /\ \A h \in Handlers, r \in 0..MaxRetries : ~(Pledged(h, j) /\ queue[<<j, r>>] > 0)
    /\ \A h \in Handlers, w \in Workers : ~(Pledged(h, j) /\ Carrying(w, j))
    /\ \A w \in Workers, r \in 0..MaxRetries : ~(Carrying(w, j) /\ queue[<<j, r>>] > 0)

\* Job j has been claimed n times, which tells its status, unless it is gone.
Tried(j, n) ==
    \/ jobs[j].status = "DELETED"
    \/ /\ jobs[j].attempts = n
       /\ jobs[j].status = IF n = 0 THEN "PENDING" ELSE "PROCESSING"

\* The attempts of a worker's job by the retries counted in its message.
Tries(w) ==
    IF workers[w].pc = "received" THEN workers[w].retries ELSE workers[w].retries + 1

CarriersCount(j) ==
    /\ \A h \in Handlers : Pledged(h, j) => Tried(j, 0)
    /\ \A r \in 0..MaxRetries : queue[<<j, r>>] > 0 => Tried(j, r)
    /\ \A w \in Workers : Carrying(w, j) => Tried(j, Tries(w))

FreshRowsAreBlank == \A j \in Jobs : jobs[j].status = "NONE" => jobs[j].attempts = 0

DeliveryInv ==
    /\ TypeInv
    /\ CreatorsHoldFreshJobs
    /\ FreshJobsAreUnknown
    /\ RetriesRemain
    /\ FreshRowsAreBlank
    /\ \A j \in Jobs : OneCarrier(j) /\ CarriersCount(j)

\* The messages of a job, and how many copies of each wait.
LEMMA CopiesCounted ==
    ASSUME TypeInv, NEW j \in Jobs
    PROVE  \A r \in 0..MaxRetries : <<j, r>> \in Messages /\ queue[<<j, r>>] \in Nat
  BY DEF TypeInv, TypeOK, Messages

\* A row that keeps its status and its attempts has been tried as often.
LEMMA TriedKept ==
    ASSUME NEW j \in Jobs, jobs'[j].status = jobs[j].status,
           jobs'[j].attempts = jobs[j].attempts
    PROVE  \A n : Tried(j, n) => Tried(j, n)'
  BY DEF Tried

\* When all who carry a job have carried it before, and its row tells the same,
\* nothing is new.
LEMMA CarriersKept ==
    ASSUME NEW j \in Jobs, OneCarrier(j), CarriersCount(j),
           \A h \in Handlers : Pledged(h, j)' => Pledged(h, j),
           \A r \in 0..MaxRetries : queue'[<<j, r>>] = queue[<<j, r>>],
           \A w \in Workers : Carrying(w, j)' => Carrying(w, j)
    PROVE  /\ OneCarrier(j)'
           /\ (\A n : Tried(j, n) => Tried(j, n)')
              /\ (\A w \in Workers : Carrying(w, j)' => Tries(w)' = Tries(w))
              => CarriersCount(j)'
  <1>1. OneCarrier(j)'
    BY DEF OneCarrier
  <1>2. ASSUME \A n : Tried(j, n) => Tried(j, n)',
               \A w \in Workers : Carrying(w, j)' => Tries(w)' = Tries(w)
        PROVE  CarriersCount(j)'
    <2>1. \A h \in Handlers : Pledged(h, j)' => Tried(j, 0)'
      BY <1>2 DEF CarriersCount
    <2>2. \A r \in 0..MaxRetries : queue'[<<j, r>>] > 0 => Tried(j, r)'
      BY <1>2 DEF CarriersCount
    <2>3. ASSUME NEW w \in Workers, Carrying(w, j)' PROVE Tried(j, Tries(w))'
      <3>1. Tried(j, Tries(w)) /\ Tries(w)' = Tries(w)
        BY <1>2, <2>3 DEF CarriersCount
      <3>2. Tried(j, Tries(w))' <=> \/ jobs'[j].status = "DELETED"
                                    \/ /\ jobs'[j].attempts = Tries(w)'
                                       /\ jobs'[j].status = IF Tries(w)' = 0 THEN "PENDING"
                                                            ELSE "PROCESSING"
        BY DEF Tried
      <3> DEFINE n == Tries(w)
      <3>3. Tried(j, n)'
        <4> HIDE DEF n
        <4>1. Tried(j, n)
          BY <3>1 DEF n
        <4> QED BY <1>2, <3>1, <3>2, <4>1 DEF Tried, n
      <3> QED BY <3>3
    <2> QED BY <2>1, <2>2, <2>3 DEF CarriersCount
  <1> QED BY <1>1, <1>2

\* When a row is removed, its carriers know nothing else of it.
LEMMA GoneIsTried ==
    ASSUME NEW j \in Jobs, jobs'[j].status = "DELETED"
    PROVE  CarriersCount(j)'
  BY DEF CarriersCount, Tried

\* How a request comes to hold a job that it must publish.
LEMMA RequestPledges ==
    ASSUME TypeInv, NEW h \in Handlers, RequestMoves(h), NEW j \in Jobs, Pledged(h, j)'
    PROVE  /\ handlers[h].job = j
           /\ ~Publish(h) /\ ~RecordUnpublished(h)
           /\ Pledged(h, j) \/ CommitUpload(h) \/ CommitReindex(h)
  <1> USE DEF TypeInv, TypeOK, HandlerState, Pledged
  <1>1. j # NoJob
    BY IngestionAssumption DEF IngestionAssumption
  <1>2. CASE \/ \E k \in Jobs : StoreUpload(h, k) \/ ReadForReindex(h, k)
             \/ \E d \in Documents : FlushDelete(h, d)
    BY <1>2 DEF StoreUpload, ReadForReindex, FlushDelete, Become
  <1>3. CASE \/ RecordUnpublished(h) \/ MarkQueued(h) \/ ReindexRefused(h)
             \/ CommitDelete(h) \/ UndoUpload(h) \/ AbandonRequest(h)
    BY <1>1, <1>3 DEF RecordUnpublished, MarkQueued, ReindexRefused, CommitDelete,
                UndoUpload, AbandonRequest, Return, IdleHandler
  <1>4. CASE Publish(h) \/ PurgeObject(h)
    BY <1>4 DEF Publish, PurgeObject, GoTo
  <1>5. CASE CommitUpload(h) \/ CommitReindex(h) \/ FailPublish(h)
    BY <1>5 DEF CommitUpload, CommitReindex, FailPublish, GoTo, Publish, RecordUnpublished
  <1>6. CASE ReadUnpublished(h)
    BY <1>6 DEF ReadUnpublished, Become, Publish, RecordUnpublished
  <1> QED
    BY <1>2, <1>3, <1>4, <1>5, <1>6 DEF RequestMoves, Request, HandlerStep, HandlerFault

\* What the queue holds of a job after a step of a request.
LEMMA RequestSends ==
    ASSUME DeliveredOnce, TypeInv, NEW h \in Handlers, RequestMoves(h), NEW j \in Jobs
    PROVE  \/ /\ Publish(h) /\ Pledged(h, j) /\ jobs' = jobs
              /\ \A r \in 0..MaxRetries :
                    queue'[<<j, r>>] = IF r = 0 THEN queue[<<j, r>>] + 1
                                                ELSE queue[<<j, r>>]
           \/ \A r \in 0..MaxRetries : queue'[<<j, r>>] = queue[<<j, r>>]
  <1>1. CASE queue' = queue
    BY <1>1
  <1>2. CASE /\ Publish(h) \/ FailPublish(h)
             /\ handlers[h].pc = "publishing" /\ handlers[h].job \in Jobs
             /\ queue' = Enqueue(queue, <<handlers[h].job, 0>>)
    <2>1. \A r \in 0..MaxRetries : <<j, r>> \in Messages
      BY CopiesCounted
    <2>2. CASE handlers[h].job # j
      BY <1>2, <2>1, <2>2, CopiesOf DEF TypeInv
    <2>3. CASE handlers[h].job = j
      <3>1. ASSUME NEW r \in 0..MaxRetries
            PROVE  queue'[<<j, r>>] = IF r = 0 THEN queue[<<j, r>>] + 1
                                               ELSE queue[<<j, r>>]
        BY <1>2, <2>1, <2>3, CopiesOf DEF TypeInv
      <3>2. CASE Publish(h)
        BY <1>2, <2>3, <3>1, <3>2 DEF Publish, Pledged, database
      <3>3. CASE FailPublish(h)
        BY <1>1, <3>3 DEF FailPublish, DeliveredOnce, Inject
      <3> QED BY <1>2, <3>2, <3>3
    <2> QED BY <2>2, <2>3
  <1> QED BY <1>1, <1>2, RequestQueues

\* A request hands its job to the queue, or concludes it, or keeps it; the job
\* it creates is nobody else's.
LEMMA RequestDelivers ==
    ASSUME DeliveredOnce, DeliveryInv, NEW h \in Handlers, RequestMoves(h), NEW j \in Jobs
    PROVE  OneCarrier(j)' /\ CarriersCount(j)'
  <1> USE DEF DeliveryInv
  <1>1. /\ RequestWrites(h, j) /\ jobs[j] \in JobRow
        /\ workers' = workers
        /\ \A g \in Handlers \ {h} : handlers'[g] = handlers[g]
        /\ \A r \in 0..MaxRetries : queue[<<j, r>>] \in Nat
        /\ OneCarrier(j) /\ CarriersCount(j)
    BY RequestActs, CopiesCounted DEF TypeInv, TypeOK
  <1>2. /\ \A w \in Workers : Carrying(w, j)' <=> Carrying(w, j)
        /\ \A w \in Workers : Tries(w)' = Tries(w)
        /\ \A g \in Handlers \ {h} : Pledged(g, j)' <=> Pledged(g, j)
    BY <1>1 DEF Carrying, Tries, Pledged
  <1>3. CASE (CommitUpload(h) \/ CommitReindex(h)) /\ handlers[h].job = j
    <2>1. jobs[j].status = "NONE" /\ Creating(h) /\ ~Pledged(h, j)
      BY <1>3 DEF CommitUpload, CommitReindex, Creating, CreatorsHoldFreshJobs, Pledged
    <2>2. /\ \A r \in 0..MaxRetries : queue[<<j, r>>] = 0
          /\ \A w \in Workers : ~Carrying(w, j)
          /\ \A g \in Handlers \ {h} : ~Pledged(g, j)
      BY <1>3, <2>1
      DEF FreshJobsAreUnknown, WorkingOn, Carrying, Pledged, CreatorsHoldFreshJobs
    <2>3. \A r \in 0..MaxRetries : queue'[<<j, r>>] = 0
      BY <2>1, <2>2, RequestSends
    <2>4. jobs'[j] = NewJob
      BY <1>3 DEF CommitUpload, CommitReindex, TypeInv, TypeOK
    <2>5. Tried(j, 0)'
      BY <2>4 DEF Tried, NewJob
    <2> QED BY <1>2, <2>2, <2>3, <2>5 DEF OneCarrier, CarriersCount
  <1>4. ASSUME Publish(h), Pledged(h, j), jobs' = jobs,
               \A r \in 0..MaxRetries :
                  queue'[<<j, r>>] = IF r = 0 THEN queue[<<j, r>>] + 1
                                              ELSE queue[<<j, r>>]
        PROVE  OneCarrier(j)' /\ CarriersCount(j)'
    <2>1. /\ \A r \in 0..MaxRetries : queue[<<j, r>>] = 0
          /\ \A w \in Workers : ~Carrying(w, j)
          /\ \A g \in Handlers \ {h} : ~Pledged(g, j)
          /\ Tried(j, 0)
      BY <1>1, <1>4 DEF OneCarrier, CarriersCount
    <2>2. ~Pledged(h, j)'
      BY <1>4, RequestPledges
    <2>3. Tried(j, 0)'
      BY <1>4, <2>1, TriedKept
    <2>4. \A r \in 0..MaxRetries : queue'[<<j, r>>] = IF r = 0 THEN 1 ELSE 0
      BY <1>4, <2>1
    <2> QED BY <1>2, <2>1, <2>2, <2>3, <2>4 DEF OneCarrier, CarriersCount
  <1>5. ASSUME ~((CommitUpload(h) \/ CommitReindex(h)) /\ handlers[h].job = j),
               \A r \in 0..MaxRetries : queue'[<<j, r>>] = queue[<<j, r>>]
        PROVE  OneCarrier(j)' /\ CarriersCount(j)'
    <2>1. Pledged(h, j)' => Pledged(h, j)
      BY <1>5, RequestPledges
    <2>2. OneCarrier(j)'
      BY <1>1, <1>2, <1>5, <2>1, CarriersKept
    <2>3. ASSUME jobs'[j].status = jobs[j].status, jobs'[j].attempts = jobs[j].attempts
          PROVE  CarriersCount(j)'
      BY <1>1, <1>2, <1>5, <2>1, <2>3, CarriersKept, TriedKept
    <2>4. CASE RecordUnpublished(h) /\ handlers[h].job = j
      <3>1. Pledged(h, j) /\ ~Pledged(h, j)'
        BY <2>4, RequestPledges DEF RecordUnpublished, Pledged
      <3>2. /\ \A r \in 0..MaxRetries : ~(queue'[<<j, r>>] > 0)
            /\ \A w \in Workers : ~Carrying(w, j)'
            /\ \A g \in Handlers : ~Pledged(g, j)'
        BY <1>1, <1>2, <1>5, <3>1 DEF OneCarrier
      <3> QED BY <2>2, <3>2 DEF CarriersCount
    <2>5. CASE jobs'[j] = NoJobRow("DELETED")
      <3>1. jobs'[j].status = "DELETED"
        BY <2>5 DEF NoJobRow, NewJob
      <3> QED BY <2>2, <3>1, GoneIsTried
    <2>6. CASE jobs'[j] = QueuedRow(jobs[j])
      BY <1>1, <2>2, <2>3, <2>6, WrittenFields, KeptFields
    <2>7. CASE jobs'[j] = jobs[j]
      BY <2>2, <2>3, <2>7
    <2> QED BY <1>1, <1>5, <2>4, <2>5, <2>6, <2>7 DEF RequestWrites
  <1> QED BY <1>3, <1>4, <1>5, RequestSends

\* What a worker that still carries a job has done for it.
LEMMA WorkerGoesOn ==
    ASSUME DeliveredOnce, TypeInv, NEW w \in Workers, WorkerMoves(w), NEW j \in Jobs,
           Carrying(w, j)'
    PROVE  \/ \E r \in 0..MaxRetries :
                 /\ Receive(w, <<j, r>>)
                 /\ workers'[w].pc = "received" /\ workers'[w].retries = r
           \/ /\ Carrying(w, j) /\ ~PublishRetry(w) /\ ~CommitIndexed(w)
              /\ ~(\E m \in Messages : Receive(w, m))
              /\ PersistFailure(w) => ~FinalAttempt(w)
              /\ \/ Claim(w) /\ Tries(w)' = Tries(w) + 1
                 \/ JobMissing(w)
                 \/ ~Claim(w) /\ Tries(w)' = Tries(w)
  <1> USE DEF TypeInv, TypeOK, WorkerState, Carrying, Tries
  <1>1. j # NoJob
    BY IngestionAssumption DEF IngestionAssumption
  <1>2. CASE \E m \in Messages : Receive(w, m)
    <2>1. PICK m \in Messages : Receive(w, m)
      BY <1>2
    <2>2. m = <<m[1], m[2]>> /\ m[2] \in 0..MaxRetries
      BY DEF Messages
    <2>3. /\ workers'[w].pc = "received" /\ workers'[w].retries = m[2]
          /\ workers'[w].job = m[1]
      BY <2>1 DEF Receive
    <2> QED BY <2>1, <2>2, <2>3
  <1>3. CASE Claim(w) \/ JobMissing(w)
    BY <1>3
    DEF Claim, JobMissing, Advance, Receive, PublishRetry, CommitIndexed, PersistFailure
  <1>4. CASE BeginParsing(w) \/ ReadObject(w) \/ FailPipeline(w)
    BY <1>4
    DEF BeginParsing, ReadObject, FailPipeline, InTransaction, Advance,
        Receive, PublishRetry, CommitIndexed, PersistFailure, Claim
  <1>8. CASE ReadForFailure(w)
    <2>1. workers[w].pc = "failing"
      BY <1>8 DEF ReadForFailure
    <2> QED
      BY <1>8, <2>1, ReadMoves
      DEF Receive, PublishRetry, CommitIndexed, PersistFailure, Claim
  <1>5. CASE PersistFailure(w)
    <2>1. workers'[w] = [workers[w] EXCEPT !.pc = AfterFailure(w)]
      BY <1>5 DEF PersistFailure, Advance
    <2>2. ~FinalAttempt(w) /\ workers'[w].pc = "retrying"
      BY <2>1 DEF AfterFailure
    <2> QED
      BY <1>5, <2>1, <2>2
      DEF PersistFailure, Receive, PublishRetry, CommitIndexed, Claim
  <1>6. CASE \/ Skip(w) \/ CommitIndexed(w) \/ PublishRetry(w) \/ Acknowledge(w)
    BY <1>1, <1>6 DEF Skip, CommitIndexed, PublishRetry, Acknowledge, Advance, IdleWorker
  <1>7. ~WorkerFault(w)
    BY DEF WorkerFault, ClaimRaises, LosePersist, CrashWorker, Redeliver, Inject,
           DeliveredOnce
  <1> QED
    BY <1>2, <1>3, <1>4, <1>5, <1>6, <1>7, <1>8 DEF WorkerMoves, WorkerStep

\* What the queue holds of a job after a step of a worker.
LEMMA WorkerSends ==
    ASSUME DeliveredOnce, TypeInv, NEW w \in Workers, WorkerMoves(w), NEW j \in Jobs
    PROVE  \/ \A r \in 0..MaxRetries : queue'[<<j, r>>] = queue[<<j, r>>]
           \/ \E r \in 0..MaxRetries :
                 /\ Receive(w, <<j, r>>) /\ queue[<<j, r>>] > 0
                 /\ \A s \in 0..MaxRetries :
                       queue'[<<j, s>>] = IF s = r THEN queue[<<j, s>>] - 1
                                                   ELSE queue[<<j, s>>]
           \/ /\ PublishRetry(w) /\ workers[w].job = j
              /\ \A s \in 0..MaxRetries :
                    queue'[<<j, s>>] = IF s = workers[w].retries + 1
                                       THEN queue[<<j, s>>] + 1 ELSE queue[<<j, s>>]
  <1>1. \A r \in 0..MaxRetries : <<j, r>> \in Messages
    BY DEF Messages
  <1>2. ASSUME NEW m \in Messages, Receive(w, m)
        PROVE  \/ \A r \in 0..MaxRetries : queue'[<<j, r>>] = queue[<<j, r>>]
               \/ \E r \in 0..MaxRetries :
                     /\ Receive(w, <<j, r>>) /\ queue[<<j, r>>] > 0
                     /\ \A s \in 0..MaxRetries :
                           queue'[<<j, s>>] = IF s = r THEN queue[<<j, s>>] - 1
                                                       ELSE queue[<<j, s>>]
    <2>1. queue' = Dequeue(queue, m) /\ queue[m] > 0
      BY <1>2 DEF Receive
    <2>2. CASE m[1] # j
      <3>1. \A r \in 0..MaxRetries : m # <<j, r>>
        BY <2>2
      <3> QED BY <1>1, <2>1, <3>1, CopiesOf DEF TypeInv
    <2>3. CASE m[1] = j
      <3>1. m[2] \in 0..MaxRetries /\ m = <<j, m[2]>>
        BY <2>3 DEF Messages
      <3>2. ASSUME NEW s \in 0..MaxRetries
            PROVE  queue'[<<j, s>>] = IF s = m[2] THEN queue[<<j, s>>] - 1
                                                  ELSE queue[<<j, s>>]
        <4>1. CASE s = m[2]
          BY <1>1, <2>1, <3>1, <4>1, CopiesOf DEF TypeInv
        <4>2. CASE s # m[2]
          BY <1>1, <2>1, <3>1, <4>2, CopiesOf DEF TypeInv
        <4> QED BY <4>1, <4>2
      <3> QED BY <1>2, <2>1, <3>1, <3>2
    <2> QED BY <2>2, <2>3
  <1>3. CASE PublishRetry(w)
    <2>1. queue' = Enqueue(queue, <<workers[w].job, workers[w].retries + 1>>)
      BY <1>3 DEF PublishRetry
    <2>2. CASE workers[w].job = j
      <3>1. ASSUME NEW s \in 0..MaxRetries
            PROVE  queue'[<<j, s>>] = IF s = workers[w].retries + 1
                                      THEN queue[<<j, s>>] + 1 ELSE queue[<<j, s>>]
        <4>1. CASE s = workers[w].retries + 1
          BY <1>1, <2>1, <2>2, <4>1, CopiesOf DEF TypeInv
        <4>2. CASE s # workers[w].retries + 1
          BY <1>1, <2>1, <2>2, <4>2, CopiesOf DEF TypeInv
        <4> QED BY <4>1, <4>2
      <3> QED BY <1>3, <2>2, <3>1
    <2>3. CASE workers[w].job # j
      BY <1>1, <2>1, <2>3, CopiesOf DEF TypeInv
    <2> QED BY <2>2, <2>3
  <1>4. ~(CrashWorker(w) \/ Redeliver(w))
    BY DEF CrashWorker, Redeliver, Inject, DeliveredOnce
  <1>5. CASE queue' = queue
    BY <1>5
  <1> QED BY <1>2, <1>3, <1>4, <1>5, WorkerQueues

\* A worker takes its job from a message, counts its claim, and hands it on to
\* one retry or to nobody.
LEMMA WorkerDelivers ==
    ASSUME DeliveredOnce, DeliveryInv, NEW w \in Workers, WorkerMoves(w), NEW j \in Jobs
    PROVE  OneCarrier(j)' /\ CarriersCount(j)'
  <1> USE DEF DeliveryInv
  <1>1. /\ WorkerWrites(w, j) /\ jobs[j] \in JobRow
        /\ handlers' = handlers
        /\ \A v \in Workers \ {w} : workers'[v] = workers[v]
        /\ \A r \in 0..MaxRetries : queue[<<j, r>>] \in Nat
        /\ workers[w].retries \in 0..MaxRetries
        /\ OneCarrier(j) /\ CarriersCount(j)
    BY WorkerActs, CopiesCounted DEF TypeInv, TypeOK, WorkerState
  <1>2. /\ \A v \in Workers \ {w} : Carrying(v, j)' <=> Carrying(v, j)
        /\ \A v \in Workers \ {w} : Tries(v)' = Tries(v)
        /\ \A h \in Handlers : Pledged(h, j)' <=> Pledged(h, j)
    BY <1>1 DEF Carrying, Tries, Pledged
  <1>3. ASSUME NEW r \in 0..MaxRetries, Receive(w, <<j, r>>), queue[<<j, r>>] > 0,
               \A s \in 0..MaxRetries :
                  queue'[<<j, s>>] = IF s = r THEN queue[<<j, s>>] - 1
                                              ELSE queue[<<j, s>>]
        PROVE  OneCarrier(j)' /\ CarriersCount(j)'
    <2>1. /\ \A s \in 0..MaxRetries : queue'[<<j, s>>] = 0
          /\ \A v \in Workers : ~Carrying(v, j)
          /\ \A h \in Handlers : ~Pledged(h, j)
          /\ Tried(j, r)
      BY <1>1, <1>3 DEF OneCarrier, CarriersCount
    <2>2. Carrying(w, j)' /\ Tries(w)' = r /\ jobs' = jobs
      BY <1>3 DEF Receive, Carrying, Tries, database, TypeInv, TypeOK
    <2>3. Tried(j, r)'
      BY <2>1, <2>2, TriedKept
    <2>4. OneCarrier(j)'
      BY <1>2, <2>1, <2>2 DEF OneCarrier
    <2>5. Tried(j, Tries(w))'
      BY <2>2, <2>3 DEF Tried
    <2> QED BY <1>2, <2>1, <2>4, <2>5 DEF CarriersCount
  <1>4. ASSUME PublishRetry(w), workers[w].job = j,
               \A s \in 0..MaxRetries :
                  queue'[<<j, s>>] = IF s = workers[w].retries + 1
                                     THEN queue[<<j, s>>] + 1 ELSE queue[<<j, s>>]
        PROVE  OneCarrier(j)' /\ CarriersCount(j)'
    <2>9. PICK n \in Nat : n = workers[w].retries + 1
      BY <1>1
    <2>1. Carrying(w, j) /\ ~Carrying(w, j)' /\ jobs' = jobs /\ Tries(w) = n
      BY <1>4, <2>9 DEF PublishRetry, Carrying, Advance, database, TypeInv, TypeOK, Tries
    <2>2. /\ \A s \in 0..MaxRetries : queue[<<j, s>>] = 0
          /\ \A v \in Workers \ {w} : ~Carrying(v, j)
          /\ \A h \in Handlers : ~Pledged(h, j)
      BY <1>1, <2>1 DEF OneCarrier
    <2>3. Tried(j, n)
      BY <1>1, <2>1 DEF CarriersCount
    <2>4. Tried(j, n)'
      BY <2>1, <2>3, TriedKept
    <2>5. \A s \in 0..MaxRetries : queue'[<<j, s>>] = IF s = n THEN 1 ELSE 0
      BY <1>4, <2>2, <2>9
    <2>6. OneCarrier(j)'
      BY <1>2, <2>1, <2>2, <2>5 DEF OneCarrier
    <2>7. \A s \in 0..MaxRetries : queue'[<<j, s>>] > 0 => s = n
      BY <2>5
    <2>8. \A v \in Workers : ~Carrying(v, j)'
      BY <1>2, <2>1, <2>2
    <2> QED BY <1>2, <2>2, <2>4, <2>6, <2>7, <2>8 DEF CarriersCount
  <1>5. ASSUME \A r \in 0..MaxRetries : queue'[<<j, r>>] = queue[<<j, r>>]
        PROVE  OneCarrier(j)' /\ CarriersCount(j)'
    <2>1. Carrying(w, j)' => Carrying(w, j)
      <3>1. ASSUME NEW r \in 0..MaxRetries, Receive(w, <<j, r>>) PROVE FALSE
        <4>1. queue[<<j, r>>] > 0 /\ queue' = Dequeue(queue, <<j, r>>)
          BY <3>1 DEF Receive
        <4>2. queue'[<<j, r>>] = queue[<<j, r>>] - 1
          BY <4>1, CopiesCounted, CopiesOf DEF TypeInv
        <4> QED BY <1>1, <1>5, <4>2
      <3> QED BY <3>1, WorkerGoesOn
    <2>2. OneCarrier(j)'
      BY <1>1, <1>2, <1>5, <2>1, CarriersKept
    <2>3. ASSUME ~Carrying(w, j)', Carrying(w, j) PROVE CarriersCount(j)'
      <3>1. /\ \A s \in 0..MaxRetries : queue'[<<j, s>>] = 0
            /\ \A v \in Workers : ~Carrying(v, j)'
            /\ \A h \in Handlers : ~Pledged(h, j)'
        BY <1>1, <1>2, <1>5, <2>3 DEF OneCarrier
      <3> QED BY <3>1 DEF CarriersCount
    <2>4. ASSUME jobs'[j].status = jobs[j].status, jobs'[j].attempts = jobs[j].attempts,
                 Carrying(w, j)' => Tries(w)' = Tries(w)
          PROVE  CarriersCount(j)'
      BY <1>1, <1>2, <1>5, <2>1, <2>4, CarriersKept, TriedKept
    <2>5. ASSUME Carrying(w, j)', Carrying(w, j), Claim(w), Tries(w)' = Tries(w) + 1
          PROVE  CarriersCount(j)'
      <3>1. /\ \A s \in 0..MaxRetries : queue'[<<j, s>>] = 0
            /\ \A v \in Workers \ {w} : ~Carrying(v, j)'
            /\ \A h \in Handlers : ~Pledged(h, j)'
            /\ Tried(j, Tries(w))
        BY <1>1, <1>2, <1>5, <2>5 DEF OneCarrier, CarriersCount
      <3>2. /\ jobs[j].status # "DELETED"
            /\ jobs'[j] = ClaimedRow(jobs[j])
        BY <2>5 DEF Claim, Carrying, JobExists, Absent, TypeInv, TypeOK
      <3>3. jobs'[j].attempts = Tries(w) + 1 /\ jobs'[j].status = "PROCESSING"
        BY <1>1, <3>1, <3>2, WrittenFields, KeptFields DEF Tried
      <3>4. Tries(w) \in Nat
        BY <1>1 DEF Tries
      <3>5. PICK n \in Nat : n = Tries(w) + 1
        BY <3>4
      <3>6. Tried(j, n)' /\ Tries(w)' = n
        BY <2>5, <3>3, <3>4, <3>5 DEF Tried
      <3>7. Tried(j, Tries(w))'
        BY <3>6 DEF Tried
      <3> QED BY <3>1, <3>7 DEF CarriersCount
    <2>6. ASSUME Carrying(w, j)', Carrying(w, j), JobMissing(w)
          PROVE  CarriersCount(j)'
      <3>1. jobs[j].status = "DELETED" /\ jobs' = jobs
        BY <2>6
        DEF JobMissing, Carrying, JobExists, Absent, FreshJobsAreUnknown, WorkingOn, database
      <3> QED BY <3>1, GoneIsTried
    <2>7. ASSUME Carrying(w, j)', Carrying(w, j), ~CommitIndexed(w), ~Claim(w),
                 Tries(w)' = Tries(w), PersistFailure(w) => ~FinalAttempt(w)
          PROVE  CarriersCount(j)'
      <3>1. CASE jobs'[j] = jobs[j]
        BY <2>4, <2>7, <3>1
      <3>2. CASE /\ PersistFailure(w) /\ JobExists(j)
                 /\ jobs'[j] = WrittenRow(jobs[j], FailureStatus(w))
        <4>1. FailureStatus(w) = "PROCESSING"
          BY <2>7, <3>2 DEF FailureStatus
        <4>2. Tried(j, Tries(w)) /\ Tries(w) = workers[w].retries + 1
          BY <1>1, <2>7, <3>2 DEF CarriersCount, PersistFailure, Tries
        <4>3. jobs[j].status = "PROCESSING"
          BY <1>1, <3>2, <4>2 DEF Tried, JobExists, Absent
        <4> QED
          BY <1>1, <2>4, <2>7, <3>2, <4>1, <4>3, WrittenFields, KeptFields
      <3> QED BY <1>1, <2>7, <3>1, <3>2 DEF WorkerWrites
    <2>8. ASSUME ~Carrying(w, j) PROVE CarriersCount(j)'
      <3>1. ~Carrying(w, j)'
        BY <2>1, <2>8
      <3>2. CASE jobs'[j] = jobs[j]
        BY <2>4, <3>1, <3>2
      <3>3. jobs'[j] = jobs[j]
        BY <1>1, <2>8 DEF WorkerWrites, Claim, CommitIndexed, PersistFailure, Carrying
      <3> QED BY <3>2, <3>3
    <2>9. ASSUME Carrying(w, j)', Carrying(w, j) PROVE CarriersCount(j)'
      <3>1. ~(\E r \in 0..MaxRetries : Receive(w, <<j, r>>))
        BY <2>9 DEF Receive, Carrying
      <3> QED BY <2>5, <2>6, <2>7, <2>9, <3>1, WorkerGoesOn
    <2> QED BY <2>2, <2>3, <2>8, <2>9
  <1> QED BY <1>3, <1>4, <1>5, WorkerSends

\* Rows that do not exist yet have not been tried.
LEMMA BlankStep ==
    ASSUME DeliveryInv, Next
    PROVE  FreshRowsAreBlank'
  <1> SUFFICES ASSUME NEW j \in Jobs, jobs'[j].status = "NONE"
               PROVE  jobs'[j].attempts = 0
    BY DEF FreshRowsAreBlank
  <1> USE DEF DeliveryInv
  <1>1. jobs[j] \in JobRow
    BY DEF TypeInv, TypeOK
  <1>2. ASSUME NEW h \in Handlers, RequestMoves(h)
        PROVE  jobs'[j].attempts = 0
    <2>1. RequestWrites(h, j)
      BY <1>2, RequestActs
    <2> QED
      BY <1>1, <2>1, WrittenFields, KeptFields
      DEF RequestWrites, FreshRowsAreBlank, NewJob, NoJobRow, JobExists, Absent
  <1>3. ASSUME NEW w \in Workers, WorkerMoves(w)
        PROVE  jobs'[j].attempts = 0
    <2>1. WorkerWrites(w, j)
      BY <1>3, WorkerActs
    <2>2. FailureStatus(w) # "NONE"
      BY DEF FailureStatus
    <2> QED
      BY <1>1, <2>1, <2>2, WrittenFields DEF WorkerWrites, FreshRowsAreBlank
  <1>4. CASE Tick
    BY <1>4, TickKeepsRows DEF FreshRowsAreBlank
  <1> QED BY <1>2, <1>3, <1>4 DEF Next, RequestMoves, WorkerMoves

\* Time changes nothing of who carries what.
LEMMA TickDelivers ==
    ASSUME DeliveryInv, Tick, NEW j \in Jobs
    PROVE  OneCarrier(j)' /\ CarriersCount(j)'
  <1> USE DEF DeliveryInv
  <1>1. /\ handlers' = handlers /\ queue' = queue
        /\ jobs'[j].status = jobs[j].status /\ jobs'[j].attempts = jobs[j].attempts
        /\ \A w \in Workers : /\ workers'[w].pc = workers[w].pc
                              /\ workers'[w].job = workers[w].job
                              /\ workers'[w].retries = workers[w].retries
    BY TickAges, TickKeepsRows DEF Tick
  <1>2. /\ \A h \in Handlers : Pledged(h, j)' => Pledged(h, j)
        /\ \A w \in Workers : Carrying(w, j)' => Carrying(w, j)
        /\ \A w \in Workers : Tries(w)' = Tries(w)
        /\ \A r \in 0..MaxRetries : queue'[<<j, r>>] = queue[<<j, r>>]
    BY <1>1 DEF Pledged, Carrying, Tries
  <1> QED BY <1>1, <1>2, CarriersKept, TriedKept

\* When every message is delivered once, every job is in one place, which knows
\* how often it has been tried.
LEMMA JobsAreDeliveredOnce ==
    ASSUME DeliveredOnce
    PROVE  Spec => []DeliveryInv
  <1>1. Init => DeliveryInv
    <2> SUFFICES ASSUME Init PROVE DeliveryInv
      OBVIOUS
    <2>1. /\ \A h \in Handlers : handlers[h].pc = "idle" /\ handlers[h].job = NoJob
          /\ \A w \in Workers : workers[w].pc = "idle" /\ workers[w].job = NoJob
          /\ \A j \in Jobs : /\ jobs[j].status = "NONE" /\ jobs[j].attempts = 0
                             /\ j # NoJob
                             /\ \A r \in 0..MaxRetries : queue[<<j, r>>] = 0
      BY IngestionAssumption
      DEF IngestionAssumption, Init, IdleHandler, IdleWorker, NoJobRow, NewJob, Messages
    <2>2. /\ \A h \in Handlers, j \in Jobs : ~Pledged(h, j)
          /\ \A w \in Workers, j \in Jobs : ~Carrying(w, j)
          /\ \A h \in Handlers : ~Creating(h)
      BY <2>1 DEF Pledged, Carrying, Creating
    <2>3. \A j \in Jobs : OneCarrier(j) /\ CarriersCount(j)
      BY <2>1, <2>2 DEF OneCarrier, CarriersCount
    <2>4. FreshJobsAreUnknown /\ CreatorsHoldFreshJobs
      BY <2>1, <2>2 DEF FreshJobsAreUnknown, CreatorsHoldFreshJobs, WorkingOn
    <2> QED
      BY <2>1, <2>3, <2>4, InitTyped
      DEF DeliveryInv, RetriesRemain, FreshRowsAreBlank
  <1>2. DeliveryInv /\ [Next]_vars => DeliveryInv'
    <2> SUFFICES ASSUME DeliveryInv, [Next]_vars PROVE DeliveryInv'
      OBVIOUS
    <2>1. CASE Next
      <3>1. TypeInv' /\ CreatorsHoldFreshJobs' /\ FreshJobsAreUnknown' /\ RetriesRemain'
        BY <2>1, TypeInvStep, CreatorsStep, FreshStep, RetriesStep DEF DeliveryInv
      <3>2. FreshRowsAreBlank'
        BY <2>1, BlankStep
      <3>3. \A j \in Jobs : OneCarrier(j)' /\ CarriersCount(j)'
        BY <2>1, RequestDelivers, WorkerDelivers, TickDelivers
        DEF Next, RequestMoves, WorkerMoves
      <3> QED BY <3>1, <3>2, <3>3 DEF DeliveryInv
    <2>2. CASE UNCHANGED vars
      <3>1. TypeInv'
        BY <2>2, TypeInvStep DEF DeliveryInv
      <3>2. /\ \A h \in Handlers, j \in Jobs : Pledged(h, j)' <=> Pledged(h, j)
            /\ \A w \in Workers, j \in Jobs : Carrying(w, j)' <=> Carrying(w, j)
            /\ \A w \in Workers : Tries(w)' = Tries(w)
            /\ queue' = queue /\ jobs' = jobs
        BY <2>2 DEF vars, Pledged, Carrying, Tries
      <3>3. ASSUME NEW j \in Jobs PROVE OneCarrier(j)' /\ CarriersCount(j)'
        <4>1. OneCarrier(j) /\ CarriersCount(j)
          BY DEF DeliveryInv
        <4> QED BY <3>2, <4>1, CarriersKept, TriedKept
      <3>4. CreatorsHoldFreshJobs' /\ FreshJobsAreUnknown' /\ RetriesRemain'
            /\ FreshRowsAreBlank'
        BY <2>2
        DEF vars, DeliveryInv, CreatorsHoldFreshJobs, Creating, FreshJobsAreUnknown,
            WorkingOn, RetriesRemain, FreshRowsAreBlank
      <3> QED BY <3>1, <3>3, <3>4 DEF DeliveryInv
    <2> QED BY <2>1, <2>2
  <1> QED BY <1>1, <1>2, PTL DEF Spec

-----------------------------------------------------------------------------
(* The lifecycle that a client sees *)

\* The row of one job changes, and it is what the client of the job sees.
LEMMA RequestRefines ==
    ASSUME DeliveredOnce, DeliveryInv, NEW h \in Handlers, RequestMoves(h)
    PROVE  Lifecycle!Next \/ UNCHANGED <<[j \in Jobs |-> jobs[j].status],
                                         [j \in Jobs |-> jobs[j].attempts]>>
  <1> USE DEF DeliveryInv
  <1> DEFINE k == handlers[h].job
  <1>1. /\ \A j \in Jobs : RequestWrites(h, j)
        /\ \A j \in Jobs : jobs[j] \in JobRow
    BY RequestActs DEF TypeInv, TypeOK
  <1>2. CASE CommitUpload(h) \/ CommitReindex(h)
    <2>1. PICK j \in Jobs : j = k /\ jobs[j].status = "NONE" /\ jobs[j].attempts = 0
      BY <1>2
      DEF CommitUpload, CommitReindex, TypeInv, BusyHandlersHaveWork, Creating,
          CreatorsHoldFreshJobs, FreshRowsAreBlank
    <2>2. jobs' = [jobs EXCEPT ![j] = NewJob]
      BY <1>2, <2>1 DEF CommitUpload, CommitReindex
    <2>3. Lifecycle!Accept(j)
      BY <2>1, <2>2 DEF Lifecycle!Accept, NewJob, TypeInv, TypeOK
    <2> QED BY <2>1, <2>3 DEF Lifecycle!Next, Lifecycle!Outcomes
  <1>3. CASE CommitDelete(h)
    <2>3. PICK js \in SUBSET Jobs :
                 js = {j \in Jobs : DocumentOf[j] = handlers[h].document /\ JobExists(j)}
      OBVIOUS
    <2>1. jobs' = [j \in Jobs |-> IF j \in js THEN NoJobRow("DELETED") ELSE jobs[j]]
      BY <1>3, <2>3 DEF CommitDelete
    <2>2. Lifecycle!Remove(js)
      BY <2>1, <2>3 DEF Lifecycle!Remove, JobExists, Absent, NoJobRow, NewJob
    <2> QED BY <2>2 DEF Lifecycle!Next, Lifecycle!Outcomes
  <1>4. CASE RecordUnpublished(h)
    <2>1. k \in Jobs /\ Pledged(h, k)
      BY <1>4 DEF RecordUnpublished, Pledged, TypeInv, BusyHandlersHaveWork
    <2>2. Tried(k, 0)
      BY <2>1 DEF CarriersCount
    <2>3. jobs' = SetJob(jobs, k, "FAILED")
      BY <1>4 DEF RecordUnpublished
    <2>4. CASE JobExists(k)
      <3>1. jobs[k].status = "PENDING"
        BY <2>2, <2>4 DEF Tried, JobExists, Absent
      <3>2. jobs' = [jobs EXCEPT ![k] = WrittenRow(jobs[k], "FAILED")]
        BY <2>3, <2>4 DEF SetJob, JobExists
      <3>3. Lifecycle!Conclude(k, "FAILED")
        BY <1>1, <2>1, <3>1, <3>2, WrittenFields, KeptFields
        DEF Lifecycle!Conclude, TypeInv, TypeOK
      <3> QED BY <2>1, <3>3 DEF Lifecycle!Next, Lifecycle!Outcomes
    <2>5. CASE ~JobExists(k)
      BY <2>3, <2>5 DEF SetJob, JobExists
    <2> QED BY <2>4, <2>5
  <1>5. CASE ~(CommitUpload(h) \/ CommitReindex(h) \/ CommitDelete(h)
               \/ RecordUnpublished(h))
    <2>1. \A j \in Jobs : jobs'[j] = jobs[j] \/ jobs'[j] = QueuedRow(jobs[j])
      BY <1>1, <1>5 DEF RequestWrites
    <2>2. \A j \in Jobs : /\ jobs'[j].status = jobs[j].status
                          /\ jobs'[j].attempts = jobs[j].attempts
      BY <1>1, <2>1, WrittenFields, KeptFields
    <2> QED BY <2>2
  <1> QED BY <1>2, <1>3, <1>4, <1>5

\* A worker tries a job no more than its retries allow, and concludes it once.
LEMMA WorkerRefines ==
    ASSUME DeliveredOnce, DeliveryInv, NEW w \in Workers, WorkerMoves(w)
    PROVE  Lifecycle!Next \/ UNCHANGED <<[j \in Jobs |-> jobs[j].status],
                                         [j \in Jobs |-> jobs[j].attempts]>>
  <1> USE DEF DeliveryInv
  <1> DEFINE k == workers[w].job
  <1>1. /\ \A j \in Jobs : WorkerWrites(w, j)
        /\ \A j \in Jobs : jobs[j] \in JobRow
        /\ jobs \in [Jobs -> JobRow]
        /\ workers[w].retries \in 0..MaxRetries /\ MaxRetries \in Nat
    BY WorkerActs, IngestionAssumption
    DEF TypeInv, TypeOK, WorkerState, IngestionAssumption
  <1>2. ASSUME workers[w].pc \in {"received", "embedding", "persisting"}
        PROVE  k \in Jobs /\ Tried(k, Tries(w))
    BY <1>2, AttemptTyped DEF Carrying, CarriersCount
  <1>3. CASE Claim(w)
    <2>1. PICK j \in Jobs : j = k
      BY <1>2, <1>3 DEF Claim
    <2>2. /\ JobExists(j)
          /\ jobs' = [jobs EXCEPT ![j] = ClaimedRow(jobs[j])]
          /\ Tries(w) = workers[w].retries
          /\ Tried(j, Tries(w))
      BY <1>2, <1>3, <2>1 DEF Claim, Tries
    <2>3. /\ jobs[j].attempts < MaxRetries + 1
          /\ jobs[j].status \in {"PENDING", "PROCESSING"}
      BY <1>1, <2>2 DEF Tried, JobExists, Absent
    <2>4. Lifecycle!Try(j)
      BY <1>1, <2>1, <2>2, <2>3, WrittenFields, KeptFields DEF Lifecycle!Try
    <2> QED BY <2>1, <2>4 DEF Lifecycle!Next, Lifecycle!Outcomes
  <1>4. ASSUME NEW outcome \in {"INDEXED", "FAILED"},
               workers[w].pc \in {"embedding", "persisting"},
               jobs' = SetJob(jobs, k, outcome)
        PROVE  Lifecycle!Next \/ UNCHANGED <<[j \in Jobs |-> jobs[j].status],
                                             [j \in Jobs |-> jobs[j].attempts]>>
    <2>1. k \in Jobs /\ Tried(k, Tries(w)) /\ Tries(w) = workers[w].retries + 1
      BY <1>2, <1>4 DEF Tries
    <2>2. CASE JobExists(k)
      <3>1. jobs[k].status = "PROCESSING"
        BY <1>1, <2>1, <2>2 DEF Tried, JobExists, Absent
      <3>2. jobs' = [jobs EXCEPT ![k] = WrittenRow(jobs[k], outcome)]
        BY <1>4, <2>2 DEF SetJob, JobExists
      <3>3. Lifecycle!Conclude(k, outcome)
        BY <1>1, <2>1, <3>1, <3>2, WrittenFields, KeptFields DEF Lifecycle!Conclude
      <3> QED BY <2>1, <3>3 DEF Lifecycle!Next, Lifecycle!Outcomes
    <2>3. CASE ~JobExists(k)
      BY <1>4, <2>3 DEF SetJob, JobExists
    <2> QED BY <2>2, <2>3
  <1>5. CASE CommitIndexed(w)
    BY <1>4, <1>5 DEF CommitIndexed
  <1>6. CASE PersistFailure(w)
    <2>1. CASE FinalAttempt(w)
      BY <1>4, <1>6, <2>1 DEF PersistFailure, FailureStatus
    <2>2. CASE ~FinalAttempt(w)
      <3>1. k \in Jobs /\ Tried(k, Tries(w)) /\ Tries(w) = workers[w].retries + 1
        BY <1>2, <1>6 DEF PersistFailure, Tries
      <3>2. jobs' = SetJob(jobs, k, "PROCESSING")
        BY <1>6, <2>2 DEF PersistFailure, FailureStatus
      <3>3. JobExists(k) => jobs[k].status = "PROCESSING"
        BY <1>1, <3>1 DEF Tried, JobExists, Absent
      <3>4. \A j \in Jobs : /\ jobs'[j].status = jobs[j].status
                            /\ jobs'[j].attempts = jobs[j].attempts
        BY <1>1, <3>1, <3>2, <3>3, SetJobWrites, WrittenFields, KeptFields
        DEF TypeInv
      <3> QED BY <3>4
    <2> QED BY <2>1, <2>2
  <1>7. CASE ~(Claim(w) \/ CommitIndexed(w) \/ PersistFailure(w))
    <2>1. \A j \in Jobs : jobs'[j] = jobs[j]
      BY <1>1, <1>7 DEF WorkerWrites
    <2> QED BY <2>1
  <1> QED BY <1>3, <1>5, <1>6, <1>7

\* What the client of a job sees is the lifecycle: a job is accepted once, tried
\* at most MaxRetries + 1 times, and reaches one outcome, which stays until the
\* document is deleted, as long as every message is delivered once (Celery's
\* acks_late and the visibility timeout deliver more under the other faults).
THEOREM JobsFollowLifecycle ==
    ASSUME DeliveredOnce
    PROVE  Spec => Lifecycle!SafeSpec
  <1>1. Init => Lifecycle!Init
    BY DEF Init, Lifecycle!Init, NoJobRow, NewJob
  <1>2. DeliveryInv /\ [Next]_vars => [Lifecycle!Next]_<<[j \in Jobs |-> jobs[j].status],
                                                        [j \in Jobs |-> jobs[j].attempts]>>
    <2> SUFFICES ASSUME DeliveryInv, [Next]_vars
                 PROVE  \/ Lifecycle!Next
                        \/ UNCHANGED <<[j \in Jobs |-> jobs[j].status],
                                       [j \in Jobs |-> jobs[j].attempts]>>
      OBVIOUS
    <2>1. CASE Tick
      BY <2>1, TickKeepsRows DEF DeliveryInv
    <2>2. CASE UNCHANGED vars
      BY <2>2 DEF vars
    <2> QED
      BY <2>1, <2>2, RequestRefines, WorkerRefines DEF Next, RequestMoves, WorkerMoves
  <1> QED
    BY <1>1, <1>2, JobsAreDeliveredOnce, PTL DEF Spec, Lifecycle!SafeSpec

-----------------------------------------------------------------------------
(* The status of a document that has come to rest *)

\* An upload that has stored its object is alone with a document that has no
\* row yet.
UploadsAreNew ==
    \A h \in Handlers : handlers[h].pc = "stored" =>
        /\ documents[handlers[h].document] = "NONE"
        /\ \A g \in Handlers \ {h} : handlers[g].document # handlers[h].document

\* Only the deletion of its document removes a job.
DeletedWithDocument ==
    \A j \in Jobs : jobs[j].status = "DELETED" => documents[DocumentOf[j]] = "DELETED"

\* A failure that the session has seen in the document already is not written
\* to it.
BlindRequest(h) == handlers[h].pc = "recording" /\ handlers[h].seen = "FAILED"

BlindWorker(w) ==
    workers[w].pc = "persisting" /\ workers[w].seen = "FAILED" /\ FinalAttempt(w)

\* Job j is in the hands of somebody who will write the document's status.
WillTell(j) ==
    \/ \E h \in Handlers : Pledged(h, j) /\ ~BlindRequest(h)
    \/ \E r \in 0..MaxRetries : queue[<<j, r>>] > 0
    \/ \E w \in Workers : Carrying(w, j) /\ ~BlindWorker(w)

HasOutcome(d) == documents[d] \in {"INDEXED", "FAILED"}

\* A document has the outcome of one of its jobs, or a job that will give it one.
Told(d) ==
    \E j \in Jobs :
        /\ DocumentOf[j] = d
        /\ HasOutcome(d) => jobs[j].status = documents[d]
        /\ ~HasOutcome(d) => WillTell(j)

DocumentsAreTold == \A d \in Documents : DocumentExists(d) => Told(d)

OutcomeInv ==
    /\ DeliveryInv
    /\ TaskIsKnown
    /\ UploadsAreNew
    /\ DeletedWithDocument
    /\ DocumentsAreTold

\* What a request writes to the row of a document.
RequestRewrites(h, d) ==
    \/ documents'[d] = documents[d]
    \/ /\ d = handlers[h].document
       /\ \/ CommitUpload(h) /\ documents'[d] = "UPLOADED"
          \/ CommitReindex(h) /\ DocumentExists(d) /\ documents'[d] = "UPLOADED"
          \/ /\ RecordUnpublished(h) /\ DocumentExists(d)
             /\ documents'[d] = "FAILED" /\ handlers[h].seen # "FAILED"
          \/ CommitDelete(h) /\ documents'[d] = "DELETED"

WorkerRewrites(w, d) ==
    \/ documents'[d] = documents[d]
    \/ /\ d = DocumentOf[workers[w].job] /\ DocumentExists(d)
       /\ \/ CommitIndexed(w) /\ documents'[d] = "INDEXED"
          \/ /\ PersistFailure(w) /\ documents'[d] = FailureStatus(w)
             /\ workers[w].seen # FailureStatus(w)

\* No step of a request writes a document's row otherwise.
LEMMA RequestRewritesRows ==
    ASSUME TypeInv, NEW h \in Handlers, RequestMoves(h), NEW d \in Documents
    PROVE  RequestRewrites(h, d)
  <1> USE DEF TypeInv, TypeOK
  <1>1. CASE documents' = documents
    BY <1>1 DEF RequestRewrites
  <1>2. CASE CommitUpload(h)
    BY <1>2 DEF CommitUpload, RequestRewrites
  <1>3. CASE CommitReindex(h)
    BY <1>3 DEF CommitReindex, RequestRewrites
  <1>4. CASE RecordUnpublished(h)
    BY <1>4 DEF RecordUnpublished, RequestRewrites, SetDocument, DocumentExists
  <1>5. CASE CommitDelete(h)
    BY <1>5 DEF CommitDelete, RequestRewrites
  <1> QED
    BY <1>1, <1>2, <1>3, <1>4, <1>5
    DEF RequestMoves, Request, HandlerStep, HandlerFault, StoreUpload, ReadForReindex,
        FlushDelete, Publish, FailPublish, ReadUnpublished, MarkQueued, ReindexRefused,
        PurgeObject, UndoUpload, AbandonRequest, database

\* Nor does a step of a worker.
LEMMA WorkerRewritesRows ==
    ASSUME TypeInv, NEW w \in Workers, WorkerMoves(w), NEW d \in Documents
    PROVE  WorkerRewrites(w, d)
  <1> USE DEF TypeInv, TypeOK
  <1>1. CASE documents' = documents
    BY <1>1 DEF WorkerRewrites
  <1>2. CASE CommitIndexed(w)
    BY <1>2 DEF CommitIndexed, WorkerRewrites, SetDocument, DocumentExists
  <1>3. CASE PersistFailure(w)
    BY <1>3 DEF PersistFailure, WorkerRewrites, SetDocument, DocumentExists
  <1> QED
    BY <1>1, <1>2, <1>3
    DEF database, WorkerMoves, WorkerStep, WorkerFault, Receive, Claim, Skip,
        JobMissing, ClaimRaises, BeginParsing, ReadObject, FailPipeline,
        ReadForFailure, LosePersist, PublishRetry, Acknowledge, CrashWorker, Redeliver

\* Nobody joins an upload before it has committed its rows.
LEMMA UploadsStep ==
    ASSUME TypeInv, UploadsAreNew, Next
    PROVE  UploadsAreNew'
  <1> USE DEF TypeInv
  <1>1. ASSUME NEW h \in Handlers, RequestMoves(h), NEW g \in Handlers,
               handlers'[g].pc = "stored"
        PROVE  /\ documents'[handlers'[g].document] = "NONE"
               /\ \A f \in Handlers \ {g} : handlers'[f].document # handlers'[g].document
    <2>1. \A f \in Handlers \ {h} : handlers'[f] = handlers[f]
      BY <1>1, RequestActs
    <2>2. CASE g = h
      <3>1. PICK j \in Jobs : StoreUpload(h, j) /\ handlers'[h].document = DocumentOf[j]
        BY <1>1, <2>2, RequestGoes DEF IdleHandler, FlushDelete, ReadForReindex, Become, TypeOK
      <3>2. /\ documents[DocumentOf[j]] = "NONE" /\ documents' = documents
            /\ \A f \in Handlers : handlers[f].document # DocumentOf[j]
        BY <3>1 DEF StoreUpload, database
      <3> QED BY <2>1, <2>2, <3>1, <3>2
    <2>3. CASE g # h
      <3> DEFINE d == handlers[g].document
      <3>1. /\ handlers'[g] = handlers[g] /\ handlers[g].pc = "stored"
            /\ d \in Documents /\ documents[d] = "NONE"
            /\ \A f \in Handlers \ {g} : handlers[f].document # d
        BY <1>1, <2>1, <2>3 DEF UploadsAreNew, BusyHandlersHaveWork
      <3>2. documents'[d] = "NONE"
        BY <1>1, <2>3, <3>1, RequestRewritesRows DEF RequestRewrites
      <3>3. handlers'[h].document # d
        <4>1. IdleHandler.document # d
          BY <3>1, IngestionAssumption DEF IdleHandler, IngestionAssumption
        <4>2. \A j \in Jobs : StoreUpload(h, j) \/ ReadForReindex(h, j) => DocumentOf[j] # d
          BY <3>1 DEF StoreUpload, ReadForReindex, DocumentExists, Absent
        <4>3. \A c \in Documents : FlushDelete(h, c) => c # d
          BY <3>1 DEF FlushDelete, DocumentExists, Absent
        <4> QED BY <1>1, <2>3, <3>1, <4>1, <4>2, <4>3, RequestGoes
      <3> QED BY <2>1, <2>3, <3>1, <3>2, <3>3
    <2> QED BY <2>2, <2>3
  <1>2. \A h \in Handlers : handlers[h].pc = "stored" => handlers[h].document \in Documents
    BY DEF BusyHandlersHaveWork
  <1>3. ASSUME handlers' = handlers, \A d \in Documents : DocumentKept(d)
        PROVE  UploadsAreNew'
    BY <1>2, <1>3 DEF UploadsAreNew, DocumentKept, DocumentExists, Absent
  <1>4. ASSUME NEW w \in Workers, WorkerMoves(w) PROVE UploadsAreNew'
    BY <1>3, <1>4, WorkerActs, WorkerKeepsDocumentRows
  <1>5. CASE Tick
    BY <1>3, <1>5 DEF Tick, DocumentKept
  <1> QED
    BY <1>1, <1>4, <1>5 DEF Next, RequestMoves, WorkerMoves, UploadsAreNew

\* A job that is deleted has been deleted with its document, which stays deleted.
LEMMA DeletedStep ==
    ASSUME TypeInv, UploadsAreNew, DeletedWithDocument, Next
    PROVE  DeletedWithDocument'
  <1> SUFFICES ASSUME NEW j \in Jobs, jobs'[j].status = "DELETED"
               PROVE  documents'[DocumentOf[j]] = "DELETED"
    BY DEF DeletedWithDocument
  <1> DEFINE d == DocumentOf[j]
  <1>1. d \in Documents /\ jobs[j] \in JobRow
    BY IngestionAssumption DEF IngestionAssumption, TypeInv, TypeOK
  <1>2. jobs[j].status = "DELETED" => documents[d] = "DELETED"
    BY DEF DeletedWithDocument
  <1>3. ASSUME NEW h \in Handlers, RequestMoves(h) PROVE documents'[d] = "DELETED"
    <2>1. RequestWrites(h, j) /\ RequestRewrites(h, d)
      BY <1>1, <1>3, RequestActs, RequestRewritesRows
    <2>2. CASE CommitDelete(h) /\ DocumentOf[j] = handlers[h].document
      BY <1>1, <2>2 DEF CommitDelete, TypeInv, TypeOK
    <2>3. CASE jobs[j].status = "DELETED"
      <3>1. ~(CommitUpload(h) /\ d = handlers[h].document)
        BY <1>2, <2>3 DEF CommitUpload, UploadsAreNew
      <3> QED BY <1>2, <2>1, <2>3, <3>1 DEF RequestRewrites, DocumentExists, Absent
    <2> QED
      BY <1>1, <2>1, <2>2, <2>3, WrittenFields DEF RequestWrites, NewJob
  <1>4. ASSUME NEW w \in Workers, WorkerMoves(w) PROVE documents'[d] = "DELETED"
    <2>1. WorkerWrites(w, j) /\ WorkerRewrites(w, d)
      BY <1>1, <1>4, WorkerActs, WorkerRewritesRows
    <2>2. FailureStatus(w) # "DELETED"
      BY DEF FailureStatus
    <2>3. jobs[j].status = "DELETED"
      BY <1>1, <2>1, <2>2, WrittenFields DEF WorkerWrites
    <2> QED BY <1>2, <2>1, <2>3 DEF WorkerRewrites, DocumentExists, Absent
  <1>5. CASE Tick
    BY <1>2, <1>5, TickKeepsRows DEF Tick
  <1> QED BY <1>3, <1>4, <1>5 DEF Next, RequestMoves, WorkerMoves

\* A request hands on the duty to tell the document, or keeps it.
LEMMA RequestKeepsTelling ==
    ASSUME DeliveredOnce, TypeInv, NEW h \in Handlers, RequestMoves(h),
           NEW j \in Jobs, WillTell(j),
           ~(RecordUnpublished(h) /\ handlers[h].job = j),
           documents[DocumentOf[j]] # "FAILED"
    PROVE  WillTell(j)'
  <1> USE DEF TypeInv, TypeOK, HandlerState
  <1>1. /\ workers' = workers
        /\ \A g \in Handlers \ {h} : handlers'[g] = handlers[g]
        /\ \A r \in 0..MaxRetries : queue[<<j, r>>] \in Nat
    BY RequestActs, CopiesCounted
  <1>2. CASE \E r \in 0..MaxRetries : queue[<<j, r>>] > 0
    <2>1. PICK r \in 0..MaxRetries : queue[<<j, r>>] > 0
      BY <1>2
    <2>2. queue'[<<j, r>>] > 0
      BY <1>1, <2>1, RequestSends
    <2> QED BY <2>2 DEF WillTell
  <1>3. CASE \E w \in Workers : Carrying(w, j) /\ ~BlindWorker(w)
    BY <1>1, <1>3 DEF WillTell, Carrying, BlindWorker, FinalAttempt
  <1>4. ASSUME NEW g \in Handlers \ {h}, Pledged(g, j), ~BlindRequest(g)
        PROVE  WillTell(j)'
    BY <1>1, <1>4 DEF WillTell, Pledged, BlindRequest
  <1>5. CASE Pledged(h, j) /\ ~BlindRequest(h)
    <2>1. handlers[h].document = DocumentOf[j]
      BY <1>5 DEF Pledged, BusyHandlersHaveWork
    <2>2. CASE Publish(h)
      <3>1. queue' = Enqueue(queue, <<j, 0>>) /\ <<j, 0>> \in Messages /\ 0 \in 0..MaxRetries
        BY <1>5, <2>2, IngestionAssumption
        DEF Publish, Pledged, Messages, IngestionAssumption
      <3>2. queue'[<<j, 0>>] > 0
        BY <3>1, CopiesOf
      <3> QED BY <3>1, <3>2 DEF WillTell
    <2>3. CASE FailPublish(h)
      BY <1>5, <2>3 DEF FailPublish, GoTo, Pledged, BlindRequest, WillTell
    <2>4. CASE ReadUnpublished(h)
      <3>1. Pledged(h, j)' /\ ~BlindRequest(h)'
        BY <1>5, <2>1, <2>4 DEF ReadUnpublished, Become, Pledged, BlindRequest
      <3> QED BY <3>1 DEF WillTell
    <2>5. ~UndoUpload(h) /\ ~AbandonRequest(h)
      BY DEF UndoUpload, AbandonRequest, Inject, DeliveredOnce
    <2> QED
      BY <1>5, <2>2, <2>3, <2>4, <2>5
      DEF RequestMoves, Request, HandlerStep, HandlerFault, Pledged, StoreUpload,
          ReadForReindex, FlushDelete, Idle, CommitUpload, MarkQueued, CommitReindex,
          ReindexRefused, PurgeObject, CommitDelete
  <1> QED BY <1>2, <1>3, <1>4, <1>5 DEF WillTell

\* No delivery is skipped: the message knows how often its job has been tried.
LEMMA DeliveriesAreClaimable ==
    ASSUME DeliveryInv, TaskIsKnown, NEW w \in Workers
    PROVE  ~Skip(w)
  <1> SUFFICES ASSUME Skip(w) PROVE FALSE
    OBVIOUS
  <1> DEFINE j == workers[w].job
  <1>1. /\ workers[w].pc = "received" /\ j \in Jobs /\ JobExists(j)
        /\ ~Claimable(j, workers[w].retries)
        /\ workers[w].retries \in 0..MaxRetries
    BY AttemptTyped DEF Skip, DeliveryInv, TypeInv, TypeOK, WorkerState
  <1>2. Carrying(w, j) /\ Tries(w) = workers[w].retries
    BY <1>1 DEF Carrying, Tries
  <1>3. Tried(j, Tries(w))
    BY <1>1, <1>2 DEF DeliveryInv, CarriersCount
  <1>4. CASE workers[w].retries = 0
    BY <1>1, <1>2, <1>3, <1>4 DEF Tried, JobExists, Absent, Claimable
  <1>5. CASE workers[w].retries # 0
    <2>1. jobs[j].status = "PROCESSING"
      BY <1>1, <1>2, <1>3, <1>5 DEF Tried, JobExists, Absent
    <2>2. jobs[j].task = "queued"
      BY <1>1, <2>1 DEF TaskIsKnown
    <2> QED BY <1>1, <1>5, <2>1, <2>2 DEF Claimable, Active
  <1> QED BY <1>4, <1>5

\* A worker hands on the duty to tell the document, or keeps it.
LEMMA WorkerKeepsTelling ==
    ASSUME DeliveredOnce, DeliveryInv, TaskIsKnown, NEW w \in Workers, WorkerMoves(w),
           NEW j \in Jobs, WillTell(j),
           ~(CommitIndexed(w) /\ workers[w].job = j),
           ~(PersistFailure(w) /\ FinalAttempt(w) /\ workers[w].job = j),
           documents[DocumentOf[j]] # "FAILED"
    PROVE  WillTell(j)'
  <1> USE DEF DeliveryInv, TypeInv, TypeOK, WorkerState
  <1>1. /\ handlers' = handlers
        /\ \A v \in Workers \ {w} : workers'[v] = workers[v]
        /\ \A r \in 0..MaxRetries : <<j, r>> \in Messages /\ queue[<<j, r>>] \in Nat
    BY WorkerActs, CopiesCounted
  <1>2. CASE \E h \in Handlers : Pledged(h, j) /\ ~BlindRequest(h)
    BY <1>1, <1>2 DEF WillTell, Pledged, BlindRequest
  <1>3. ASSUME NEW v \in Workers \ {w}, Carrying(v, j), ~BlindWorker(v)
        PROVE  WillTell(j)'
    BY <1>1, <1>3 DEF WillTell, Carrying, BlindWorker, FinalAttempt
  <1>4. ASSUME NEW r \in 0..MaxRetries, queue[<<j, r>>] > 0
        PROVE  WillTell(j)'
    <2>1. CASE queue'[<<j, r>>] > 0
      BY <2>1 DEF WillTell
    <2>2. CASE Receive(w, <<j, r>>)
      <3>1. Carrying(w, j)' /\ ~BlindWorker(w)'
        BY <2>2 DEF Receive, Carrying, BlindWorker
      <3> QED BY <3>1 DEF WillTell
    <2>3. ASSUME NEW s \in 0..MaxRetries, Receive(w, <<j, s>>), s # r
          PROVE  queue'[<<j, r>>] > 0
      <3>1. queue' = Dequeue(queue, <<j, s>>) /\ <<j, s>> # <<j, r>>
        BY <2>3 DEF Receive
      <3> QED BY <1>1, <1>4, <3>1, CopiesOf
    <2>4. ASSUME PublishRetry(w) PROVE queue'[<<j, r>>] > 0
      <3>1. queue' = Enqueue(queue, <<workers[w].job, workers[w].retries + 1>>)
        BY <2>4 DEF PublishRetry
      <3>2. CASE <<workers[w].job, workers[w].retries + 1>> = <<j, r>>
        BY <1>1, <1>4, <3>1, <3>2, CopiesOf
      <3>3. CASE <<workers[w].job, workers[w].retries + 1>> # <<j, r>>
        BY <1>1, <1>4, <3>1, <3>3, CopiesOf
      <3> QED BY <3>2, <3>3
    <2> QED BY <1>1, <1>4, <2>1, <2>2, <2>3, <2>4, WorkerSends
  <1>5. CASE Carrying(w, j) /\ ~BlindWorker(w)
    <2>1. CASE PublishRetry(w)
      <3> DEFINE r == workers[w].retries + 1
      <3>1. r \in 0..MaxRetries /\ queue' = Enqueue(queue, <<j, r>>)
        BY <1>5, <2>1, IngestionAssumption
        DEF PublishRetry, Carrying, RetriesRemain, IngestionAssumption
      <3> HIDE DEF r
      <3>2. queue'[<<j, r>>] > 0
        BY <1>1, <3>1, CopiesOf
      <3> QED BY <3>1, <3>2 DEF WillTell
    <2>2. CASE /\ Carrying(w, j)' /\ ~BlindWorker(w)'
      BY <2>2 DEF WillTell
    <2>3. CASE \/ Claim(w) \/ JobMissing(w) \/ BeginParsing(w) \/ ReadObject(w)
               \/ FailPipeline(w)
      <3>1. Carrying(w, j)' /\ ~BlindWorker(w)'
        BY <1>5, <2>3
        DEF Claim, JobMissing, BeginParsing, ReadObject, FailPipeline, Advance, Carrying,
            BlindWorker
      <3> QED BY <2>2, <3>1
    <2>4. CASE ReadForFailure(w)
      <3>1. workers'[w] = [workers[w] EXCEPT !.pc = "persisting",
                                             !.seen = documents[DocumentOf[j]]]
        BY <1>5, <2>4 DEF ReadForFailure, Carrying
      <3>2. Carrying(w, j)' /\ ~BlindWorker(w)'
        BY <1>5, <3>1 DEF Carrying, BlindWorker
      <3> QED BY <2>2, <3>2
    <2>5. CASE PersistFailure(w)
      <3>1. workers'[w] = [workers[w] EXCEPT !.pc = "retrying"]
        BY <1>5, <2>5 DEF PersistFailure, Advance, AfterFailure, Carrying
      <3>2. Carrying(w, j)' /\ ~BlindWorker(w)'
        BY <1>5, <3>1 DEF Carrying, BlindWorker
      <3> QED BY <2>2, <3>2
    <2>6. ~Skip(w) /\ ~CommitIndexed(w) /\ ~Acknowledge(w)
          /\ ~(\E m \in Messages : Receive(w, m))
      BY <1>5, DeliveriesAreClaimable DEF Carrying, Acknowledge, Receive
    <2>7. ~WorkerFault(w)
      BY DEF WorkerFault, ClaimRaises, LosePersist, CrashWorker, Redeliver, Inject,
             DeliveredOnce
    <2> QED
      BY <2>1, <2>3, <2>4, <2>5, <2>6, <2>7 DEF WorkerMoves, WorkerStep
  <1> QED BY <1>2, <1>3, <1>4, <1>5 DEF WillTell

\* A job that somebody carries has not been concluded, and exists if its
\* document does.
LEMMA CarriedJobsAreOpen ==
    ASSUME OutcomeInv, NEW j \in Jobs,
           \/ \E h \in Handlers : Pledged(h, j)
           \/ \E w \in Workers : Carrying(w, j)
    PROVE  /\ jobs[j].status \in {"PENDING", "PROCESSING", "DELETED"}
           /\ DocumentExists(DocumentOf[j]) => JobExists(j)
  <1>1. \E n : Tried(j, n)
    BY DEF OutcomeInv, DeliveryInv, CarriersCount
  <1>2. jobs[j].status \in {"PENDING", "PROCESSING", "DELETED"}
    BY <1>1 DEF Tried
  <1> QED
    BY <1>2 DEF OutcomeInv, DeletedWithDocument, DocumentExists, JobExists, Absent

\* A blind failure leaves the document to another job.
LEMMA OthersTell ==
    ASSUME OutcomeInv, NEW j \in Jobs,
           \/ \E h \in Handlers : Pledged(h, j) /\ BlindRequest(h)
           \/ \E w \in Workers : Carrying(w, j) /\ BlindWorker(w)
    PROVE  ~WillTell(j)
  <1>1. OneCarrier(j)
    BY DEF OutcomeInv, DeliveryInv
  <1> QED BY <1>1 DEF OneCarrier, WillTell

\* After a step of a request a document has its outcome still, or somebody who
\* will tell it.
LEMMA RequestTells ==
    ASSUME DeliveredOnce, OutcomeInv, NEW h \in Handlers, RequestMoves(h),
           NEW d \in Documents, DocumentExists(d)'
    PROVE  Told(d)'
  <1> USE DEF OutcomeInv, DeliveryInv
  <1> DEFINE j == handlers[h].job
  <1>1. /\ \A k \in Jobs : RequestWrites(h, k) /\ jobs[k] \in JobRow
        /\ RequestRewrites(h, d)
    BY RequestActs, RequestRewritesRows DEF TypeInv, TypeOK
  <1>2. ASSUME documents'[d] = documents[d], NEW k \in Jobs, DocumentOf[k] = d,
               HasOutcome(d) => jobs[k].status = documents[d],
               ~HasOutcome(d) => WillTell(k),
               ~(RecordUnpublished(h) /\ j = k)
        PROVE  Told(d)'
    <2>1. HasOutcome(d)' <=> HasOutcome(d)
      BY <1>2 DEF HasOutcome
    <2>2. CASE HasOutcome(d)
      <3>1. jobs[k].status \in {"INDEXED", "FAILED"}
        BY <1>2, <2>2 DEF HasOutcome
      <3>2. ~((CommitUpload(h) \/ CommitReindex(h)) /\ k = j)
        BY <3>1 DEF CommitUpload, CommitReindex, CreatorsHoldFreshJobs, Creating
      <3>3. ~(CommitDelete(h) /\ DocumentOf[k] = handlers[h].document)
        BY <1>2 DEF CommitDelete, DocumentExists, Absent, TypeInv, TypeOK
      <3>4. jobs'[k].status = jobs[k].status
        BY <1>1, <1>2, <3>2, <3>3, WrittenFields DEF RequestWrites
      <3> QED BY <1>2, <2>1, <2>2, <3>4 DEF Told
    <2>3. CASE ~HasOutcome(d)
      <3>1. WillTell(k)'
        BY <1>2, <2>3, RequestKeepsTelling DEF HasOutcome
      <3> QED BY <1>2, <2>1, <2>3, <3>1 DEF Told
    <2> QED BY <2>2, <2>3
  <1>3. ASSUME CommitUpload(h) \/ CommitReindex(h), d = handlers[h].document
        PROVE  Told(d)'
    <2>1. j \in Jobs /\ DocumentOf[j] = d
      BY <1>3 DEF CommitUpload, CommitReindex, TypeInv, BusyHandlersHaveWork
    <2>2. handlers'[h].pc = "publishing" /\ handlers'[h].job = handlers[h].job
      BY <1>3 DEF CommitUpload, CommitReindex, GoTo, TypeInv, TypeOK, HandlerState
    <2>3. CASE ~HasOutcome(d)'
      <3>1. PICK k \in Jobs : k = j
        BY <2>1
      <3>2. WillTell(k)'
        BY <2>2, <3>1 DEF WillTell, Pledged, BlindRequest
      <3> QED BY <2>1, <2>3, <3>1, <3>2 DEF Told
    <2>4. CASE HasOutcome(d)'
      <3>1. CommitReindex(h) /\ documents'[d] = documents[d]
        BY <1>1, <1>3, <2>4
        DEF RequestRewrites, HasOutcome, CommitUpload, TypeInv, TypeOK, CommitReindex
      <3>2. Told(d) /\ ~RecordUnpublished(h)
        BY <1>3, <3>1 DEF CommitReindex, RecordUnpublished, DocumentsAreTold
      <3> QED BY <1>2, <3>1, <3>2 DEF Told
    <2> QED BY <2>3, <2>4
  <1>4. ASSUME RecordUnpublished(h), d = handlers[h].document
        PROVE  Told(d)'
    <2>1. /\ j \in Jobs /\ DocumentOf[j] = d /\ Pledged(h, j)
          /\ jobs' = SetJob(jobs, j, "FAILED")
      BY <1>4 DEF RecordUnpublished, TypeInv, BusyHandlersHaveWork, Pledged
    <2>2. DocumentExists(d)
      BY <1>1, <1>4
      DEF RequestRewrites, DocumentExists, RecordUnpublished, CommitUpload, CommitDelete
    <2>3. /\ jobs[j].status \in {"PENDING", "PROCESSING"}
          /\ JobExists(j)
      BY <2>1, <2>2, CarriedJobsAreOpen DEF JobExists, Absent
    <2>4. CASE handlers[h].seen # "FAILED"
      <3>1. documents'[d] = "FAILED"
        BY <1>4, <2>2, <2>4
        DEF RecordUnpublished, SetDocument, DocumentExists, TypeInv, TypeOK
      <3>2. jobs'[j].status = "FAILED"
        BY <1>1, <2>1, <2>3, WrittenFields DEF SetJob, JobExists, TypeInv, TypeOK
      <3>3. PICK k \in Jobs : k = j
        BY <2>1
      <3> QED BY <2>1, <3>1, <3>2, <3>3 DEF Told, HasOutcome
    <2>5. CASE handlers[h].seen = "FAILED"
      <3>1. documents'[d] = documents[d]
        BY <1>4, <2>5 DEF RecordUnpublished
      <3>2. ~WillTell(j)
        BY <1>4, <2>1, <2>5, OthersTell DEF BlindRequest, RecordUnpublished
      <3>3. PICK k \in Jobs : /\ DocumentOf[k] = d
                              /\ HasOutcome(d) => jobs[k].status = documents[d]
                              /\ ~HasOutcome(d) => WillTell(k)
        BY <2>2 DEF DocumentsAreTold, Told
      <3>4. k # j
        BY <2>1, <2>3, <3>2, <3>3 DEF HasOutcome
      <3> QED BY <1>2, <3>1, <3>3, <3>4
    <2> QED BY <2>4, <2>5
  <1>5. ASSUME ~((CommitUpload(h) \/ CommitReindex(h)) /\ d = handlers[h].document),
               ~(RecordUnpublished(h) /\ d = handlers[h].document)
        PROVE  Told(d)'
    <2>1. documents'[d] = documents[d]
      BY <1>1, <1>5 DEF RequestRewrites, DocumentExists, Absent
    <2>2. PICK k \in Jobs : /\ DocumentOf[k] = d
                            /\ HasOutcome(d) => jobs[k].status = documents[d]
                            /\ ~HasOutcome(d) => WillTell(k)
      BY <2>1 DEF DocumentsAreTold, Told, DocumentExists
    <2>3. ~(RecordUnpublished(h) /\ j = k)
      BY <1>5, <2>2 DEF RecordUnpublished, TypeInv, BusyHandlersHaveWork
    <2> QED BY <1>2, <2>1, <2>2, <2>3
  <1> QED BY <1>3, <1>4, <1>5

\* And after a step of a worker.
LEMMA WorkerTells ==
    ASSUME DeliveredOnce, OutcomeInv, NEW w \in Workers, WorkerMoves(w),
           NEW d \in Documents, DocumentExists(d)'
    PROVE  Told(d)'
  <1> USE DEF OutcomeInv, DeliveryInv
  <1> DEFINE j == workers[w].job
  <1>1. /\ \A k \in Jobs : WorkerWrites(w, k) /\ jobs[k] \in JobRow
        /\ WorkerRewrites(w, d)
        /\ DocumentExists(d)
        /\ handlers' = handlers
    BY WorkerActs, WorkerRewritesRows, WorkerKeepsDocuments
    DEF TypeInv, TypeOK, WorkerMoves
  <1>2. ASSUME documents'[d] = documents[d], NEW k \in Jobs, DocumentOf[k] = d,
               HasOutcome(d) => jobs[k].status = documents[d],
               ~HasOutcome(d) => WillTell(k),
               ~(CommitIndexed(w) /\ j = k),
               HasOutcome(d) => ~(PersistFailure(w) /\ j = k),
               ~(PersistFailure(w) /\ FinalAttempt(w) /\ j = k)
        PROVE  Told(d)'
    <2>1. HasOutcome(d)' <=> HasOutcome(d)
      BY <1>2 DEF HasOutcome
    <2>2. CASE HasOutcome(d)
      <3>1. jobs[k].status \in {"INDEXED", "FAILED"}
        BY <1>2, <2>2 DEF HasOutcome
      <3>2. ~(Claim(w) /\ k = j)
        <4>1. ASSUME Claim(w), k = j PROVE FALSE
          <5>1. Carrying(w, k)
            BY <4>1 DEF Claim, Carrying
          <5> QED BY <3>1, <5>1, CarriedJobsAreOpen
        <4> QED BY <4>1
      <3>3. jobs'[k].status = jobs[k].status
        BY <1>1, <1>2, <2>2, <3>2 DEF WorkerWrites
      <3> QED BY <1>2, <2>1, <2>2, <3>3 DEF Told
    <2>3. CASE ~HasOutcome(d)
      <3>1. WillTell(k)'
        BY <1>2, <2>3, WorkerKeepsTelling DEF HasOutcome
      <3> QED BY <1>2, <2>1, <2>3, <3>1 DEF Told
    <2> QED BY <2>2, <2>3
  <1>3. ASSUME CommitIndexed(w) \/ PersistFailure(w), DocumentOf[j] = d
        PROVE  /\ j \in Jobs /\ Carrying(w, j) /\ JobExists(j)
               /\ jobs[j].status \in {"PENDING", "PROCESSING"}
    <2>1. j \in Jobs /\ Carrying(w, j)
      BY <1>3, AttemptTyped DEF CommitIndexed, PersistFailure, Carrying
    <2> QED BY <1>1, <1>3, <2>1, CarriedJobsAreOpen DEF JobExists, Absent
  <1>4. ASSUME NEW outcome \in {"INDEXED", "FAILED"}, j \in Jobs, JobExists(j),
               DocumentOf[j] = d,
               jobs' = SetJob(jobs, j, outcome), documents'[d] = outcome
        PROVE  Told(d)'
    <2>1. jobs'[j].status = outcome
      BY <1>1, <1>4, WrittenFields DEF SetJob, JobExists, TypeInv, TypeOK
    <2>2. PICK k \in Jobs : k = j
      BY <1>4
    <2> QED BY <1>4, <2>1, <2>2 DEF Told, HasOutcome
  <1>5. ASSUME CommitIndexed(w), DocumentOf[j] = d PROVE Told(d)'
    BY <1>1, <1>3, <1>4, <1>5
    DEF CommitIndexed, SetDocument, DocumentExists, TypeInv, TypeOK
  <1>6. PICK k \in Jobs : /\ DocumentOf[k] = d
                          /\ HasOutcome(d) => jobs[k].status = documents[d]
                          /\ ~HasOutcome(d) => WillTell(k)
    BY <1>1 DEF DocumentsAreTold, Told
  <1>7. ASSUME PersistFailure(w), DocumentOf[j] = d, FinalAttempt(w) PROVE Told(d)'
    <2>1. FailureStatus(w) = "FAILED"
      BY <1>7 DEF FailureStatus
    <2>2. CASE workers[w].seen # "FAILED"
      BY <1>1, <1>3, <1>4, <1>7, <2>1, <2>2
      DEF PersistFailure, SetDocument, DocumentExists, TypeInv, TypeOK
    <2>3. CASE workers[w].seen = "FAILED"
      <3>1. documents'[d] = documents[d]
        BY <1>7, <2>1, <2>3 DEF PersistFailure
      <3>2. ~WillTell(j)
        BY <1>3, <1>7, <2>3, OthersTell DEF BlindWorker, PersistFailure
      <3>3. k # j
        BY <1>3, <1>6, <1>7, <3>2 DEF HasOutcome
      <3>4. ~CommitIndexed(w)
        BY <1>7 DEF PersistFailure, CommitIndexed
      <3> QED BY <1>2, <1>6, <3>1, <3>3, <3>4
    <2> QED BY <2>2, <2>3
  <1>8. ASSUME PersistFailure(w), DocumentOf[j] = d, ~FinalAttempt(w) PROVE Told(d)'
    <2>1. FailureStatus(w) = "PROCESSING" /\ AfterFailure(w) = "retrying"
      BY <1>8 DEF FailureStatus, AfterFailure
    <2>2. CASE ~HasOutcome(d)'
      <3>1. ~BlindWorker(w)'
        BY <1>8, <2>1
        DEF PersistFailure, Advance, BlindWorker, TypeInv, TypeOK, WorkerState
      <3>2. PICK i \in Jobs : i = j
        BY <1>3, <1>8
      <3>3. WillTell(i)'
        <4>1. Carrying(w, i)'
          BY <1>8, <2>1, <3>2
          DEF PersistFailure, Advance, Carrying, TypeInv, TypeOK, WorkerState
        <4> QED BY <3>1, <4>1 DEF WillTell
      <3> QED BY <1>8, <2>2, <3>2, <3>3 DEF Told
    <2>3. CASE HasOutcome(d)'
      <3>1. documents'[d] = documents[d]
        BY <1>1, <1>8, <2>1, <2>3
        DEF WorkerRewrites, HasOutcome, PersistFailure, CommitIndexed
      <3>2. HasOutcome(d)
        BY <2>3, <3>1 DEF HasOutcome
      <3>3. k # j
        BY <1>3, <1>6, <1>8, <3>2 DEF HasOutcome
      <3>4. ~CommitIndexed(w)
        BY <1>8 DEF PersistFailure, CommitIndexed
      <3> QED BY <1>2, <1>6, <3>1, <3>3, <3>4
    <2> QED BY <2>2, <2>3
  <1>9. ASSUME ~((CommitIndexed(w) \/ PersistFailure(w)) /\ DocumentOf[j] = d)
        PROVE  Told(d)'
    <2>1. documents'[d] = documents[d]
      BY <1>1, <1>9 DEF WorkerRewrites
    <2> QED BY <1>2, <1>6, <1>9, <2>1
  <1> QED BY <1>5, <1>7, <1>8, <1>9

\* When everything about a document has come to rest, its status is the outcome
\* of one of its jobs, and all its jobs have an outcome: racing requests, workers
\* and retries leave no document without a verdict and contradict none, as long
\* as every message is delivered once and every process comes to its end.
THEOREM SettledDocumentsHaveOutcomes ==
    ASSUME DeliveredOnce
    PROVE  Spec => []SettledDocumentHasOutcome
  <1>1. Init => UploadsAreNew /\ DeletedWithDocument /\ DocumentsAreTold /\ TaskIsKnown
    <2> SUFFICES ASSUME Init
                 PROVE  UploadsAreNew /\ DeletedWithDocument /\ DocumentsAreTold
                        /\ TaskIsKnown
      OBVIOUS
    <2>1. /\ \A h \in Handlers : handlers[h].pc = "idle"
          /\ \A w \in Workers : workers[w].pc = "idle"
          /\ \A j \in Jobs : jobs[j].status = "NONE"
          /\ \A d \in Documents : ~DocumentExists(d)
      BY DEF Init, IdleHandler, IdleWorker, NoJobRow, NewJob, DocumentExists, Absent
    <2> QED
      BY <2>1
      DEF UploadsAreNew, DeletedWithDocument, DocumentsAreTold, TaskIsKnown, Attempting
  <1>2. OutcomeInv /\ DeliveryInv' /\ [Next]_vars => OutcomeInv'
    <2> SUFFICES ASSUME OutcomeInv, DeliveryInv', [Next]_vars PROVE OutcomeInv'
      OBVIOUS
    <2> USE DEF OutcomeInv
    <2>1. CASE Next
      <3>1. UploadsAreNew' /\ DeletedWithDocument'
        BY <2>1, UploadsStep, DeletedStep DEF DeliveryInv
      <3>2. NoLosses
        BY DEF NoLosses, DeliveredOnce
      <3>3. TaskIsKnown'
        BY <2>1, <3>2, TaskStep DEF DeliveryInv
      <3>4. ASSUME NEW d \in Documents, DocumentExists(d)', Tick PROVE Told(d)'
        <4>1. /\ handlers' = handlers /\ queue' = queue /\ documents' = documents
              /\ \A j \in Jobs : jobs'[j].status = jobs[j].status
              /\ \A w \in Workers : /\ workers'[w].pc = workers[w].pc
                                    /\ workers'[w].job = workers[w].job
                                    /\ workers'[w].retries = workers[w].retries
                                    /\ workers'[w].seen = workers[w].seen
          BY <3>4, TickAges DEF Tick, DeliveryInv, TypeInv, TypeOK, WorkerState
        <4>2. \A j \in Jobs : WillTell(j) => WillTell(j)'
          BY <4>1
          DEF WillTell, Pledged, Carrying, BlindRequest, BlindWorker, FinalAttempt
        <4>3. Told(d)
          BY <3>4, <4>1 DEF DocumentsAreTold, DocumentExists
        <4> QED BY <4>1, <4>2, <4>3 DEF Told, HasOutcome
      <3>5. DocumentsAreTold'
        BY <2>1, <3>4, RequestTells, WorkerTells
        DEF DocumentsAreTold, Next, RequestMoves, WorkerMoves
      <3> QED BY <3>1, <3>3, <3>5
    <2>2. CASE UNCHANGED vars
      <3>1. UploadsAreNew' /\ DeletedWithDocument' /\ TaskIsKnown'
        BY <2>2 DEF vars, UploadsAreNew, DeletedWithDocument, TaskIsKnown, Attempting
      <3>2. \A j \in Jobs : WillTell(j)' <=> WillTell(j)
        BY <2>2
        DEF vars, WillTell, Pledged, Carrying, BlindRequest, BlindWorker, FinalAttempt
      <3>3. DocumentsAreTold'
        BY <2>2, <3>2 DEF vars, DocumentsAreTold, DocumentExists, Told, HasOutcome
      <3> QED BY <3>1, <3>3
    <2> QED BY <2>1, <2>2
  <1>3. OutcomeInv /\ InFlightJobHasCarrier => SettledDocumentHasOutcome
    <2> SUFFICES ASSUME OutcomeInv, InFlightJobHasCarrier,
                        NEW d \in Documents, Settled(d), DocumentExists(d)
                 PROVE  /\ documents[d] \in {"INDEXED", "FAILED"}
                        /\ \E j \in Jobs : DocumentOf[j] = d /\ jobs[j].status = documents[d]
                        /\ \A j \in Jobs : DocumentOf[j] = d =>
                              jobs[j].status \in {"NONE", "INDEXED", "FAILED"}
      BY DEF SettledDocumentHasOutcome
    <2>1. ASSUME NEW j \in Jobs, DocumentOf[j] = d
          PROVE  /\ \A h \in Handlers : ~Pledged(h, j)
                 /\ \A w \in Workers : workers[w].job # j
                 /\ \A r \in 0..MaxRetries : ~(queue[<<j, r>>] > 0)
      BY <2>1
      DEF Settled, Pledged, WorkingOn, OutcomeInv, DeliveryInv, TypeInv,
          BusyHandlersHaveWork
    <2>2. \A j \in Jobs : DocumentOf[j] = d => ~WillTell(j)
      BY <2>1 DEF WillTell, Carrying
    <2>3. HasOutcome(d)
      BY <2>2 DEF OutcomeInv, DocumentsAreTold, Told
    <2>4. ASSUME NEW j \in Jobs, DocumentOf[j] = d
          PROVE  jobs[j].status \in {"NONE", "INDEXED", "FAILED"}
      <3>1. jobs[j].status \in JobStatus \union Absent
        BY DEF OutcomeInv, DeliveryInv, TypeInv, TypeOK, JobRow
      <3>2. jobs[j].status # "DELETED"
        BY <2>4 DEF OutcomeInv, DeletedWithDocument, DocumentExists, Absent
      <3>3. ~CarriesPending(j) /\ ~CarriesProcessing(j)
        <4>1. \A r \in 1..MaxRetries : r \in 0..MaxRetries
          OBVIOUS
        <4> QED
          BY <2>1, <2>4, <4>1 DEF CarriesPending, CarriesProcessing, Pledged, WorkingOn
      <3> QED BY <3>1, <3>2, <3>3 DEF InFlightJobHasCarrier, JobStatus, Absent
    <2> QED
      BY <2>3, <2>4 DEF OutcomeInv, DocumentsAreTold, Told, HasOutcome
  <1>4. Spec => []InFlightJobHasCarrier
    <2>1. NoLosses
      BY DEF NoLosses, DeliveredOnce
    <2> QED BY <2>1, UnfinishedJobsAreCarried
  <1>5. Spec => []DeliveryInv
    BY JobsAreDeliveredOnce
  <1>6. /\ DeliveryInv /\ UploadsAreNew /\ DeletedWithDocument /\ DocumentsAreTold
           /\ TaskIsKnown => OutcomeInv
    BY DEF OutcomeInv
  <1> QED BY <1>1, <1>2, <1>3, <1>4, <1>5, <1>6, PTL DEF Spec

=============================================================================
