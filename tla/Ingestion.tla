------------------------------ MODULE Ingestion ------------------------------
(***************************************************************************)
(* Document ingestion end to end: the API's handlers and the workers over  *)
(* the same rows, objects and queue, with the properties of the whole.     *)
(***************************************************************************)
EXTENDS DocumentApi, IngestionWorker

Next ==
    \/ \E h \in Handlers : Request(h) \/ HandlerStep(h) \/ HandlerFault(h)
    \/ \E w \in Workers :
          \/ \E m \in Messages : Receive(w, m)
          \/ WorkerStep(w)
          \/ WorkerFault(w)
    \/ Tick

Spec == Init /\ [][Next]_vars

\* A request that has begun and a task that has been received run on, and a
\* waiting message is received by some worker; clients need not come and
\* faults need not happen.
Fairness ==
    /\ \A h \in Handlers : WF_vars(HandlerStep(h))
    /\ \A w \in Workers : WF_vars(WorkerStep(w))
    /\ \A m \in Messages : WF_vars(\E w \in Workers : Receive(w, m))
    /\ WF_vars(Tick)

FairSpec == Spec /\ Fairness

-----------------------------------------------------------------------------
(* Ownership of a job *)

\* A worker owns its job from the claim to the end of its transaction.
Owner(w) == workers[w].pc \in {"claimed"} \union InTransaction

\* Two workers run one job only if one of them has outlived the lease or runs
\* a Celery retry: claim_ingestion_job_attempt lets a duplicate first delivery
\* in only when updated_at is older than INGESTION_JOB_STALE_AFTER_SECONDS,
\* through every crash, redelivery and foreign status write.
LeaseExclusion ==
    \A v, w \in Workers :
        (v # w /\ Owner(v) /\ Owner(w) /\ workers[v].job = workers[w].job)
        => \E u \in {v, w} : workers[u].hold > StaleAfter \/ workers[u].retries > 0

\* Worker retries are bounded: each published message starts a chain of at
\* most MaxRetries + 1 attempts, and a fault starts at most one more chain.
AttemptsBounded ==
    \A j \in Jobs : jobs[j].attempts <= (MaxRetries + 1) * (1 + faults)

-----------------------------------------------------------------------------
(* Nothing in flight is forgotten *)

\* Who will still move a job that is PENDING, or PROCESSING.
CarriesPending(j) ==
    \/ \E h \in Handlers : /\ handlers[h].job = j
                           /\ handlers[h].pc \in {"publishing", "unpublished", "recording"}
    \/ \E r \in 0..MaxRetries : queue[<<j, r>>] > 0
    \/ \E w \in WorkingOn(j) :
          workers[w].pc \in {"received", "failing", "persisting"}

CarriesProcessing(j) ==
    \/ \E r \in 1..MaxRetries : queue[<<j, r>>] > 0
    \/ \E w \in WorkingOn(j) :
          \/ workers[w].pc \in {"claimed", "parsing", "embedding", "failing",
                                "persisting", "retrying"}
          \/ workers[w].pc = "received" /\ workers[w].retries > 0

\* A job that has not reached its outcome always has a request, a message or a
\* worker that will go on with it, as long as no process dies and no
\* transaction fails: nothing sweeps the table for forgotten jobs.
InFlightJobHasCarrier ==
    \A j \in Jobs :
        /\ jobs[j].status = "PENDING" => CarriesPending(j)
        /\ jobs[j].status = "PROCESSING" => CarriesProcessing(j)

-----------------------------------------------------------------------------
(* Rows, objects and each other *)

\* A deleted document leaves no job and no chunk behind, whatever reindex
\* request or worker was under way: delete_document relies on the foreign keys.
NoRowsWithoutDocument ==
    \A d \in Documents :
        ~DocumentExists(d) =>
            /\ d \notin chunks
            /\ \A j \in Jobs : DocumentOf[j] = d => ~JobExists(j)

\* Rows and objects agree outside the windows in which an upload or a deletion
\* has done one half: the object is written before the row is committed and
\* purged before the row's removal is.
StorageMatchesRows ==
    \A d \in Documents :
        LET busy(pcs) == \E h \in Handlers : /\ handlers[h].document = d
                                             /\ handlers[h].pc \in pcs
        IN  /\ d \in objects => DocumentExists(d) \/ busy({"stored"})
            /\ DocumentExists(d) => d \in objects \/ busy({"deleting"})

\* Nothing is under way for document d.
Settled(d) ==
    /\ \A h \in Handlers : handlers[h].document # d
    /\ \A j \in Jobs : DocumentOf[j] = d =>
          /\ WorkingOn(j) = {}
          /\ \A r \in 0..MaxRetries : queue[<<j, r>>] = 0

\* When everything about a document has come to rest, its status is the
\* outcome of one of its jobs, and all its jobs have an outcome.
SettledDocumentHasOutcome ==
    \A d \in Documents :
        Settled(d) /\ DocumentExists(d) =>
            /\ documents[d] \in {"INDEXED", "FAILED"}
            /\ \E j \in Jobs : DocumentOf[j] = d /\ jobs[j].status = documents[d]
            /\ \A j \in Jobs : DocumentOf[j] = d =>
                  jobs[j].status \in {"NONE", "INDEXED", "FAILED"}

-----------------------------------------------------------------------------
(* Steps *)

\* A FAILED job has a terminal record: it stays FAILED while it exists.
FailedIsTerminal ==
    [][\A j \in Jobs : jobs[j].status = "FAILED" =>
          jobs'[j].status \in {"FAILED", "DELETED"}]_jobs

-----------------------------------------------------------------------------
(* Liveness *)

\* Every accepted job reaches an outcome or is deleted.
JobsSettle ==
    \A j \in Jobs :
        jobs[j].status \in {"PENDING", "PROCESSING"}
            ~> jobs[j].status \in {"INDEXED", "FAILED", "DELETED"}

\* A stale in-flight job is reclaimed or concluded.
StaleJobsReclaimed ==
    \A j \in Jobs :
        (Active(j) /\ Stale(j)) ~> ~(Active(j) /\ Stale(j))

\* Every request returns, although reindex and delete wait for row locks.
RequestsReturn ==
    \A h \in Handlers : handlers[h].pc # "idle" ~> handlers[h].pc = "idle"

-----------------------------------------------------------------------------

\* What a client that polls the job sees.
Lifecycle == INSTANCE JobLifecycle WITH
    MaxAttempts <- MaxRetries + 1,
    status <- [j \in Jobs |-> jobs[j].status],
    attempts <- [j \in Jobs |-> jobs[j].attempts]

ImplementsLifecycle == Lifecycle!Spec
=============================================================================
