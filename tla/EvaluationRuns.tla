---------------------------- MODULE EvaluationRuns ----------------------------
(***************************************************************************)
(* Evaluation runs: created idempotently by the API, queued, claimed under *)
(* a lease and executed by a worker, and queued again by a repeated        *)
(* request when the lease has run out.  Rows are never deleted.            *)
(***************************************************************************)
EXTENDS Naturals, Sequences

CONSTANTS
    Runs,              \* identities of evaluation_runs rows
    Keys,              \* the idempotency keys of the clients' requests
    NoKey,             \* a request without one (in Keys if clients send it)
    NoRun,             \* what an idle process holds
    Handlers,          \* API request handlers
    Workers,           \* Celery worker threads
    StaleAfter,        \* EVAL_RUN_STALE_AFTER_SECONDS, in ticks
    VisibilityTimeout, \* QUEUE_VISIBILITY_TIMEOUT_SECONDS, in ticks
    MaxCopies,         \* bound: copies of one message that requests may queue
    Faults,            \* the kinds of fault the environment may inject
    MaxFaults          \* bound: how many faults in a behaviour

\* As in IngestionState; database includes any error of the evaluation that
\* complete_running does not handle.
FaultKinds == {"worker_crash", "redelivery", "database", "api", "publish",
               "ambiguous"}

ASSUME EvaluationAssumption ==
    /\ NoRun \notin Runs
    /\ StaleAfter \in Nat
    /\ VisibilityTimeout \in Nat
    /\ MaxCopies \in Nat
    /\ Faults \subseteq FaultKinds
    /\ MaxFaults \in Nat

VARIABLES
    runs,      \* evaluation_runs rows
    queue,     \* copies of each run's message waiting in Redis
    handlers,  \* control state of each API handler
    workers,   \* control state of each worker
    faults     \* the kinds of the faults injected so far, in their order

vars == <<runs, queue, handlers, workers, faults>>
-----------------------------------------------------------------------------
(* Rows *)

RunStatus == {"PENDING", "RUNNING", "SUCCEEDED", "FAILED"}

\* metadata_json["result"]: absent, a pass, or the failure it reports.
Failures == {"THRESHOLDS", "EXECUTION", "QUEUE"}
RunResult == {"ABSENT", "PASS"} \union Failures

\* updated_at counts only while a run is RUNNING: its age, saturated one tick
\* above the lease.
MaxAge == StaleAfter + 1

RunRow == [status: RunStatus \union {"NONE"}, key: Keys \union {NoKey},
           result: RunResult, age: 0..MaxAge]

NoRow == [status |-> "NONE", key |-> NoKey, result |-> "ABSENT", age |-> 0]
NewRow(k) == [status |-> "PENDING", key |-> k, result |-> "ABSENT", age |-> 0]

Created(r) == runs[r].status # "NONE"

\* What a session knows of a row from the time it loaded it.
Unseen == [status |-> "NONE", result |-> "ABSENT"]
Seen == [status: RunStatus \union {"NONE"}, result: RunResult]
Load(r) == [status |-> runs[r].status, result |-> runs[r].result]
NewlySeen == [status |-> "PENDING", result |-> "ABSENT"]

\* update_evaluation_run: no look at the row as it is now; each column is
\* written only if it differs from the value the session loaded.
Save(r, seen, status, result) ==
    LET row == runs[r] IN
    runs' = [runs EXCEPT ![r] =
        [status |-> IF status = seen.status THEN row.status ELSE status,
         key |-> row.key,
         result |-> IF result = seen.result THEN row.result ELSE result,
         age |-> 0]]

Stale(r) == runs[r].age > StaleAfter

-----------------------------------------------------------------------------
(* Processes *)

IdleHandler == [pc |-> "idle", key |-> NoKey, run |-> NoRun, seen |-> Unseen]

\* An idle handler that holds a run has answered its last request with it.
HandlerPc == {"idle", "inserting", "conflict", "publishing", "unpublished",
              "recording"}

HandlerState == [pc: HandlerPc, key: Keys \union {NoKey},
                 run: Runs \union {NoRun}, seen: Seen]

MaxHold == IF VisibilityTimeout > MaxAge THEN VisibilityTimeout ELSE MaxAge

IdleWorker == [pc |-> "idle", run |-> NoRun, seen |-> Unseen, hold |-> 0,
               message |-> "none"]

WorkerPc == {"idle", "received", "executing", "failing", "recording", "acking"}

WorkerState == [pc: WorkerPc, run: Runs \union {NoRun}, seen: Seen,
                hold: 0..MaxHold, message: {"none", "held", "redelivered"}]

\* The environment injects a fault of one kind, within the bound.
Inject(kind) ==
    /\ kind \in Faults
    /\ Len(faults) < MaxFaults
    /\ faults' = Append(faults, kind)

TypeOK ==
    /\ runs \in [Runs -> RunRow]
    /\ queue \in [Runs -> Nat]
    /\ handlers \in [Handlers -> HandlerState]
    /\ workers \in [Workers -> WorkerState]
    /\ faults \in Seq(FaultKinds)

Init ==
    /\ runs = [r \in Runs |-> NoRow]
    /\ queue = [r \in Runs |-> 0]
    /\ handlers = [h \in Handlers |-> IdleHandler]
    /\ workers = [w \in Workers |-> IdleWorker]
    /\ faults = <<>>

-----------------------------------------------------------------------------
(* POST /evaluations *)

GoTo(h, pc) == handlers' = [handlers EXCEPT ![h].pc = pc]
Become(h, pc, k, r, seen) ==
    handlers' = [handlers EXCEPT
        ![h] = [pc |-> pc, key |-> k, run |-> r, seen |-> seen]]

\* The row with the idempotency key; without a key there is none.
Named(k, r) == k # NoKey /\ Created(r) /\ runs[r].key = k

\* Mutant of ShouldEnqueue: a RUNNING run is left alone.
ShouldEnqueuePending(r) == runs[r].status = "PENDING"

\* should_enqueue of a row that exists already.
ShouldEnqueue(r) ==
    \/ runs[r].status = "PENDING"
    \/ runs[r].status = "RUNNING" /\ Stale(r)

\* The row found is queued (again) or is the answer as it is.
Found(h, k, r, seen) ==
    \/ ShouldEnqueue(r) /\ Become(h, "publishing", k, r, seen)
    \/ ~ShouldEnqueue(r) /\ Become(h, "idle", k, r, Unseen)

\* create_evaluation_run looks the key up first.
LookUp(h, k) ==
    /\ handlers[h].pc = "idle"
    /\ \/ \E r \in Runs : Named(k, r) /\ Found(h, k, r, Load(r))
       \/ /\ \A r \in Runs : ~Named(k, r)
          /\ Become(h, "inserting", k, NoRun, Unseen)
    /\ UNCHANGED <<runs, queue, workers, faults>>

\* Mutant of Insert: no unique constraint on the key.
InsertUnchecked(h, r) ==
    /\ handlers[h].pc = "inserting"
    /\ ~Created(r)
    /\ runs' = [runs EXCEPT ![r] = NewRow(handlers[h].key)]
    /\ Become(h, "publishing", handlers[h].key, r, NewlySeen)
    /\ UNCHANGED <<queue, workers, faults>>

\* INSERT and commit: the unique constraint lets one row have the key.  (An
\* insert that meets an uncommitted one waits for it.)
Insert(h, r) ==
    /\ handlers[h].pc = "inserting"
    /\ ~Created(r)
    /\ \A q \in Runs : ~Named(handlers[h].key, q)
    /\ runs' = [runs EXCEPT ![r] = NewRow(handlers[h].key)]
    /\ Become(h, "publishing", handlers[h].key, r, NewlySeen)
    /\ UNCHANGED <<queue, workers, faults>>

\* IntegrityError: rolled back.
InsertConflicts(h) ==
    /\ handlers[h].pc = "inserting"
    /\ \E r \in Runs : Named(handlers[h].key, r)
    /\ GoTo(h, "conflict")
    /\ UNCHANGED <<runs, queue, workers, faults>>

\* _existing_run_after_integrity_error: the winner has committed.  This SELECT
\* begins a transaction, which a rollback ends and so forgets the row.
FindWinner(h) ==
    /\ handlers[h].pc = "conflict"
    /\ \E r \in Runs : /\ Named(handlers[h].key, r)
                       /\ Found(h, handlers[h].key, r, Unseen)
    /\ UNCHANGED <<runs, queue, workers, faults>>

Publish(h) ==
    /\ handlers[h].pc = "publishing"
    /\ queue[handlers[h].run] < MaxCopies
    /\ queue' = [queue EXCEPT ![handlers[h].run] = @ + 1]
    /\ Become(h, "idle", handlers[h].key, handlers[h].run, Unseen)
    /\ UNCHANGED <<runs, workers, faults>>

\* Mutant of FailPublish: the error is reported, and nothing recorded.
FailPublishUnrecorded(h) ==
    /\ handlers[h].pc = "publishing"
    /\ Inject("publish")
    /\ handlers' = [handlers EXCEPT ![h] = IdleHandler]
    /\ UNCHANGED <<runs, queue, workers>>

\* Publishing raises; the broker may have taken the message all the same.
FailPublish(h) ==
    /\ handlers[h].pc = "publishing"
    /\ \/ Inject("publish") /\ UNCHANGED queue
       \/ /\ Inject("ambiguous")
          /\ queue' = [queue EXCEPT ![handlers[h].run] = @ + 1]
    /\ GoTo(h, "unpublished")
    /\ UNCHANGED <<runs, workers>>

\* mark_queue_failure's SELECT: a row the session knows stays as it was loaded
\* (after a commit there is nothing to roll back, and nothing is forgotten).
ReadUnpublished(h) ==
    /\ handlers[h].pc = "unpublished"
    /\ Become(h, "recording", handlers[h].key, handlers[h].run,
              IF handlers[h].seen = Unseen
              THEN Load(handlers[h].run) ELSE handlers[h].seen)
    /\ UNCHANGED <<runs, queue, workers, faults>>

\* The run becomes FAILED, whatever it is by now, and the request an error.
RecordUnpublished(h) ==
    /\ handlers[h].pc = "recording"
    /\ Save(handlers[h].run, handlers[h].seen, "FAILED", "QUEUE")
    /\ handlers' = [handlers EXCEPT ![h] = IdleHandler]
    /\ UNCHANGED <<queue, workers, faults>>

\* The process dies or a statement raises: what was committed stays.
AbandonRequest(h) ==
    /\ handlers[h].pc # "idle"
    /\ Inject("api")
    /\ handlers' = [handlers EXCEPT ![h] = IdleHandler]
    /\ UNCHANGED <<runs, queue, workers>>

-----------------------------------------------------------------------------
(* run_evaluation_task_once *)

Advance(w, pc) == workers' = [workers EXCEPT ![w].pc = pc]

\* The worker's session has loaded its run.
AdvanceWith(w, pc, seen) ==
    workers' = [workers EXCEPT
        ![w] = [pc |-> pc, run |-> @.run, seen |-> seen, hold |-> @.hold,
                message |-> @.message]]

\* Mutant of Claimable: any RUNNING run may be claimed again.
ClaimableWhileRunning(r) == runs[r].status \in {"PENDING", "RUNNING"}

\* claim_evaluation_run.
Claimable(r) ==
    \/ runs[r].status = "PENDING"
    \/ runs[r].status = "RUNNING" /\ Stale(r)

ClaimedRow(row) ==
    [status |-> "RUNNING", key |-> row.key, result |-> row.result, age |-> 0]

Receive(w, r) ==
    /\ workers[w].pc = "idle"
    /\ queue[r] > 0
    /\ queue' = [queue EXCEPT ![r] = @ - 1]
    /\ workers' = [workers EXCEPT
          ![w] = [pc |-> "received", run |-> r, seen |-> Unseen, hold |-> 0,
                  message |-> "held"]]
    /\ UNCHANGED <<runs, handlers, faults>>

\* RUNNING is committed before the evaluation starts.  The session keeps the
\* row as loaded here: complete_running's own look at the status sees it again.
Claim(w) ==
    LET r == workers[w].run IN
    /\ workers[w].pc = "received"
    /\ Claimable(r)
    /\ runs' = [runs EXCEPT ![r] = ClaimedRow(@)]
    /\ AdvanceWith(w, "executing", [status |-> "RUNNING", result |-> runs[r].result])
    /\ UNCHANGED <<queue, handlers, faults>>

Skip(w) ==
    /\ workers[w].pc = "received"
    /\ ~Claimable(workers[w].run)
    /\ Advance(w, "acking")
    /\ UNCHANGED <<runs, queue, handlers, faults>>

\* Mutant of Complete: the status of the result is taken for that of the run.
CompleteAsResult(w, result) ==
    /\ workers[w].pc = "executing"
    /\ Save(workers[w].run, workers[w].seen, result, result)
    /\ Advance(w, "acking")
    /\ UNCHANGED <<queue, handlers, faults>>

\* A pass, a missed threshold, or an error complete_running handles, written
\* whether or not the run is still this worker's.
Complete(w, result) ==
    /\ workers[w].pc = "executing"
    /\ Save(workers[w].run, workers[w].seen,
            IF result = "PASS" THEN "SUCCEEDED" ELSE "FAILED", result)
    /\ Advance(w, "acking")
    /\ UNCHANGED <<queue, handlers, faults>>

\* Any other error, of the claim or of the execution.
TaskRaises(w) ==
    /\ workers[w].pc \in {"received", "executing"}
    /\ Inject("database")
    /\ Advance(w, "failing")
    /\ UNCHANGED <<runs, queue, handlers>>

\* mark_execution_failure loads the run again after the rollback.
ReadForFailure(w) ==
    /\ workers[w].pc = "failing"
    /\ AdvanceWith(w, "recording", Load(workers[w].run))
    /\ UNCHANGED <<runs, queue, handlers, faults>>

RecordFailure(w) ==
    /\ workers[w].pc = "recording"
    /\ Save(workers[w].run, workers[w].seen, "FAILED", "EXECUTION")
    /\ Advance(w, "acking")
    /\ UNCHANGED <<queue, handlers, faults>>

\* Recording fails too: logged, and the task ends.
LoseFailure(w) ==
    /\ workers[w].pc = "recording"
    /\ Inject("database")
    /\ Advance(w, "acking")
    /\ UNCHANGED <<runs, queue, handlers>>

\* The task has no retries: whatever happened, its message is done.
Acknowledge(w) ==
    /\ workers[w].pc = "acking"
    /\ workers' = [workers EXCEPT ![w] = IdleWorker]
    /\ UNCHANGED <<runs, queue, handlers, faults>>

Redelivered(w) == [queue EXCEPT ![workers[w].run] = @ + 1]

CrashWorker(w) ==
    /\ workers[w].pc # "idle"
    /\ Inject("worker_crash")
    /\ queue' = IF workers[w].message = "held" THEN Redelivered(w) ELSE queue
    /\ workers' = [workers EXCEPT ![w] = IdleWorker]
    /\ UNCHANGED <<runs, handlers>>

Redeliver(w) ==
    /\ workers[w].pc # "idle"
    /\ workers[w].message = "held"
    /\ workers[w].hold >= VisibilityTimeout
    /\ Inject("redelivery")
    /\ queue' = Redelivered(w)
    /\ workers' = [workers EXCEPT ![w].message = "redelivered"]
    /\ UNCHANGED <<runs, handlers>>

\* Time passes for the running rows and for the workers that hold a message.
Older(n, cap) == IF n < cap THEN n + 1 ELSE n

Tick ==
    /\ runs' = [r \in Runs |->
          IF runs[r].status = "RUNNING"
          THEN [runs[r] EXCEPT !.age = Older(runs[r].age, MaxAge)]
          ELSE runs[r]]
    /\ workers' = [w \in Workers |->
          IF workers[w].pc = "idle"
          THEN workers[w]
          ELSE [workers[w] EXCEPT !.hold = Older(workers[w].hold, MaxHold)]]
    /\ UNCHANGED <<queue, handlers, faults>>

-----------------------------------------------------------------------------

Request(h) == \E k \in Keys : LookUp(h, k)

HandlerStep(h) ==
    \/ \E r \in Runs : Insert(h, r)
    \/ InsertConflicts(h)
    \/ FindWinner(h)
    \/ Publish(h)
    \/ ReadUnpublished(h)
    \/ RecordUnpublished(h)

HandlerFault(h) == FailPublish(h) \/ AbandonRequest(h)

WorkerStep(w) ==
    \/ Claim(w)
    \/ Skip(w)
    \/ \E result \in {"PASS", "THRESHOLDS", "EXECUTION"} : Complete(w, result)
    \/ ReadForFailure(w)
    \/ RecordFailure(w)
    \/ Acknowledge(w)

WorkerFault(w) ==
    \/ TaskRaises(w)
    \/ LoseFailure(w)
    \/ CrashWorker(w)
    \/ Redeliver(w)

Next ==
    \/ \E h \in Handlers : Request(h) \/ HandlerStep(h) \/ HandlerFault(h)
    \/ \E w \in Workers :
          \/ \E r \in Runs : Receive(w, r)
          \/ WorkerStep(w)
          \/ WorkerFault(w)
    \/ Tick

Spec == Init /\ [][Next]_vars

\* Requests and tasks that have begun go on, messages are received, time
\* passes; and clients repeat the requests whose key has a run without an
\* outcome, as n8n's HTTP retries and pollers do.
Repeats(k) == \E h \in Handlers : LookUp(h, k)

RetryingClients ==
    /\ Spec
    /\ \A h \in Handlers : WF_vars(HandlerStep(h))
    /\ \A w \in Workers : WF_vars(WorkerStep(w))
    /\ \A r \in Runs : WF_vars(\E w \in Workers : Receive(w, r))
    /\ WF_vars(Tick)
    /\ \A k \in Keys \ {NoKey} : SF_vars(Repeats(k))

-----------------------------------------------------------------------------
(* Properties *)

\* "Duplicate active workers before that lease expires do not execute the run
\* twice": of two workers that execute one run, one has outlived the lease,
\* through every crash, redelivery, repeated request and foreign write.
ExecutionExclusion ==
    \A v, w \in Workers :
        (/\ v # w
         /\ workers[v].pc = "executing" /\ workers[w].pc = "executing"
         /\ workers[v].run = workers[w].run)
        => \E u \in {v, w} : workers[u].hold > StaleAfter

\* A run without an outcome has a request, a message or a worker that will go
\* on with it, as long as no process dies and no transaction fails.
HasCarrier(r) ==
    CASE runs[r].status = "PENDING" ->
            \/ \E h \in Handlers :
                  /\ handlers[h].run = r
                  /\ handlers[h].pc \in {"publishing", "unpublished", "recording"}
            \/ queue[r] > 0
            \/ \E w \in Workers : workers[w].run = r /\ workers[w].pc = "received"
      [] runs[r].status = "RUNNING" ->
            \E w \in Workers : workers[w].run = r /\ workers[w].pc = "executing"
      [] OTHER -> TRUE

\* Only a crash or a failed transaction makes the system forget a run: not a
\* failed or ambiguous publication, a redelivery or a lost race for the key.
OnlyCrashesForget ==
    (\A i \in DOMAIN faults : faults[i] \notin {"api", "worker_crash", "database"})
    => \A r \in Runs : HasCarrier(r)

\* Callers are told to poll until SUCCEEDED or FAILED: that is final.
OutcomeIsFinal ==
    [][\A r \in Runs : runs[r].status \in {"SUCCEEDED", "FAILED"} =>
          runs'[r].status = runs[r].status]_runs

\* A run with a key that clients go on asking for reaches an outcome, through
\* every crash and lost message: the repeated request queues it again.
RepeatedRunsSettle ==
    \A r \in Runs :
        runs[r].status \in {"PENDING", "RUNNING"} /\ runs[r].key # NoKey
            ~> runs[r].status \in {"SUCCEEDED", "FAILED"}

-----------------------------------------------------------------------------

\* What the clients see of idempotency keys: an idle handler that holds a run
\* has answered with it.
Answered(h) ==
    /\ handlers[h].pc = "idle"
    /\ handlers[h].run # NoRun
    /\ handlers[h].key # NoKey

Keyed == INSTANCE IdempotentCreate WITH
    Clients <- Handlers,
    Keys <- Keys \ {NoKey},
    Rows <- Runs,
    NoAnswer <- <<>>,
    named <- {<<runs[r].key, r>> : r \in {q \in Runs : Created(q) /\ runs[q].key # NoKey}},
    answer <- [h \in Handlers |->
                  IF Answered(h) THEN <<handlers[h].key, handlers[h].run>> ELSE <<>>]

\* Requests with one idempotency key are all answered with one run.
ImplementsIdempotentCreate == Keyed!Spec
=============================================================================
