-------------------------- MODULE EvaluationProofs --------------------------
(***************************************************************************)
(* Theorems about EvaluationRuns, for every set of runs, keys, handlers    *)
(* and workers, every lease and visibility timeout, and every combination  *)
(* of faults.                                                              *)
(***************************************************************************)
EXTENDS EvaluationRuns, TLAPS

-----------------------------------------------------------------------------
(* Strengthenings *)

\* A request that has a run holds one that exists, and its key.
Holding == {"publishing", "unpublished", "recording"}

HandlersHoldRuns ==
    \A h \in Handlers : handlers[h].pc \in Holding =>
        /\ handlers[h].run \in Runs
        /\ Created(handlers[h].run)
        /\ runs[handlers[h].run].key = handlers[h].key

\* Messages are of runs that exist, and so is the run of a busy worker.
MessagesHaveRuns == \A r \in Runs : queue[r] > 0 => Created(r)

WorkersHoldRuns ==
    \A w \in Workers : workers[w].pc # "idle" =>
        /\ workers[w].run \in Runs
        /\ Created(workers[w].run)

RunsInv == TypeOK /\ HandlersHoldRuns /\ MessagesHaveRuns /\ WorkersHoldRuns

Executing(w, r) == workers[w].pc = "executing" /\ workers[w].run = r

\* A row that is RUNNING never looks older than a worker that executes it.
ExecutorsOutliveLease ==
    \A w \in Workers, r \in Runs : Executing(w, r) =>
        /\ runs[r].status # "PENDING"
        /\ runs[r].status = "RUNNING" => runs[r].age <= workers[w].hold

ExecutionInv == RunsInv /\ ExecutorsOutliveLease /\ ExecutionExclusion

-----------------------------------------------------------------------------
(* What a step may do to a row *)

\* A row that exists keeps its key, and is never PENDING again.
RowKept(r) ==
    Created(r) => /\ Created(r)'
                  /\ runs'[r].key = runs[r].key
                  /\ runs'[r].status = "PENDING" => runs[r].status = "PENDING"

\* It is as young as it was, or as old as it was at a younger time.
NotOlder(r) ==
    \/ runs'[r].status = runs[r].status /\ runs'[r].age = runs[r].age
    \/ runs'[r].status # "RUNNING"
    \/ runs'[r].age = 0

\* update_evaluation_run writes an outcome into one row and keeps its key.
LEMMA SaveRow ==
    ASSUME TypeOK, NEW r \in Runs, NEW seen \in Seen,
           NEW status \in {"SUCCEEDED", "FAILED"}, NEW result \in RunResult,
           Save(r, seen, status, result)
    PROVE  /\ runs' \in [Runs -> RunRow]
           /\ \A q \in Runs \ {r} : runs'[q] = runs[q]
           /\ runs'[r].key = runs[r].key
           /\ runs'[r].status \in {runs[r].status, "SUCCEEDED", "FAILED"}
           /\ runs'[r].age = 0
  <1> DEFINE newStatus == IF status = seen.status THEN runs[r].status ELSE status
             newResult == IF result = seen.result THEN runs[r].result ELSE result
             row == [status |-> newStatus, key |-> runs[r].key,
                     result |-> newResult, age |-> 0]
  <1>1. runs' = [runs EXCEPT ![r] = row]
    BY DEF Save
  <1>2. runs[r] \in RunRow
    BY DEF TypeOK
  <1>3. row \in RunRow
    <2>1. newStatus \in RunStatus \union {"NONE"}
      BY <1>2 DEF RunRow, RunStatus
    <2>2. newResult \in RunResult
      BY <1>2 DEF RunRow
    <2>3. 0 \in 0..MaxAge
      BY EvaluationAssumption DEF EvaluationAssumption, MaxAge
    <2>4. runs[r].key \in Keys \union {NoKey}
      BY <1>2 DEF RunRow
    <2> HIDE DEF newStatus, newResult
    <2> QED BY <2>1, <2>2, <2>3, <2>4 DEF RunRow
  <1>4. newStatus \in {runs[r].status, "SUCCEEDED", "FAILED"}
    OBVIOUS
  <1> HIDE DEF newStatus, newResult
  <1> QED BY <1>1, <1>3, <1>4 DEF TypeOK

\* A row that is created.
LEMMA NewRowTyped == \A k \in Keys \union {NoKey} : NewRow(k) \in RunRow
  <1>1. 0 \in 0..MaxAge
    BY EvaluationAssumption DEF EvaluationAssumption, MaxAge
  <1> QED BY <1>1 DEF NewRow, RunRow, RunStatus, RunResult

\* Claiming and ageing keep a row typed.
LEMMA RowUpdatesTyped ==
    \A row \in RunRow :
        /\ ClaimedRow(row) \in RunRow
        /\ [row EXCEPT !.age = Older(row.age, MaxAge)] \in RunRow
  <1>1. 0 \in 0..MaxAge
    BY EvaluationAssumption DEF EvaluationAssumption, MaxAge
  <1>2. \A row \in RunRow : ClaimedRow(row) \in RunRow
    BY <1>1 DEF ClaimedRow, RunRow, RunStatus
  <1>3. ASSUME NEW row \in RunRow
        PROVE  [row EXCEPT !.age = Older(row.age, MaxAge)] \in RunRow
    <2>1. Older(row.age, MaxAge) \in 0..MaxAge
      BY EvaluationAssumption DEF EvaluationAssumption, MaxAge, RunRow, Older
    <2> QED BY <2>1 DEF RunRow
  <1> QED BY <1>2, <1>3

\* The moves of a handler keep its control state typed.
LEMMA HandlerMovesTyped ==
    ASSUME TypeOK, NEW h \in Handlers
    PROVE  /\ \A pc \in HandlerPc :
                 GoTo(h, pc) => handlers' \in [Handlers -> HandlerState]
           /\ handlers' = [handlers EXCEPT ![h] = IdleHandler]
                 => handlers' \in [Handlers -> HandlerState]
           /\ \A pc \in HandlerPc, k \in Keys \union {NoKey},
                 r \in Runs \union {NoRun}, seen \in Seen :
                 Become(h, pc, k, r, seen)
                    => handlers' \in [Handlers -> HandlerState]
  <1>0. Unseen \in Seen
    BY DEF Unseen, Seen, RunResult
  <1>1. IdleHandler \in HandlerState
    BY <1>0 DEF IdleHandler, HandlerState, HandlerPc
  <1>2. ASSUME NEW pc \in HandlerPc
        PROVE  [handlers[h] EXCEPT !.pc = pc] \in HandlerState
    BY DEF TypeOK, HandlerState
  <1>3. ASSUME NEW pc \in HandlerPc, GoTo(h, pc)
        PROVE  handlers' \in [Handlers -> HandlerState]
    BY <1>2, <1>3 DEF TypeOK, GoTo
  <1>4. ASSUME handlers' = [handlers EXCEPT ![h] = IdleHandler]
        PROVE  handlers' \in [Handlers -> HandlerState]
    BY <1>1, <1>4 DEF TypeOK
  <1>5. ASSUME NEW pc \in HandlerPc, NEW k \in Keys \union {NoKey},
               NEW r \in Runs \union {NoRun}, NEW seen \in Seen,
               Become(h, pc, k, r, seen)
        PROVE  handlers' \in [Handlers -> HandlerState]
    <2>1. [pc |-> pc, key |-> k, run |-> r, seen |-> seen] \in HandlerState
      BY DEF HandlerState
    <2> QED BY <2>1, <1>5 DEF TypeOK, Become
  <1> QED BY <1>3, <1>4, <1>5

\* The moves of a worker keep its control state typed.
LEMMA WorkerMovesTyped ==
    ASSUME TypeOK, NEW w \in Workers
    PROVE  /\ \A pc \in WorkerPc :
                 Advance(w, pc) => workers' \in [Workers -> WorkerState]
           /\ \A pc \in WorkerPc, seen \in Seen :
                 AdvanceWith(w, pc, seen) => workers' \in [Workers -> WorkerState]
           /\ [workers[w] EXCEPT !.message = "redelivered"] \in WorkerState
           /\ [workers[w] EXCEPT !.hold = Older(workers[w].hold, MaxHold)]
                 \in WorkerState
           /\ IdleWorker \in WorkerState
           /\ \A r \in Runs : [pc |-> "received", run |-> r, seen |-> Unseen,
                               hold |-> 0, message |-> "held"] \in WorkerState
  <1> USE EvaluationAssumption DEF EvaluationAssumption
  <1>0. Unseen \in Seen /\ 0 \in 0..MaxHold
    BY DEF Unseen, Seen, RunResult, MaxHold, MaxAge
  <1>1. /\ IdleWorker \in WorkerState
        /\ \A r \in Runs : [pc |-> "received", run |-> r, seen |-> Unseen,
                            hold |-> 0, message |-> "held"] \in WorkerState
    BY <1>0 DEF IdleWorker, WorkerState, WorkerPc
  <1>2. ASSUME NEW pc \in WorkerPc, Advance(w, pc)
        PROVE  workers' \in [Workers -> WorkerState]
    <2>1. [workers[w] EXCEPT !.pc = pc] \in WorkerState
      BY DEF TypeOK, WorkerState
    <2> QED BY <2>1, <1>2 DEF TypeOK, Advance
  <1>3. ASSUME NEW pc \in WorkerPc, NEW seen \in Seen, AdvanceWith(w, pc, seen)
        PROVE  workers' \in [Workers -> WorkerState]
    <2>1. [pc |-> pc, run |-> workers[w].run, seen |-> seen,
           hold |-> workers[w].hold, message |-> workers[w].message] \in WorkerState
      BY DEF TypeOK, WorkerState
    <2> QED BY <2>1, <1>3 DEF TypeOK, AdvanceWith
  <1>4. [workers[w] EXCEPT !.message = "redelivered"] \in WorkerState
    BY DEF TypeOK, WorkerState
  <1>5. [workers[w] EXCEPT !.hold = Older(workers[w].hold, MaxHold)] \in WorkerState
    <2>1. Older(workers[w].hold, MaxHold) \in 0..MaxHold
      BY DEF TypeOK, WorkerState, Older, MaxHold, MaxAge
    <2> QED BY <2>1 DEF TypeOK, WorkerState
  <1> QED BY <1>1, <1>2, <1>3, <1>4, <1>5

-----------------------------------------------------------------------------
(* Type correctness, and the runs that exist *)

LEMMA InjectTyped ==
    ASSUME TypeOK, NEW kind, Inject(kind)
    PROVE  faults' \in Seq(FaultKinds)
  BY EvaluationAssumption DEF EvaluationAssumption, TypeOK, Inject

LEMMA LoadTyped == ASSUME TypeOK PROVE \A r \in Runs : Load(r) \in Seen
  BY DEF TypeOK, Load, Seen, RunRow

LEMMA InitRuns == Init => RunsInv
  <1> SUFFICES ASSUME Init PROVE RunsInv
    OBVIOUS
  <1> USE EvaluationAssumption DEF EvaluationAssumption
  <1>1. NoRow \in RunRow
    BY DEF NoRow, RunRow, RunResult, MaxAge
  <1>2. IdleHandler \in HandlerState
    BY DEF IdleHandler, HandlerState, HandlerPc, Unseen, Seen, RunResult
  <1>3. IdleWorker \in WorkerState
    BY DEF IdleWorker, WorkerState, WorkerPc, Unseen, Seen, RunResult, MaxHold, MaxAge
  <1>4. TypeOK
    BY <1>1, <1>2, <1>3 DEF Init, TypeOK
  <1>5. HandlersHoldRuns /\ MessagesHaveRuns /\ WorkersHoldRuns
    BY DEF Init, HandlersHoldRuns, Holding, IdleHandler, MessagesHaveRuns,
           WorkersHoldRuns, IdleWorker
  <1> QED BY <1>4, <1>5 DEF RunsInv

\* A handler's step leaves every variable in its type.
LEMMA HandlerTyped ==
    ASSUME RunsInv, NEW h \in Handlers,
           Request(h) \/ HandlerStep(h) \/ HandlerFault(h)
    PROVE  TypeOK'
  <1> USE HandlerMovesTyped, NewRowTyped, InjectTyped, LoadTyped
  <1> USE DEF RunsInv, TypeOK
  <1>0. /\ HandlerPc = {"idle", "inserting", "conflict", "publishing",
                        "unpublished", "recording"}
        /\ Unseen \in Seen /\ NewlySeen \in Seen
        /\ handlers[h].key \in Keys \union {NoKey}
        /\ handlers[h].pc \in Holding => handlers[h].run \in Runs
        /\ handlers[h].seen \in Seen
    BY DEF HandlerPc, Unseen, NewlySeen, Seen, RunStatus, RunResult,
           HandlersHoldRuns, HandlerState
  <1>1. ASSUME NEW k \in Keys \union {NoKey}, NEW r \in Runs,
               NEW seen \in Seen, Found(h, k, r, seen)
        PROVE  handlers' \in [Handlers -> HandlerState]
    BY <1>0, <1>1 DEF Found
  <1>2. ASSUME NEW k \in Keys, LookUp(h, k) PROVE TypeOK'
    <2>1. handlers' \in [Handlers -> HandlerState]
      <3>1. CASE \E r \in Runs : Found(h, k, r, Load(r))
        BY <3>1, <1>1
      <3>2. CASE Become(h, "inserting", k, NoRun, Unseen)
        BY <3>2, <1>0
      <3> QED BY <3>1, <3>2, <1>2 DEF LookUp
    <2> QED BY <2>1, <1>2 DEF LookUp
  <1>3. ASSUME NEW r \in Runs, Insert(h, r) PROVE TypeOK'
    BY <1>0, <1>3 DEF Insert
  <1>4. CASE InsertConflicts(h)
    BY <1>0, <1>4 DEF InsertConflicts
  <1>5. CASE FindWinner(h)
    <2>1. handlers' \in [Handlers -> HandlerState]
      BY <1>0, <1>1, <1>5 DEF FindWinner
    <2> QED BY <2>1, <1>5 DEF FindWinner
  <1>6. CASE Publish(h)
    <2>1. handlers[h].run \in Runs
      BY <1>0, <1>6 DEF Publish, Holding
    <2>2. Become(h, "idle", handlers[h].key, handlers[h].run, Unseen)
      BY <1>6 DEF Publish
    <2>3. handlers' \in [Handlers -> HandlerState]
      BY <1>0, <2>1, <2>2
    <2>4. queue' \in [Runs -> Nat]
      BY <2>1, <1>6 DEF Publish
    <2> QED BY <2>3, <2>4, <1>6 DEF Publish
  <1>7. CASE ReadUnpublished(h)
    <2>1. handlers[h].run \in Runs
      BY <1>0, <1>7 DEF ReadUnpublished, Holding
    <2> QED BY <1>0, <2>1, <1>7 DEF ReadUnpublished
  <1>8. CASE RecordUnpublished(h)
    <2>1. handlers[h].run \in Runs
      BY <1>0, <1>8 DEF RecordUnpublished, Holding
    <2>2. "QUEUE" \in RunResult
      BY DEF RunResult, Failures
    <2>3. runs' \in [Runs -> RunRow]
      BY <1>0, <2>1, <2>2, <1>8, SaveRow DEF RecordUnpublished
    <2> QED BY <2>3, <1>8 DEF RecordUnpublished
  <1>9. CASE FailPublish(h)
    <2>1. handlers[h].run \in Runs
      BY <1>0, <1>9 DEF FailPublish, Holding
    <2> QED BY <1>0, <2>1, <1>9 DEF FailPublish
  <1>10. CASE AbandonRequest(h)
    BY <1>0, <1>10 DEF AbandonRequest
  <1> QED
    BY <1>2, <1>3, <1>4, <1>5, <1>6, <1>7, <1>8, <1>9, <1>10
    DEF Request, HandlerStep, HandlerFault

\* A worker's step leaves every variable in its type.
LEMMA WorkerTyped ==
    ASSUME RunsInv, NEW w \in Workers,
           (\E r \in Runs : Receive(w, r)) \/ WorkerStep(w) \/ WorkerFault(w)
    PROVE  TypeOK'
  <1> USE WorkerMovesTyped, RowUpdatesTyped, InjectTyped, LoadTyped
  <1> USE DEF RunsInv, TypeOK
  <1>0. /\ WorkerPc = {"idle", "received", "executing", "failing", "recording",
                       "acking"}
        /\ {"ABSENT", "PASS", "THRESHOLDS", "EXECUTION"} \subseteq RunResult
        /\ workers[w].seen \in Seen
        /\ workers[w].pc # "idle" => workers[w].run \in Runs
    BY DEF WorkerPc, RunResult, Failures, WorkersHoldRuns, WorkerState
  <1>a. ASSUME workers[w].pc # "idle" PROVE Redelivered(w) \in [Runs -> Nat]
    BY <1>0, <1>a DEF Redelivered
  <1>1. ASSUME NEW r \in Runs, Receive(w, r) PROVE TypeOK'
    <2>1. queue' \in [Runs -> Nat]
      BY <1>1 DEF Receive
    <2> DEFINE task == [pc |-> "received", run |-> r, seen |-> Unseen,
                        hold |-> 0, message |-> "held"]
    <2>2. workers' = [workers EXCEPT ![w] = task] /\ task \in WorkerState
      BY <1>1 DEF Receive
    <2> HIDE DEF task
    <2>3. workers' \in [Workers -> WorkerState]
      BY <2>2
    <2> QED BY <2>1, <2>3, <1>1 DEF Receive
  <1>2. CASE Claim(w)
    <2> DEFINE seen == [status |-> "RUNNING", result |-> runs[workers[w].run].result]
    <2>1. workers[w].run \in Runs /\ AdvanceWith(w, "executing", seen)
      BY <1>0, <1>2 DEF Claim
    <2>2. seen \in Seen
      BY <2>1 DEF Seen, RunRow, RunStatus
    <2>3. runs' \in [Runs -> RunRow]
      BY <2>1, <1>2 DEF Claim
    <2> HIDE DEF seen
    <2> QED BY <1>0, <2>1, <2>2, <2>3, <1>2 DEF Claim
  <1>3. CASE Skip(w)
    BY <1>0, <1>3 DEF Skip
  <1>4. ASSUME NEW result \in {"PASS", "THRESHOLDS", "EXECUTION"},
               Complete(w, result)
        PROVE  TypeOK'
    <2>1. workers[w].run \in Runs
      BY <1>0, <1>4 DEF Complete
    <2>2. runs' \in [Runs -> RunRow]
      BY <1>0, <2>1, <1>4, SaveRow DEF Complete
    <2> QED BY <1>0, <2>2, <1>4 DEF Complete
  <1>5. CASE ReadForFailure(w)
    <2>1. workers[w].run \in Runs
      BY <1>0, <1>5 DEF ReadForFailure
    <2> QED BY <1>0, <2>1, <1>5 DEF ReadForFailure
  <1>6. CASE RecordFailure(w)
    <2>1. workers[w].run \in Runs
      BY <1>0, <1>6 DEF RecordFailure
    <2>2. runs' \in [Runs -> RunRow]
      BY <1>0, <2>1, <1>6, SaveRow DEF RecordFailure
    <2> QED BY <1>0, <2>2, <1>6 DEF RecordFailure
  <1>7. CASE Acknowledge(w)
    BY <1>7 DEF Acknowledge
  <1>8. CASE TaskRaises(w)
    BY <1>0, <1>8 DEF TaskRaises
  <1>9. CASE LoseFailure(w)
    BY <1>0, <1>9 DEF LoseFailure
  <1>10. CASE CrashWorker(w)
    BY <1>a, <1>10 DEF CrashWorker
  <1>11. CASE Redeliver(w)
    BY <1>a, <1>11 DEF Redeliver
  <1> QED
    BY <1>1, <1>2, <1>3, <1>4, <1>5, <1>6, <1>7, <1>8, <1>9, <1>10, <1>11
    DEF WorkerStep, WorkerFault

\* Time leaves every variable in its type.
LEMMA TickTyped == ASSUME RunsInv, Tick PROVE TypeOK'
  <1> USE RowUpdatesTyped, WorkerMovesTyped DEF RunsInv, TypeOK
  <1>1. runs' \in [Runs -> RunRow]
    BY DEF Tick
  <1>2. workers' \in [Workers -> WorkerState]
    BY DEF Tick
  <1> QED BY <1>1, <1>2 DEF Tick

\* A step of a handler or a worker keeps the rows that exist, and makes none
\* look older.
LEMMA RowsStep ==
    ASSUME RunsInv,
           \/ \E h \in Handlers : Request(h) \/ HandlerStep(h) \/ HandlerFault(h)
           \/ \E w \in Workers :
                 (\E r \in Runs : Receive(w, r)) \/ WorkerStep(w) \/ WorkerFault(w)
    PROVE  \A r \in Runs : RowKept(r) /\ NotOlder(r)
  <1> USE DEF RunsInv, RowKept, NotOlder, Created
  <1>1. ASSUME runs' = runs PROVE \A r \in Runs : RowKept(r) /\ NotOlder(r)
    BY <1>1
  <1>2. ASSUME NEW r \in Runs, Created(r), NEW seen \in Seen,
               NEW status \in {"SUCCEEDED", "FAILED"}, NEW result \in RunResult,
               Save(r, seen, status, result)
        PROVE  \A q \in Runs : RowKept(q) /\ NotOlder(q)
    BY <1>2, SaveRow
  <1>3. {"PASS", "THRESHOLDS", "EXECUTION", "QUEUE"} \subseteq RunResult
    BY DEF RunResult, Failures
  <1>4. ASSUME NEW h \in Handlers, NEW r \in Runs, Insert(h, r)
        PROVE  \A q \in Runs : RowKept(q) /\ NotOlder(q)
    <2>1. \A q \in Runs \ {r} : runs'[q] = runs[q]
      BY <1>4 DEF Insert, TypeOK
    <2>2. ~Created(r) /\ runs'[r].status = "PENDING"
      BY <1>4 DEF Insert, NewRow, TypeOK
    <2> QED BY <2>1, <2>2
  <1>5. ASSUME NEW h \in Handlers, RecordUnpublished(h)
        PROVE  \A q \in Runs : RowKept(q) /\ NotOlder(q)
    <2>1. /\ handlers[h].run \in Runs
          /\ Created(handlers[h].run)
          /\ handlers[h].seen \in Seen
      BY <1>5 DEF RecordUnpublished, HandlersHoldRuns, Holding, TypeOK, HandlerState
    <2>2. Save(handlers[h].run, handlers[h].seen, "FAILED", "QUEUE")
      BY <1>5 DEF RecordUnpublished
    <2> QED BY <2>1, <2>2, <1>2, <1>3
  <1>6. ASSUME NEW w \in Workers, workers[w].pc # "idle"
        PROVE  /\ workers[w].run \in Runs
               /\ Created(workers[w].run)
               /\ workers[w].seen \in Seen
    BY <1>6 DEF WorkersHoldRuns, TypeOK, WorkerState
  <1>7. ASSUME NEW w \in Workers, Claim(w)
        PROVE  \A q \in Runs : RowKept(q) /\ NotOlder(q)
    <2> DEFINE r == workers[w].run
    <2>1. /\ r \in Runs
          /\ runs' = [runs EXCEPT ![r] = ClaimedRow(runs[r])]
      BY <1>6, <1>7 DEF Claim
    <2>2. \A q \in Runs \ {r} : runs'[q] = runs[q]
      BY <2>1 DEF TypeOK
    <2>3. runs'[r].status = "RUNNING" /\ runs'[r].age = 0 /\ runs'[r].key = runs[r].key
      BY <2>1 DEF TypeOK, ClaimedRow
    <2> QED BY <2>1, <2>2, <2>3
  <1>8. ASSUME NEW w \in Workers, NEW result \in {"PASS", "THRESHOLDS", "EXECUTION"},
               Complete(w, result)
        PROVE  \A q \in Runs : RowKept(q) /\ NotOlder(q)
    <2>1. \E status \in {"SUCCEEDED", "FAILED"} :
             Save(workers[w].run, workers[w].seen, status, result)
      BY <1>8 DEF Complete
    <2>2. workers[w].pc # "idle"
      BY <1>8 DEF Complete
    <2> QED BY <2>1, <2>2, <1>2, <1>3, <1>6
  <1>9. ASSUME NEW w \in Workers, RecordFailure(w)
        PROVE  \A q \in Runs : RowKept(q) /\ NotOlder(q)
    <2>1. /\ workers[w].pc # "idle"
          /\ Save(workers[w].run, workers[w].seen, "FAILED", "EXECUTION")
      BY <1>9 DEF RecordFailure
    <2> QED BY <2>1, <1>2, <1>3, <1>6
  <1>10. ASSUME NEW h \in Handlers, Request(h) \/ HandlerStep(h) \/ HandlerFault(h)
         PROVE  \A q \in Runs : RowKept(q) /\ NotOlder(q)
    <2>1. CASE \/ Request(h) \/ InsertConflicts(h) \/ FindWinner(h) \/ Publish(h)
               \/ ReadUnpublished(h) \/ HandlerFault(h)
      BY <2>1, <1>1
      DEF Request, LookUp, InsertConflicts, FindWinner, Publish, ReadUnpublished,
          HandlerFault, FailPublish, AbandonRequest
    <2> QED BY <2>1, <1>4, <1>5, <1>10 DEF HandlerStep
  <1>11. ASSUME NEW w \in Workers,
                (\E r \in Runs : Receive(w, r)) \/ WorkerStep(w) \/ WorkerFault(w)
         PROVE  \A q \in Runs : RowKept(q) /\ NotOlder(q)
    <2>1. CASE \/ \E r \in Runs : Receive(w, r)
               \/ Skip(w) \/ ReadForFailure(w) \/ Acknowledge(w) \/ WorkerFault(w)
      BY <2>1, <1>1
      DEF Receive, Skip, ReadForFailure, Acknowledge, WorkerFault, TaskRaises,
          LoseFailure, CrashWorker, Redeliver
    <2> QED BY <2>1, <1>7, <1>8, <1>9, <1>11 DEF WorkerStep
  <1> QED BY <1>10, <1>11

\* Time ages the RUNNING rows and changes nothing else in a row.
LEMMA TickRows ==
    ASSUME TypeOK, Tick
    PROVE  \A r \in Runs :
              /\ runs'[r].status = runs[r].status
              /\ runs'[r].key = runs[r].key
              /\ runs'[r].age = IF runs[r].status = "RUNNING"
                                THEN Older(runs[r].age, MaxAge) ELSE runs[r].age
  <1> SUFFICES ASSUME NEW r \in Runs
               PROVE  /\ runs'[r].status = runs[r].status
                      /\ runs'[r].key = runs[r].key
                      /\ runs'[r].age = IF runs[r].status = "RUNNING"
                                        THEN Older(runs[r].age, MaxAge)
                                        ELSE runs[r].age
    OBVIOUS
  <1>1. runs[r] \in RunRow
    BY DEF TypeOK
  <1> QED BY <1>1 DEF Tick, RunRow

\* A worker keeps its run over time and holds its message longer.
LEMMA TickWorkers ==
    ASSUME TypeOK, Tick
    PROVE  \A w \in Workers :
              /\ workers'[w].pc = workers[w].pc
              /\ workers'[w].run = workers[w].run
              /\ workers'[w].hold = IF workers[w].pc = "idle" THEN workers[w].hold
                                    ELSE Older(workers[w].hold, MaxHold)
  <1> SUFFICES ASSUME NEW w \in Workers
               PROVE  /\ workers'[w].pc = workers[w].pc
                      /\ workers'[w].run = workers[w].run
                      /\ workers'[w].hold = IF workers[w].pc = "idle"
                                            THEN workers[w].hold
                                            ELSE Older(workers[w].hold, MaxHold)
    OBVIOUS
  <1>1. workers[w] \in WorkerState
    BY DEF TypeOK
  <1> QED BY <1>1 DEF Tick, WorkerState

\* What exists goes on to exist, whatever the step.
LEMMA RowsKept ==
    ASSUME RunsInv, Next
    PROVE  \A r \in Runs : RowKept(r)
  <1>1. CASE Tick
    BY <1>1, TickRows DEF RunsInv, RowKept, Created
  <1> QED BY <1>1, RowsStep DEF Next

\* A handler that steps holds a run only if that exists and has its key.
LEMMA HandlerHoldsRun ==
    ASSUME RunsInv, NEW h \in Handlers,
           Request(h) \/ HandlerStep(h) \/ HandlerFault(h),
           handlers'[h].pc \in Holding
    PROVE  \E r \in Runs : /\ handlers'[h].run = r
                           /\ runs'[r].status # "NONE"
                           /\ runs'[r].key = handlers'[h].key
  <1> DEFINE Goal == \E r \in Runs : /\ handlers'[h].run = r
                                     /\ runs'[r].status # "NONE"
                                     /\ runs'[r].key = handlers'[h].key
  <1> USE DEF RunsInv, Holding, Created
  <1>0. handlers \in [Handlers -> HandlerState] /\ runs \in [Runs -> RunRow]
    BY DEF TypeOK
  <1>1. ASSUME NEW k \in Keys \union {NoKey}, NEW r \in Runs, Named(k, r),
               NEW seen, Found(h, k, r, seen), UNCHANGED runs
        PROVE  Goal
    BY <1>0, <1>1 DEF Found, Named, Become
  <1>2. ASSUME NEW k \in Keys, LookUp(h, k) PROVE Goal
    <2>1. CASE \E r \in Runs : Named(k, r) /\ Found(h, k, r, Load(r))
      BY <2>1, <1>1, <1>2 DEF LookUp
    <2>2. CASE Become(h, "inserting", k, NoRun, Unseen)
      BY <2>2, <1>0 DEF Become
    <2> QED BY <2>1, <2>2, <1>2 DEF LookUp
  <1>3. ASSUME NEW r \in Runs, Insert(h, r) PROVE Goal
    <2>1. runs'[r].status = "PENDING" /\ runs'[r].key = handlers[h].key
      BY <1>0, <1>3 DEF Insert, NewRow
    <2>2. handlers'[h].run = r /\ handlers'[h].key = handlers[h].key
      BY <1>0, <1>3 DEF Insert, Become
    <2> QED BY <2>1, <2>2
  <1>4. CASE FindWinner(h)
    <2>1. handlers[h].key \in Keys \union {NoKey}
      BY <1>0 DEF HandlerState
    <2> QED BY <2>1, <1>1, <1>4 DEF FindWinner
  <1>5. ASSUME handlers[h].pc \in Holding, handlers'[h].run = handlers[h].run,
               handlers'[h].key = handlers[h].key, UNCHANGED runs
        PROVE  Goal
    BY <1>5 DEF HandlersHoldRuns
  <1>6. CASE FailPublish(h)
    <2>1. handlers'[h].run = handlers[h].run /\ handlers'[h].key = handlers[h].key
      BY <1>0, <1>6 DEF FailPublish, GoTo, HandlerState
    <2> QED BY <2>1, <1>5, <1>6 DEF FailPublish
  <1>7. CASE ReadUnpublished(h)
    <2>1. handlers'[h].run = handlers[h].run /\ handlers'[h].key = handlers[h].key
      BY <1>0, <1>7 DEF ReadUnpublished, Become
    <2> QED BY <2>1, <1>5, <1>7 DEF ReadUnpublished
  <1>8. CASE InsertConflicts(h) \/ Publish(h) \/ RecordUnpublished(h) \/ AbandonRequest(h)
    <2>1. handlers'[h].pc \in {"idle", "conflict"}
      BY <1>0, <1>8
      DEF InsertConflicts, Publish, RecordUnpublished, AbandonRequest, GoTo,
          Become, IdleHandler, HandlerState
    <2> QED BY <2>1
  <1> QED
    BY <1>2, <1>3, <1>4, <1>6, <1>7, <1>8 DEF Request, HandlerStep, HandlerFault

\* A handler's step does not touch the other handlers, nor the workers.
LEMMA HandlerLeavesOthers ==
    ASSUME TypeOK, NEW h \in Handlers,
           Request(h) \/ HandlerStep(h) \/ HandlerFault(h)
    PROVE  /\ workers' = workers
           /\ \A g \in Handlers \ {h} : handlers'[g] = handlers[g]
  BY DEF TypeOK, Request, LookUp, Found, HandlerStep, Insert, InsertConflicts,
         FindWinner, Publish, ReadUnpublished, RecordUnpublished, HandlerFault,
         FailPublish, AbandonRequest, Become, GoTo

\* A message that a handler publishes is of a run that exists.
LEMMA HandlerMessages ==
    ASSUME RunsInv, NEW h \in Handlers,
           Request(h) \/ HandlerStep(h) \/ HandlerFault(h)
    PROVE  \A r \in Runs : queue'[r] > 0 => Created(r)
  <1>1. CASE queue' = queue
    BY <1>1 DEF RunsInv, MessagesHaveRuns
  <1>2. CASE Publish(h) \/ (FailPublish(h) /\ queue' # queue)
    <2>1. /\ handlers[h].pc \in Holding
          /\ \A r \in Runs \ {handlers[h].run} : queue'[r] = queue[r]
      BY <1>2 DEF Publish, FailPublish, Holding, RunsInv, TypeOK
    <2>2. Created(handlers[h].run)
      BY <2>1 DEF RunsInv, HandlersHoldRuns
    <2> QED BY <2>1, <2>2 DEF RunsInv, MessagesHaveRuns
  <1> QED
    BY <1>1, <1>2
    DEF Request, LookUp, HandlerStep, Insert, InsertConflicts, FindWinner,
        ReadUnpublished, RecordUnpublished, HandlerFault, AbandonRequest

\* A worker's step touches no handler and no other worker; its run, and the
\* run of every message it puts back, exists.
LEMMA WorkerHoldsRun ==
    ASSUME RunsInv, NEW w \in Workers,
           (\E r \in Runs : Receive(w, r)) \/ WorkerStep(w) \/ WorkerFault(w)
    PROVE  /\ handlers' = handlers
           /\ \A v \in Workers \ {w} : workers'[v] = workers[v]
           /\ workers'[w].pc # "idle" =>
                 workers'[w].run \in Runs /\ Created(workers'[w].run)
           /\ \A r \in Runs : queue'[r] > 0 => Created(r)
  <1> USE DEF RunsInv
  <1>0. workers \in [Workers -> WorkerState] /\ queue \in [Runs -> Nat]
    BY DEF TypeOK
  <1>1. handlers' = handlers /\ \A v \in Workers \ {w} : workers'[v] = workers[v]
    BY <1>0
    DEF Receive, WorkerStep, Claim, Skip, Complete, ReadForFailure, RecordFailure,
        Acknowledge, WorkerFault, TaskRaises, LoseFailure, CrashWorker, Redeliver,
        Advance, AdvanceWith
  <1>2. ASSUME NEW r \in Runs, Receive(w, r)
        PROVE  /\ workers'[w].run \in Runs /\ Created(workers'[w].run)
               /\ \A q \in Runs : queue'[q] > 0 => Created(q)
    <2>1. Created(r) /\ workers'[w].run = r
      BY <1>0, <1>2 DEF Receive, MessagesHaveRuns
    <2>2. \A q \in Runs \ {r} : queue'[q] = queue[q]
      BY <1>0, <1>2 DEF Receive
    <2> QED BY <2>1, <2>2 DEF MessagesHaveRuns
  <1>3. ASSUME WorkerStep(w) \/ WorkerFault(w)
        PROVE  /\ workers[w].pc # "idle"
               /\ workers'[w].pc = "idle" \/ workers'[w].run = workers[w].run
               /\ queue' \in {queue, Redelivered(w)}
    BY <1>0, <1>3
    DEF WorkerStep, Claim, Skip, Complete, ReadForFailure, RecordFailure,
        Acknowledge, WorkerFault, TaskRaises, LoseFailure, CrashWorker, Redeliver,
        Advance, AdvanceWith, IdleWorker, WorkerState
  <1>4. ASSUME workers[w].pc # "idle", queue' \in {queue, Redelivered(w)}
        PROVE  \A r \in Runs : queue'[r] > 0 => Created(r)
    BY <1>0, <1>4 DEF WorkersHoldRuns, MessagesHaveRuns, Redelivered
  <1>5. ASSUME WorkerStep(w) \/ WorkerFault(w)
        PROVE  /\ workers'[w].pc # "idle" =>
                     workers'[w].run \in Runs /\ Created(workers'[w].run)
               /\ \A r \in Runs : queue'[r] > 0 => Created(r)
    BY <1>3, <1>4, <1>5 DEF WorkersHoldRuns
  <1> QED BY <1>1, <1>2, <1>5

\* The runs that messages and processes hold exist, with the handler's key.
LEMMA RunsInvStep == RunsInv /\ [Next]_vars => RunsInv'
  <1> SUFFICES ASSUME RunsInv, [Next]_vars PROVE RunsInv'
    OBVIOUS
  <1> USE DEF RunsInv
  <1>1. ASSUME NEW h \in Handlers, Request(h) \/ HandlerStep(h) \/ HandlerFault(h)
        PROVE  RunsInv'
    <2>0. \A r \in Runs : RowKept(r)
      BY <1>1, RowsKept DEF Next
    <2>1. TypeOK'
      BY <1>1, HandlerTyped
    <2>2. HandlersHoldRuns'
      <3>1. handlers'[h].pc \in Holding =>
               /\ handlers'[h].run \in Runs
               /\ runs'[handlers'[h].run].status # "NONE"
               /\ runs'[handlers'[h].run].key = handlers'[h].key
        BY <1>1, HandlerHoldsRun
      <3> QED
        BY <3>1, <2>0, <1>1, HandlerLeavesOthers
        DEF HandlersHoldRuns, RowKept, Created
    <2>3. MessagesHaveRuns'
      BY <2>0, <1>1, HandlerMessages DEF MessagesHaveRuns, RowKept
    <2>4. WorkersHoldRuns'
      BY <2>0, <1>1, HandlerLeavesOthers DEF WorkersHoldRuns, RowKept
    <2> QED BY <2>1, <2>2, <2>3, <2>4
  <1>2. ASSUME NEW w \in Workers,
               (\E r \in Runs : Receive(w, r)) \/ WorkerStep(w) \/ WorkerFault(w)
        PROVE  RunsInv'
    <2>0. \A r \in Runs : RowKept(r)
      BY <1>2, RowsKept DEF Next
    <2>1. TypeOK'
      BY <1>2, WorkerTyped
    <2>2. HandlersHoldRuns'
      BY <2>0, <1>2, WorkerHoldsRun DEF HandlersHoldRuns, RowKept
    <2>3. MessagesHaveRuns'
      BY <2>0, <1>2, WorkerHoldsRun DEF MessagesHaveRuns, RowKept
    <2>4. WorkersHoldRuns'
      <3>1. workers'[w].pc # "idle" =>
               workers'[w].run \in Runs /\ Created(workers'[w].run)
        BY <1>2, WorkerHoldsRun
      <3>2. \A v \in Workers \ {w} : workers'[v] = workers[v]
        BY <1>2, WorkerHoldsRun
      <3> QED BY <3>1, <3>2, <2>0 DEF WorkersHoldRuns, RowKept
    <2> QED BY <2>1, <2>2, <2>3, <2>4
  <1>3. CASE Tick
    <2>0. \A r \in Runs : RowKept(r)
      BY <1>3, RowsKept DEF Next
    <2>1. TypeOK'
      BY <1>3, TickTyped
    <2>2. HandlersHoldRuns' /\ MessagesHaveRuns'
      BY <2>0, <1>3 DEF Tick, HandlersHoldRuns, MessagesHaveRuns, RowKept
    <2>3. WorkersHoldRuns'
      BY <2>0, <1>3, TickWorkers DEF WorkersHoldRuns, RowKept
    <2> QED BY <2>1, <2>2, <2>3
  <1>4. CASE UNCHANGED vars
    BY <1>4
    DEF vars, TypeOK, HandlersHoldRuns, MessagesHaveRuns, WorkersHoldRuns, Created
  <1> QED BY <1>1, <1>2, <1>3, <1>4 DEF Next

\* Every reachable state is well typed: in particular a status is only ever one
\* of the four, and a result that of an execution or of a failed publication.
THEOREM TypeCorrect == Spec => []TypeOK
  <1>1. RunsInv => TypeOK
    BY DEF RunsInv
  <1> QED BY <1>1, InitRuns, RunsInvStep, PTL DEF Spec

-----------------------------------------------------------------------------
(* Exclusive execution *)

\* Only a claim makes a worker an executor; the others go on as they were.
LEMMA ExecutorsStep ==
    ASSUME RunsInv, NEW w \in Workers,
           (\E r \in Runs : Receive(w, r)) \/ WorkerStep(w) \/ WorkerFault(w)
    PROVE  workers'[w].pc = "executing" =>
              /\ workers'[w].run = workers[w].run
              /\ workers'[w].hold = workers[w].hold
              /\ Claim(w) \/ (workers[w].pc = "executing" /\ UNCHANGED runs)
  <1>0. workers \in [Workers -> WorkerState]
    BY DEF RunsInv, TypeOK
  <1>1. CASE Claim(w)
    BY <1>0, <1>1 DEF Claim, AdvanceWith
  <1>2. CASE Redeliver(w)
    BY <1>0, <1>2 DEF Redeliver, WorkerState
  <1>3. CASE \/ \E r \in Runs : Receive(w, r)
             \/ Skip(w)
             \/ \E result \in {"PASS", "THRESHOLDS", "EXECUTION"} : Complete(w, result)
             \/ ReadForFailure(w) \/ RecordFailure(w) \/ Acknowledge(w)
             \/ TaskRaises(w) \/ LoseFailure(w) \/ CrashWorker(w)
    <2>1. workers'[w].pc # "executing"
      BY <1>0, <1>3
      DEF Receive, Skip, Complete, ReadForFailure, RecordFailure, Acknowledge,
          TaskRaises, LoseFailure, CrashWorker, Advance, AdvanceWith, IdleWorker,
          WorkerState
    <2> QED BY <2>1
  <1> QED BY <1>1, <1>2, <1>3 DEF WorkerStep, WorkerFault

\* A claim makes its row RUNNING and young.
LEMMA ClaimRow ==
    ASSUME TypeOK, NEW w \in Workers, workers[w].run \in Runs, Claim(w)
    PROVE  /\ runs'[workers[w].run].status = "RUNNING"
           /\ runs'[workers[w].run].age = 0
  BY DEF TypeOK, Claim, ClaimedRow

\* Time passes for an executor at least as it does for its row.
LEMMA TickExecutors ==
    ASSUME ExecutionInv, Tick
    PROVE  ExecutorsOutliveLease' /\ ExecutionExclusion'
  <1> USE DEF ExecutionInv, RunsInv
  <1>0. ASSUME NEW w \in Workers, workers[w].pc # "idle"
        PROVE  /\ workers[w].hold \in 0..MaxHold
               /\ workers'[w].hold = Older(workers[w].hold, MaxHold)
    BY <1>0, TickWorkers DEF TypeOK, WorkerState
  <1>1. ASSUME NEW w \in Workers, NEW r \in Runs, Executing(w, r)'
        PROVE  /\ runs'[r].status # "PENDING"
               /\ runs'[r].status = "RUNNING" => runs'[r].age <= workers'[w].hold
    <2>1. Executing(w, r)
      BY <1>1, TickWorkers DEF Executing
    <2>2. runs'[r].status = runs[r].status /\ runs[r].status # "PENDING"
      BY <2>1, TickRows DEF ExecutorsOutliveLease
    <2>3. ASSUME runs[r].status = "RUNNING"
          PROVE  runs'[r].age <= workers'[w].hold
      <3>1. runs[r].age <= workers[w].hold
        BY <2>1, <2>3 DEF ExecutorsOutliveLease
      <3>2. runs'[r].age = Older(runs[r].age, MaxAge)
        BY <2>3, TickRows
      <3>3. runs[r].age \in 0..MaxAge
        BY DEF TypeOK, RunRow
      <3>4. /\ workers[w].hold \in 0..MaxHold
            /\ workers'[w].hold = Older(workers[w].hold, MaxHold)
        BY <1>0, <2>1 DEF Executing
      <3> QED
        BY <3>1, <3>2, <3>3, <3>4, EvaluationAssumption
        DEF EvaluationAssumption, Older, MaxAge, MaxHold
    <2> QED BY <2>2, <2>3
  <1>2. ExecutorsOutliveLease'
    BY <1>1 DEF ExecutorsOutliveLease
  <1>3. ASSUME NEW w \in Workers, workers[w].pc # "idle", workers[w].hold > StaleAfter
        PROVE  workers'[w].hold > StaleAfter
    BY <1>0, <1>3, EvaluationAssumption
    DEF EvaluationAssumption, Older, MaxAge, MaxHold
  <1>4. ExecutionExclusion'
    BY <1>3, TickWorkers DEF ExecutionExclusion
  <1> QED BY <1>2, <1>4

\* A worker's step: whoever executes goes on as before, and a claim of a run
\* that somebody executes needs a row older than the lease.
LEMMA WorkerKeepsExecution ==
    ASSUME ExecutionInv, NEW u \in Workers,
           (\E r \in Runs : Receive(u, r)) \/ WorkerStep(u) \/ WorkerFault(u)
    PROVE  ExecutorsOutliveLease' /\ ExecutionExclusion'
  <1> USE DEF ExecutionInv, RunsInv
  <1>0. /\ \A w \in Workers \ {u} : workers'[w] = workers[w]
        /\ \A r \in Runs : RowKept(r) /\ NotOlder(r)
        /\ \A w \in Workers : workers[w].hold \in Nat
        /\ StaleAfter \in Nat
    <2>1. \A w \in Workers : workers[w].hold \in Nat
      BY DEF TypeOK, WorkerState
    <2> QED
      BY <2>1, WorkerHoldsRun, RowsStep, EvaluationAssumption DEF EvaluationAssumption
  <1>1. /\ workers'[u].pc = "executing" =>
              /\ workers'[u].run = workers[u].run
              /\ workers'[u].hold = workers[u].hold
              /\ Claim(u) \/ (workers[u].pc = "executing" /\ UNCHANGED runs)
    BY ExecutorsStep
  <1>2. ASSUME NEW w \in Workers, NEW r \in Runs, Executing(w, r),
               workers'[w].hold = workers[w].hold
        PROVE  /\ runs'[r].status # "PENDING"
               /\ runs'[r].status = "RUNNING" => runs'[r].age <= workers'[w].hold
    <2>1. /\ Created(r)
          /\ runs[r].status # "PENDING"
          /\ runs[r].status = "RUNNING" => runs[r].age <= workers[w].hold
      BY <1>2 DEF Executing, WorkersHoldRuns, ExecutorsOutliveLease
    <2> QED BY <1>0, <1>2, <2>1 DEF RowKept, NotOlder
  <1>3. ASSUME Claim(u)
        PROVE  /\ workers[u].run \in Runs
               /\ runs'[workers[u].run].status = "RUNNING"
               /\ runs'[workers[u].run].age = 0
    <2>1. workers[u].run \in Runs
      BY <1>3 DEF Claim, WorkersHoldRuns
    <2> QED BY <2>1, <1>3, ClaimRow
  <1>4. ExecutorsOutliveLease'
    <2> SUFFICES ASSUME NEW w \in Workers, NEW r \in Runs, Executing(w, r)'
                 PROVE  /\ runs'[r].status # "PENDING"
                        /\ runs'[r].status = "RUNNING" =>
                              runs'[r].age <= workers'[w].hold
      BY DEF ExecutorsOutliveLease
    <2>1. CASE w # u
      <3>1. Executing(w, r) /\ workers'[w].hold = workers[w].hold
        BY <2>1, <1>0 DEF Executing
      <3> QED BY <3>1, <1>2
    <2>2. CASE w = u /\ Claim(u)
      <3>1. workers'[u].run = workers[u].run /\ workers'[u].hold = workers[u].hold
        BY <1>1, <2>2 DEF Executing
      <3>2. r = workers[u].run
        BY <3>1, <2>2 DEF Executing
      <3> QED BY <3>1, <3>2, <2>2, <1>0, <1>3
    <2>3. CASE w = u /\ ~Claim(u)
      <3>1. Executing(w, r) /\ workers'[w].hold = workers[w].hold
        BY <2>3, <1>1 DEF Executing
      <3> QED BY <3>1, <1>2
    <2> QED BY <2>1, <2>2, <2>3
  <1>5. ASSUME NEW w \in Workers \ {u}, workers[w].pc = "executing",
               workers'[u].pc = "executing", workers[w].run = workers'[u].run
        PROVE  \E x \in {u, w} : workers'[x].hold > StaleAfter
    <2>1. CASE workers[u].pc = "executing"
      <3>1. \E x \in {u, w} : workers[x].hold > StaleAfter
        BY <2>1, <1>1, <1>5 DEF ExecutionExclusion
      <3> QED BY <3>1, <1>0, <1>1, <1>5
    <2>2. CASE Claim(u)
      <3> DEFINE r == workers[u].run
      <3>1. r \in Runs /\ Executing(w, r)
        BY <2>2, <1>1, <1>3, <1>5 DEF Executing
      <3>2. runs[r].status = "RUNNING" /\ Stale(r)
        BY <2>2, <3>1 DEF Claim, Claimable, ExecutorsOutliveLease
      <3>3. runs[r].age <= workers[w].hold /\ runs[r].age > StaleAfter
        BY <3>1, <3>2 DEF ExecutorsOutliveLease, Stale
      <3>4. runs[r].age \in Nat
        BY <3>1 DEF TypeOK, RunRow
      <3>5. workers[w].hold > StaleAfter
        BY <3>3, <3>4, <1>0
      <3> QED BY <3>5, <1>0
    <2> QED BY <2>1, <2>2, <1>1, <1>5
  <1>6. ExecutionExclusion'
    <2> SUFFICES ASSUME NEW v \in Workers, NEW w \in Workers, v # w,
                        workers'[v].pc = "executing", workers'[w].pc = "executing",
                        workers'[v].run = workers'[w].run
                 PROVE  \E x \in {v, w} : workers'[x].hold > StaleAfter
      BY DEF ExecutionExclusion
    <2>1. CASE v # u /\ w # u
      BY <2>1, <1>0 DEF ExecutionExclusion
    <2>2. CASE v = u
      BY <2>2, <1>0, <1>5
    <2>3. CASE w = u
      <3>1. \E x \in {u, v} : workers'[x].hold > StaleAfter
        BY <2>3, <1>0, <1>5
      <3> QED BY <2>3, <3>1
    <2> QED BY <2>1, <2>2, <2>3
  <1> QED BY <1>4, <1>6

\* A handler may create, requeue or fail a run, but changes no executor.
LEMMA HandlerKeepsExecution ==
    ASSUME ExecutionInv, NEW h \in Handlers,
           Request(h) \/ HandlerStep(h) \/ HandlerFault(h)
    PROVE  ExecutorsOutliveLease' /\ ExecutionExclusion'
  <1> USE DEF ExecutionInv, RunsInv
  <1>0. workers' = workers /\ \A r \in Runs : RowKept(r) /\ NotOlder(r)
    BY HandlerLeavesOthers, RowsStep
  <1>1. ASSUME NEW w \in Workers, NEW r \in Runs, Executing(w, r)
        PROVE  /\ runs'[r].status # "PENDING"
               /\ runs'[r].status = "RUNNING" => runs'[r].age <= workers[w].hold
    <2>1. /\ Created(r)
          /\ runs[r].status # "PENDING"
          /\ runs[r].status = "RUNNING" => runs[r].age <= workers[w].hold
      BY <1>1 DEF Executing, WorkersHoldRuns, ExecutorsOutliveLease
    <2>2. workers[w].hold \in Nat
      BY DEF TypeOK, WorkerState
    <2> QED BY <1>0, <2>1, <2>2 DEF RowKept, NotOlder
  <1>2. ExecutorsOutliveLease'
    BY <1>0, <1>1 DEF ExecutorsOutliveLease, Executing
  <1> QED BY <1>0, <1>2 DEF ExecutionExclusion

\* "Duplicate active workers before that lease expires do not execute the run
\* twice": what claim_evaluation_run promises, for any number of workers,
\* repeated requests, redeliveries and crashes.
THEOREM ExecutionIsExclusive == Spec => []ExecutionExclusion
  <1>1. Init => ExecutionInv
    <2> SUFFICES ASSUME Init PROVE ExecutionInv
      OBVIOUS
    <2>1. \A w \in Workers : workers[w].pc # "executing"
      BY DEF Init, IdleWorker
    <2> QED
      BY <2>1, InitRuns
      DEF ExecutionInv, ExecutorsOutliveLease, Executing, ExecutionExclusion
  <1>2. ExecutionInv /\ [Next]_vars => ExecutionInv'
    <2> SUFFICES ASSUME ExecutionInv, [Next]_vars PROVE ExecutionInv'
      OBVIOUS
    <2>1. RunsInv'
      BY RunsInvStep DEF ExecutionInv
    <2>2. ExecutorsOutliveLease' /\ ExecutionExclusion'
      <3>1. CASE UNCHANGED vars
        BY <3>1
        DEF vars, ExecutionInv, ExecutorsOutliveLease, Executing, ExecutionExclusion
      <3> QED
        BY <3>1, WorkerKeepsExecution, HandlerKeepsExecution, TickExecutors DEF Next
    <2> QED BY <2>1, <2>2 DEF ExecutionInv
  <1>3. ExecutionInv => ExecutionExclusion
    BY DEF ExecutionInv
  <1> QED BY <1>1, <1>2, <1>3, PTL DEF Spec

-----------------------------------------------------------------------------
(* Runs that are not forgotten *)

\* Nothing that makes the system forget a run has happened yet.
Forgetful == {"api", "worker_crash", "database"}
Calm == \A i \in DOMAIN faults : faults[i] \notin Forgetful

\* A worker completes the run it has itself seen RUNNING, so that an outcome
\* differs from what its session loaded and is written.
ExecutorsSawRunning ==
    \A w \in Workers :
        workers[w].pc = "executing" => workers[w].seen.status = "RUNNING"

\* A failed publication is left unwritten only when the session has seen the
\* run FAILED, and such a run is not PENDING any more.
FailuresAreNotPending ==
    \A h \in Handlers :
        handlers[h].pc \in Holding /\ handlers[h].seen.status = "FAILED"
        => runs[handlers[h].run].status # "PENDING"

MemoryInv ==
    /\ RunsInv
    /\ ExecutorsSawRunning
    /\ FailuresAreNotPending
    /\ OnlyCrashesForget

\* The carriers of a PENDING run, and those of a RUNNING one.
HeldByRequest(r) ==
    \E h \in Handlers : handlers[h].run = r /\ handlers[h].pc \in Holding
HeldByReceiver(r) ==
    \E w \in Workers : workers[w].run = r /\ workers[w].pc = "received"
PendingCarried(r) == HeldByRequest(r) \/ queue[r] > 0 \/ HeldByReceiver(r)
RunningCarried(r) == \E w \in Workers : Executing(w, r)

LEMMA CarriersOf ==
    ASSUME NEW r \in Runs
    PROVE  HasCarrier(r) <=> /\ runs[r].status = "PENDING" => PendingCarried(r)
                             /\ runs[r].status = "RUNNING" => RunningCarried(r)
  BY DEF HasCarrier, PendingCarried, RunningCarried, HeldByRequest, HeldByReceiver,
         Holding, Executing

\* The same in the next state.
LEMMA NextCarriersOf ==
    ASSUME NEW r \in Runs
    PROVE  HasCarrier(r)' <=> /\ runs'[r].status = "PENDING" => PendingCarried(r)'
                              /\ runs'[r].status = "RUNNING" => RunningCarried(r)'
  BY DEF HasCarrier, PendingCarried, RunningCarried, HeldByRequest, HeldByReceiver,
         Holding, Executing

\* Faults are remembered, and a forgetful one does not leave the system calm.
LEMMA FaultsAreRemembered ==
    ASSUME TypeOK, NEW kind, Inject(kind), Calm'
    PROVE  Calm /\ kind \notin Forgetful
  <1>1. /\ faults \in Seq(FaultKinds)
        /\ faults' = Append(faults, kind)
    BY DEF TypeOK, Inject
  <1>2. /\ DOMAIN faults' = 1..(Len(faults) + 1)
        /\ DOMAIN faults = 1..Len(faults)
        /\ Len(faults) \in Nat
        /\ faults'[Len(faults) + 1] = kind
        /\ \A i \in 1..Len(faults) : faults'[i] = faults[i]
    BY <1>1
  <1> HIDE DEF Inject
  <1>3. kind \notin Forgetful
    BY <1>2 DEF Calm
  <1>4. Calm
    <2> SUFFICES ASSUME NEW i \in DOMAIN faults PROVE faults[i] \notin Forgetful
      BY DEF Calm
    <2>1. i \in DOMAIN faults' /\ faults'[i] = faults[i]
      BY <1>2
    <2> QED BY <2>1 DEF Calm
  <1> QED BY <1>3, <1>4

\* A calm step ends no process and raises no error in a task.
LEMMA CalmStep ==
    ASSUME TypeOK, Next, Calm'
    PROVE  /\ Calm
           /\ \A h \in Handlers : ~AbandonRequest(h)
           /\ \A w \in Workers : ~TaskRaises(w) /\ ~LoseFailure(w) /\ ~CrashWorker(w)
  <1>1. ASSUME NEW kind \in Forgetful PROVE ~Inject(kind)
    BY FaultsAreRemembered
  <1>2. /\ \A h \in Handlers : ~AbandonRequest(h)
        /\ \A w \in Workers : ~TaskRaises(w) /\ ~LoseFailure(w) /\ ~CrashWorker(w)
    BY <1>1
    DEF AbandonRequest, TaskRaises, LoseFailure, CrashWorker, Forgetful
  <1>3. ASSUME faults' = faults PROVE Calm
    BY <1>3 DEF Calm
  <1>4. ASSUME NEW kind, Inject(kind) PROVE Calm
    BY <1>4, FaultsAreRemembered
  <1>5. ASSUME NEW h \in Handlers, Request(h) \/ HandlerStep(h) PROVE Calm
    <2>1. faults' = faults
      BY <1>5
      DEF Request, LookUp, HandlerStep, Insert, InsertConflicts, FindWinner, Publish,
          ReadUnpublished, RecordUnpublished
    <2> QED BY <2>1, <1>3
  <1>6. ASSUME NEW h \in Handlers, HandlerFault(h) PROVE Calm
    BY <1>4, <1>6 DEF HandlerFault, FailPublish, AbandonRequest
  <1>7. ASSUME NEW w \in Workers, (\E r \in Runs : Receive(w, r)) \/ WorkerStep(w)
        PROVE  Calm
    <2>1. faults' = faults
      BY <1>7
      DEF Receive, WorkerStep, Claim, Skip, Complete, ReadForFailure, RecordFailure,
          Acknowledge
    <2> QED BY <2>1, <1>3
  <1>8. ASSUME NEW w \in Workers, WorkerFault(w) PROVE Calm
    BY <1>4, <1>8 DEF WorkerFault, TaskRaises, LoseFailure, CrashWorker, Redeliver
  <1>9. Tick => Calm
    BY <1>3 DEF Tick
  <1> QED BY <1>2, <1>5, <1>6, <1>7, <1>8, <1>9 DEF Next

\* Who executes has loaded the run when claiming it.
LEMMA ExecutorsSaw ==
    ASSUME RunsInv, ExecutorsSawRunning, Next
    PROVE  ExecutorsSawRunning'
  <1> USE DEF RunsInv
  <1>0. workers \in [Workers -> WorkerState]
    BY DEF TypeOK
  <1>1. ASSUME NEW w \in Workers,
               (\E r \in Runs : Receive(w, r)) \/ WorkerStep(w) \/ WorkerFault(w)
        PROVE  ExecutorsSawRunning'
    <2>1. \A v \in Workers \ {w} : workers'[v] = workers[v]
      BY <1>1, WorkerHoldsRun
    <2>2. ASSUME workers'[w].pc = "executing" PROVE workers'[w].seen.status = "RUNNING"
      <3>1. CASE Claim(w)
        BY <3>1, <1>0 DEF Claim, AdvanceWith
      <3>2. CASE Redeliver(w)
        <4>1. workers'[w].pc = workers[w].pc /\ workers'[w].seen = workers[w].seen
          BY <3>2, <1>0 DEF Redeliver, WorkerState
        <4> QED BY <4>1, <2>2 DEF ExecutorsSawRunning
      <3>3. CASE \/ \E r \in Runs : Receive(w, r)
                 \/ Skip(w)
                 \/ \E result \in {"PASS", "THRESHOLDS", "EXECUTION"} : Complete(w, result)
                 \/ ReadForFailure(w) \/ RecordFailure(w) \/ Acknowledge(w)
                 \/ TaskRaises(w) \/ LoseFailure(w) \/ CrashWorker(w)
        <4>1. workers'[w].pc # "executing"
          BY <1>0, <3>3
          DEF Receive, Skip, Complete, ReadForFailure, RecordFailure, Acknowledge,
              TaskRaises, LoseFailure, CrashWorker, Advance, AdvanceWith, IdleWorker,
              WorkerState
        <4> QED BY <4>1, <2>2
      <3> QED BY <1>1, <3>1, <3>2, <3>3 DEF WorkerStep, WorkerFault
    <2> QED BY <2>1, <2>2 DEF ExecutorsSawRunning
  <1>2. ASSUME NEW h \in Handlers, Request(h) \/ HandlerStep(h) \/ HandlerFault(h)
        PROVE  ExecutorsSawRunning'
    BY <1>2, HandlerLeavesOthers DEF ExecutorsSawRunning
  <1>3. CASE Tick
    <2> SUFFICES ASSUME NEW w \in Workers, workers'[w].pc = "executing"
                 PROVE  workers'[w].seen.status = "RUNNING"
      BY DEF ExecutorsSawRunning
    <2>1. workers[w] \in WorkerState
      BY <1>0
    <2>2. workers'[w].pc = workers[w].pc /\ workers'[w].seen = workers[w].seen
      BY <2>1, <1>3 DEF Tick, WorkerState
    <2> QED BY <2>2 DEF ExecutorsSawRunning
  <1> QED BY <1>1, <1>2, <1>3 DEF Next

\* What a request has seen of the run it goes on with.
LEMMA RequestSees ==
    ASSUME RunsInv, FailuresAreNotPending, NEW h \in Handlers,
           Request(h) \/ HandlerStep(h) \/ HandlerFault(h),
           handlers'[h].pc \in Holding, handlers'[h].seen.status = "FAILED"
    PROVE  runs'[handlers'[h].run].status # "PENDING"
  <1> DEFINE Goal == runs'[handlers'[h].run].status # "PENDING"
  <1> USE DEF RunsInv
  <1>0. handlers \in [Handlers -> HandlerState]
    BY DEF TypeOK
  <1>1. ASSUME NEW k, NEW r \in Runs, NEW seen, Found(h, k, r, seen),
               seen = Unseen \/ seen = Load(r), UNCHANGED runs
        PROVE  Goal
    <2>1. handlers'[h].run = r /\ handlers'[h].seen \in {seen, Unseen}
      BY <1>0, <1>1 DEF Found, Become
    <2> QED BY <2>1, <1>1 DEF Unseen, Load
  <1>2. ASSUME NEW k \in Keys, LookUp(h, k) PROVE Goal
    <2>1. CASE \E r \in Runs : Named(k, r) /\ Found(h, k, r, Load(r))
      BY <2>1, <1>1, <1>2 DEF LookUp
    <2>2. CASE Become(h, "inserting", k, NoRun, Unseen)
      BY <2>2, <1>0 DEF Become, Holding
    <2> QED BY <2>1, <2>2, <1>2 DEF LookUp
  <1>3. ASSUME NEW r \in Runs, Insert(h, r) PROVE Goal
    <2>1. handlers'[h].seen = NewlySeen
      BY <1>0, <1>3 DEF Insert, Become
    <2> QED BY <2>1 DEF NewlySeen
  <1>4. CASE FindWinner(h)
    BY <1>1, <1>4 DEF FindWinner
  <1>5. CASE FailPublish(h)
    <2>1. /\ handlers'[h].run = handlers[h].run
          /\ handlers'[h].seen = handlers[h].seen
          /\ handlers[h].pc \in Holding
          /\ UNCHANGED runs
      BY <1>0, <1>5 DEF FailPublish, GoTo, HandlerState, Holding
    <2> QED BY <2>1 DEF FailuresAreNotPending
  <1>6. CASE ReadUnpublished(h)
    <2>1. /\ handlers'[h].run = handlers[h].run
          /\ handlers'[h].seen \in {handlers[h].seen, Load(handlers[h].run)}
          /\ handlers[h].pc \in Holding
          /\ UNCHANGED runs
      BY <1>0, <1>6 DEF ReadUnpublished, Become, Holding
    <2> QED BY <2>1 DEF FailuresAreNotPending, Load
  <1>7. CASE InsertConflicts(h) \/ Publish(h) \/ RecordUnpublished(h) \/ AbandonRequest(h)
    <2>1. handlers'[h].pc \in {"idle", "conflict"}
      BY <1>0, <1>7
      DEF InsertConflicts, Publish, RecordUnpublished, AbandonRequest, GoTo,
          Become, IdleHandler, HandlerState
    <2> QED BY <2>1 DEF Holding
  <1> QED
    BY <1>2, <1>3, <1>4, <1>5, <1>6, <1>7 DEF Request, HandlerStep, HandlerFault

\* A run seen FAILED never becomes PENDING again.
LEMMA FailuresStep ==
    ASSUME RunsInv, FailuresAreNotPending, Next
    PROVE  FailuresAreNotPending'
  <1> USE DEF RunsInv
  <1>0. \A r \in Runs : RowKept(r)
    BY RowsKept
  <1>1. ASSUME NEW g \in Handlers, handlers'[g] = handlers[g],
               handlers'[g].pc \in Holding, handlers'[g].seen.status = "FAILED"
        PROVE  runs'[handlers'[g].run].status # "PENDING"
    BY <1>0, <1>1 DEF FailuresAreNotPending, HandlersHoldRuns, RowKept
  <1>2. ASSUME NEW h \in Handlers, Request(h) \/ HandlerStep(h) \/ HandlerFault(h)
        PROVE  FailuresAreNotPending'
    <2>1. \A g \in Handlers \ {h} : handlers'[g] = handlers[g]
      BY <1>2, HandlerLeavesOthers
    <2> QED BY <2>1, <1>1, <1>2, RequestSees DEF FailuresAreNotPending
  <1>3. ASSUME handlers' = handlers PROVE FailuresAreNotPending'
    BY <1>1, <1>3 DEF FailuresAreNotPending
  <1> QED BY <1>2, <1>3, WorkerHoldsRun DEF Next, Tick

\* An outcome that the session did not see is written.
LEMMA SaveSettles ==
    ASSUME TypeOK, NEW r \in Runs, NEW seen, NEW status, NEW result,
           Save(r, seen, status, result), status # seen.status
    PROVE  runs'[r].status = status
  BY DEF Save, TypeOK

\* A handler makes no run RUNNING, and only a new one PENDING.
LEMMA HandlerWrites ==
    ASSUME RunsInv, NEW h \in Handlers,
           Request(h) \/ HandlerStep(h) \/ HandlerFault(h), NEW r \in Runs
    PROVE  /\ runs'[r].status = "RUNNING" => runs[r].status = "RUNNING"
           /\ runs'[r].status = "PENDING" => runs[r].status = "PENDING" \/ Insert(h, r)
  <1> USE DEF RunsInv
  <1>0. runs \in [Runs -> RunRow]
    BY DEF TypeOK
  <1>1. ASSUME NEW q \in Runs, Insert(h, q)
        PROVE  /\ runs'[r].status = "RUNNING" => runs[r].status = "RUNNING"
               /\ runs'[r].status = "PENDING" => runs[r].status = "PENDING" \/ Insert(h, r)
    <2>1. CASE q = r
      BY <2>1, <1>0, <1>1 DEF Insert, NewRow
    <2>2. CASE q # r
      BY <2>2, <1>0, <1>1 DEF Insert
    <2> QED BY <2>1, <2>2
  <1>2. CASE RecordUnpublished(h)
    <2>1. handlers[h].run \in Runs /\ handlers[h].seen \in Seen
      BY <1>2 DEF RecordUnpublished, HandlersHoldRuns, Holding, TypeOK, HandlerState
    <2>2. Save(handlers[h].run, handlers[h].seen, "FAILED", "QUEUE")
      BY <1>2 DEF RecordUnpublished
    <2>3. "QUEUE" \in RunResult
      BY DEF RunResult, Failures
    <2> QED BY <2>1, <2>2, <2>3, SaveRow
  <1>3. CASE runs' = runs
    BY <1>3
  <1> QED
    BY <1>1, <1>2, <1>3
    DEF Request, LookUp, HandlerStep, InsertConflicts, FindWinner, Publish,
        ReadUnpublished, HandlerFault, FailPublish, AbandonRequest

\* A request that is not abandoned carries its PENDING run on: to another of
\* its steps, or into the queue.
LEMMA HandlerCarries ==
    ASSUME RunsInv, FailuresAreNotPending, NEW h \in Handlers,
           Request(h) \/ HandlerStep(h) \/ HandlerFault(h), ~AbandonRequest(h),
           NEW r \in Runs, HasCarrier(r)
    PROVE  HasCarrier(r)'
  <1> USE DEF RunsInv
  <1>0. /\ handlers \in [Handlers -> HandlerState]
        /\ queue \in [Runs -> Nat]
        /\ workers' = workers
        /\ \A g \in Handlers \ {h} : handlers'[g] = handlers[g]
    BY HandlerLeavesOthers DEF TypeOK
  <1>1. ASSUME runs'[r].status = "RUNNING" PROVE RunningCarried(r)'
    <2>1. RunningCarried(r)
      BY <1>1, HandlerWrites, CarriersOf
    <2> QED BY <2>1, <1>0 DEF RunningCarried, Executing
  <1>2. ASSUME Insert(h, r) PROVE PendingCarried(r)'
    <2>1. handlers'[h].run = r /\ handlers'[h].pc = "publishing"
      BY <1>0, <1>2 DEF Insert, Become
    <2> QED BY <2>1 DEF PendingCarried, HeldByRequest, Holding
  <1>3. ASSUME runs[r].status = "PENDING", runs'[r].status = "PENDING"
        PROVE  PendingCarried(r)'
    <2>1. CASE \E g \in Handlers \ {h} : handlers[g].run = r /\ handlers[g].pc \in Holding
      BY <2>1, <1>0 DEF PendingCarried, HeldByRequest
    <2>2. CASE queue[r] > 0
      <3>1. queue'[r] >= queue[r]
        <4>1. CASE Publish(h) \/ FailPublish(h)
          <5>1. handlers[h].run \in Runs
            BY <4>1 DEF Publish, FailPublish, HandlersHoldRuns, Holding
          <5> QED BY <5>1, <4>1, <1>0 DEF Publish, FailPublish
        <4>2. CASE queue' = queue
          BY <4>2, <1>0
        <4> QED
          BY <4>1, <4>2
          DEF Request, LookUp, HandlerStep, Insert, InsertConflicts, FindWinner,
              ReadUnpublished, RecordUnpublished, HandlerFault, AbandonRequest
      <3>2. queue[r] \in Nat
        BY <1>0
      <3>3. queue'[r] > 0
        <4>1. queue'[r] \in Nat
          BY HandlerTyped DEF TypeOK
        <4> QED BY <3>1, <3>2, <4>1, <2>2
      <3> QED BY <3>3 DEF PendingCarried
    <2>3. CASE HeldByReceiver(r)
      BY <2>3, <1>0 DEF PendingCarried, HeldByReceiver
    <2>4. CASE handlers[h].run = r /\ handlers[h].pc \in Holding
      <3>1. CASE Publish(h)
        <4>1. queue'[r] = queue[r] + 1 /\ queue[r] \in Nat
          BY <3>1, <2>4, <1>0 DEF Publish
        <4>2. queue'[r] > 0
          BY <4>1
        <4> QED BY <4>2 DEF PendingCarried
      <3>2. CASE FailPublish(h) \/ ReadUnpublished(h)
        <4>1. handlers'[h].run = r /\ handlers'[h].pc \in Holding
          BY <3>2, <2>4, <1>0
          DEF FailPublish, ReadUnpublished, GoTo, Become, HandlerState, Holding
        <4> QED BY <4>1 DEF PendingCarried, HeldByRequest
      <3>3. CASE RecordUnpublished(h)
        <4>1. /\ Save(r, handlers[h].seen, "FAILED", "QUEUE")
              /\ handlers[h].seen.status # "FAILED"
          BY <3>3, <2>4, <1>3 DEF RecordUnpublished, FailuresAreNotPending
        <4>2. runs'[r].status = "FAILED"
          BY <4>1, SaveSettles
        <4> QED BY <4>2, <1>3
      <3> QED
        BY <3>1, <3>2, <3>3, <2>4
        DEF Request, LookUp, HandlerStep, Insert, InsertConflicts, FindWinner,
            HandlerFault, Holding
    <2>5. PendingCarried(r)
      BY <1>3, CarriersOf
    <2> QED BY <2>1, <2>2, <2>3, <2>4, <2>5 DEF PendingCarried, HeldByRequest
  <1> QED BY <1>1, <1>2, <1>3, HandlerWrites, NextCarriersOf

\* A worker makes a run RUNNING by claiming it only, and none PENDING.
LEMMA WorkerWrites ==
    ASSUME RunsInv, NEW w \in Workers,
           (\E q \in Runs : Receive(w, q)) \/ WorkerStep(w) \/ WorkerFault(w),
           NEW r \in Runs
    PROVE  /\ runs'[r].status = "RUNNING" =>
                 runs[r].status = "RUNNING" \/ (Claim(w) /\ workers[w].run = r)
           /\ runs'[r].status = "PENDING" => runs[r].status = "PENDING"
  <1> DEFINE Goal == /\ runs'[r].status = "RUNNING" =>
                           runs[r].status = "RUNNING" \/ (Claim(w) /\ workers[w].run = r)
                     /\ runs'[r].status = "PENDING" => runs[r].status = "PENDING"
  <1> USE DEF RunsInv
  <1>0. /\ runs \in [Runs -> RunRow]
        /\ workers[w].pc # "idle" => workers[w].run \in Runs /\ workers[w].seen \in Seen
    BY DEF TypeOK, WorkersHoldRuns, WorkerState
  <1>1. CASE Claim(w)
    <2>1. /\ workers[w].run \in Runs
          /\ runs' = [runs EXCEPT ![workers[w].run] = ClaimedRow(runs[workers[w].run])]
      BY <1>0, <1>1 DEF Claim
    <2>2. CASE workers[w].run = r
      BY <2>1, <2>2, <1>0, <1>1 DEF ClaimedRow
    <2>3. CASE workers[w].run # r
      BY <2>1, <2>3, <1>0
    <2> QED BY <2>2, <2>3
  <1>2. ASSUME NEW q \in Runs, NEW seen \in Seen, NEW status \in {"SUCCEEDED", "FAILED"},
               NEW result \in RunResult, Save(q, seen, status, result)
        PROVE  Goal
    BY <1>2, SaveRow
  <1>3. {"PASS", "THRESHOLDS", "EXECUTION"} \subseteq RunResult
    BY DEF RunResult, Failures
  <1>4. ASSUME NEW result \in {"PASS", "THRESHOLDS", "EXECUTION"}, Complete(w, result)
        PROVE  Goal
    <2>1. /\ workers[w].pc # "idle"
          /\ \E status \in {"SUCCEEDED", "FAILED"} :
                Save(workers[w].run, workers[w].seen, status, result)
      BY <1>4 DEF Complete
    <2> QED BY <2>1, <1>0, <1>2, <1>3
  <1>5. CASE RecordFailure(w)
    <2>1. /\ workers[w].pc # "idle"
          /\ Save(workers[w].run, workers[w].seen, "FAILED", "EXECUTION")
      BY <1>5 DEF RecordFailure
    <2> QED BY <2>1, <1>0, <1>2, <1>3
  <1>6. CASE runs' = runs
    BY <1>6
  <1> QED
    BY <1>1, <1>4, <1>5, <1>6
    DEF Receive, WorkerStep, Skip, ReadForFailure, Acknowledge, WorkerFault,
        TaskRaises, LoseFailure, CrashWorker, Redeliver

\* A worker that neither dies nor meets an error carries its run on, from the
\* message to the claim and from the claim to an outcome.
LEMMA WorkerCarries ==
    ASSUME RunsInv, ExecutorsSawRunning, NEW w \in Workers,
           (\E q \in Runs : Receive(w, q)) \/ WorkerStep(w) \/ WorkerFault(w),
           ~TaskRaises(w), ~LoseFailure(w), ~CrashWorker(w),
           NEW r \in Runs, HasCarrier(r)
    PROVE  HasCarrier(r)'
  <1> USE DEF RunsInv
  <1>0. /\ workers \in [Workers -> WorkerState]
        /\ queue \in [Runs -> Nat]
        /\ handlers' = handlers
        /\ \A v \in Workers \ {w} : workers'[v] = workers[v]
    BY WorkerHoldsRun DEF TypeOK
  <1>1. ASSUME Claim(w), workers[w].run = r PROVE RunningCarried(r)'
    <2>1. Executing(w, r)'
      BY <1>0, <1>1 DEF Claim, AdvanceWith, Executing
    <2> QED BY <2>1 DEF RunningCarried
  <1>2. ASSUME runs[r].status = "RUNNING", runs'[r].status = "RUNNING",
               ~(Claim(w) /\ workers[w].run = r)
        PROVE  RunningCarried(r)'
    <2>1. PICK v \in Workers : Executing(v, r)
      BY <1>2, CarriersOf DEF RunningCarried
    <2>2. CASE v # w
      BY <2>1, <2>2, <1>0 DEF RunningCarried, Executing
    <2>3. CASE v = w
      <3>1. ASSUME NEW result \in {"PASS", "THRESHOLDS", "EXECUTION"}, Complete(w, result)
            PROVE  FALSE
        <4>1. /\ workers[w].seen.status = "RUNNING"
              /\ \E status \in {"SUCCEEDED", "FAILED"} :
                    Save(r, workers[w].seen, status, result)
          BY <3>1, <2>1, <2>3 DEF Complete, Executing, ExecutorsSawRunning
        <4>2. runs'[r].status \in {"SUCCEEDED", "FAILED"}
          BY <4>1, SaveSettles
        <4> QED BY <4>2, <1>2
      <3>2. CASE Redeliver(w)
        <4>1. Executing(w, r)'
          BY <3>2, <2>1, <2>3, <1>0 DEF Redeliver, WorkerState, Executing
        <4> QED BY <4>1 DEF RunningCarried
      <3>3. workers[w].pc = "executing"
        BY <2>1, <2>3 DEF Executing
      <3> QED
        BY <3>1, <3>2, <3>3
        DEF Receive, WorkerStep, Claim, Skip, ReadForFailure, RecordFailure,
            Acknowledge, WorkerFault
    <2> QED BY <2>2, <2>3
  <1>3. ASSUME runs'[r].status = "PENDING", runs[r].status = "PENDING"
        PROVE  PendingCarried(r)'
    <2>1. PendingCarried(r)
      BY <1>3, CarriersOf
    <2>2. CASE HeldByRequest(r)
      BY <2>2, <1>0 DEF PendingCarried, HeldByRequest
    <2>3. CASE queue[r] > 0
      <3>1. ASSUME NEW q \in Runs, Receive(w, q) PROVE PendingCarried(r)'
        <4>1. CASE q = r
          <5>1. workers'[w].run = r /\ workers'[w].pc = "received"
            BY <3>1, <4>1, <1>0 DEF Receive
          <5> QED BY <5>1 DEF PendingCarried, HeldByReceiver
        <4>2. CASE q # r
          <5>1. queue'[r] = queue[r]
            BY <3>1, <4>2, <1>0 DEF Receive
          <5> QED BY <5>1, <2>3 DEF PendingCarried
        <4> QED BY <4>1, <4>2
      <3>2. CASE Redeliver(w)
        <4>1. workers[w].run \in Runs
          BY <3>2 DEF Redeliver, WorkersHoldRuns
        <4>2. queue'[r] >= queue[r] /\ queue'[r] \in Nat
          BY <3>2, <4>1, <1>0 DEF Redeliver, Redelivered
        <4>3. queue'[r] > 0
          BY <4>2, <2>3, <1>0
        <4> QED BY <4>3 DEF PendingCarried
      <3>3. CASE queue' = queue
        BY <3>3, <2>3 DEF PendingCarried
      <3> QED
        BY <3>1, <3>2, <3>3
        DEF WorkerStep, Claim, Skip, Complete, ReadForFailure, RecordFailure,
            Acknowledge, WorkerFault
    <2>4. CASE HeldByReceiver(r)
      <3>1. PICK v \in Workers : workers[v].run = r /\ workers[v].pc = "received"
        BY <2>4 DEF HeldByReceiver
      <3>2. CASE v # w
        BY <3>1, <3>2, <1>0 DEF PendingCarried, HeldByReceiver
      <3>3. CASE v = w
        <4>1. CASE Redeliver(w)
          <5>1. workers'[w].run = r /\ workers'[w].pc = "received"
            BY <4>1, <3>1, <3>3, <1>0 DEF Redeliver, WorkerState
          <5> QED BY <5>1 DEF PendingCarried, HeldByReceiver
        <4>2. ~Skip(w)
          BY <3>1, <3>3, <1>3 DEF Skip, Claimable
        <4>3. ~Claim(w)
          <5>1. ASSUME Claim(w) PROVE FALSE
            <6>1. runs'[r].status = "RUNNING"
              BY <5>1, <3>1, <3>3, ClaimRow
            <6> QED BY <6>1, <1>3
          <5> QED BY <5>1
        <4> QED
          BY <4>1, <4>2, <4>3, <3>1, <3>3
          DEF Receive, WorkerStep, Complete, ReadForFailure, RecordFailure,
              Acknowledge, WorkerFault
      <3> QED BY <3>2, <3>3
    <2> QED BY <2>1, <2>2, <2>3, <2>4 DEF PendingCarried
  <1> QED BY <1>1, <1>2, <1>3, WorkerWrites, NextCarriersOf

\* Time takes no run from its carrier.
LEMMA TickCarries ==
    ASSUME RunsInv, Tick, NEW r \in Runs, HasCarrier(r)
    PROVE  HasCarrier(r)'
  <1>1. /\ runs'[r].status = runs[r].status
        /\ \A w \in Workers : /\ workers'[w].pc = workers[w].pc
                              /\ workers'[w].run = workers[w].run
        /\ handlers' = handlers /\ queue' = queue
    BY TickRows, TickWorkers DEF RunsInv, Tick
  <1>2. (PendingCarried(r) => PendingCarried(r)') /\ (RunningCarried(r) => RunningCarried(r)')
    BY <1>1
    DEF PendingCarried, HeldByRequest, HeldByReceiver, RunningCarried, Executing
  <1> QED BY <1>1, <1>2, CarriersOf, NextCarriersOf

\* A run is forgotten only after a crash or an error of a transaction: failed
\* and ambiguous publications, redeliveries, repeated requests and lost races
\* for a key always leave somebody to go on with it, for any number of runs,
\* handlers, workers and faults.
THEOREM RunsAreRemembered == Spec => []OnlyCrashesForget
  <1>1. OnlyCrashesForget <=> (Calm => \A r \in Runs : HasCarrier(r))
    BY DEF OnlyCrashesForget, Calm, Forgetful
  <1>2. OnlyCrashesForget' <=> (Calm' => \A r \in Runs : HasCarrier(r)')
    BY DEF OnlyCrashesForget, Calm, Forgetful
  <1>3. Init => MemoryInv
    <2> SUFFICES ASSUME Init PROVE MemoryInv
      OBVIOUS
    <2>1. \A r \in Runs : HasCarrier(r)
      BY DEF Init, NoRow, HasCarrier
    <2>2. ExecutorsSawRunning /\ FailuresAreNotPending
      BY DEF Init, ExecutorsSawRunning, IdleWorker, FailuresAreNotPending,
             IdleHandler, Holding
    <2> QED BY <2>1, <2>2, <1>1, InitRuns DEF MemoryInv
  <1>4. ASSUME MemoryInv, Next PROVE MemoryInv'
    <2>1. RunsInv' /\ ExecutorsSawRunning' /\ FailuresAreNotPending'
      BY <1>4, RunsInvStep, ExecutorsSaw, FailuresStep DEF MemoryInv
    <2>2. ASSUME Calm', NEW r \in Runs PROVE HasCarrier(r)'
      <3>1. /\ Calm
            /\ \A h \in Handlers : ~AbandonRequest(h)
            /\ \A w \in Workers : ~TaskRaises(w) /\ ~LoseFailure(w) /\ ~CrashWorker(w)
        BY <1>4, <2>2, CalmStep DEF MemoryInv, RunsInv
      <3>2. HasCarrier(r)
        BY <3>1, <1>1, <1>4 DEF MemoryInv
      <3>3. RunsInv /\ ExecutorsSawRunning /\ FailuresAreNotPending
        BY <1>4 DEF MemoryInv
      <3> QED
        BY <1>4, <3>1, <3>2, <3>3, HandlerCarries, WorkerCarries, TickCarries DEF Next
    <2> QED BY <2>1, <2>2, <1>2 DEF MemoryInv
  <1>5. ASSUME MemoryInv, UNCHANGED vars PROVE MemoryInv'
    <2>1. RunsInv'
      BY <1>5, RunsInvStep DEF MemoryInv
    <2> QED
      BY <2>1, <1>5
      DEF vars, MemoryInv, ExecutorsSawRunning, FailuresAreNotPending,
          OnlyCrashesForget, HasCarrier
  <1>6. MemoryInv => OnlyCrashesForget
    BY DEF MemoryInv
  <1> QED BY <1>3, <1>4, <1>5, <1>6, PTL DEF Spec

-----------------------------------------------------------------------------
(* Idempotent creation: the refinement of IdempotentCreate *)

\* The abstract state of Keyed.
NamedPairs ==
    {<<runs[r].key, r>> : r \in {q \in Runs : Created(q) /\ runs[q].key # NoKey}}

AnswerOf(h) ==
    IF Answered(h) THEN <<handlers[h].key, handlers[h].run>> ELSE <<>>

Answers == [h \in Handlers |-> AnswerOf(h)]

\* Only Insert creates a row.
LEMMA OnlyInsertCreates ==
    ASSUME RunsInv, Next, NEW r \in Runs, ~Created(r), Created(r)'
    PROVE  \E h \in Handlers : Insert(h, r)
  <1> USE DEF RunsInv, Created
  <1>1. runs'[r] # runs[r]
    OBVIOUS
  <1>2. ASSUME NEW q \in Runs, Created(q), NEW seen \in Seen,
               NEW status \in {"SUCCEEDED", "FAILED"}, NEW result \in RunResult,
               Save(q, seen, status, result)
        PROVE  FALSE
    BY <1>1, <1>2, SaveRow
  <1>3. {"PASS", "THRESHOLDS", "EXECUTION", "QUEUE"} \subseteq RunResult
    BY DEF RunResult, Failures
  <1>4. ASSUME NEW h \in Handlers, Request(h) \/ HandlerStep(h) \/ HandlerFault(h)
        PROVE  Insert(h, r)
    <2>1. CASE RecordUnpublished(h)
      <3>1. /\ handlers[h].run \in Runs
            /\ Created(handlers[h].run)
            /\ handlers[h].seen \in Seen
        BY <2>1 DEF RecordUnpublished, HandlersHoldRuns, Holding, TypeOK, HandlerState
      <3>2. Save(handlers[h].run, handlers[h].seen, "FAILED", "QUEUE")
        BY <2>1 DEF RecordUnpublished
      <3> QED BY <3>1, <3>2, <1>2, <1>3
    <2>2. ASSUME NEW q \in Runs, Insert(h, q) PROVE Insert(h, r)
      BY <1>1, <2>2 DEF Insert, TypeOK
    <2> QED
      BY <2>1, <2>2, <1>1, <1>4
      DEF Request, LookUp, HandlerStep, InsertConflicts, FindWinner, Publish,
          ReadUnpublished, HandlerFault, FailPublish, AbandonRequest
  <1>5. ASSUME NEW w \in Workers,
               (\E q \in Runs : Receive(w, q)) \/ WorkerStep(w) \/ WorkerFault(w)
        PROVE  FALSE
    <2>0. workers[w].pc # "idle" =>
             /\ workers[w].run \in Runs
             /\ Created(workers[w].run)
             /\ workers[w].seen \in Seen
      BY DEF WorkersHoldRuns, TypeOK, WorkerState
    <2>1. CASE Claim(w)
      BY <1>1, <2>0, <2>1 DEF Claim, TypeOK
    <2>2. ASSUME NEW result \in {"PASS", "THRESHOLDS", "EXECUTION"},
                 Complete(w, result)
          PROVE  FALSE
      <3>1. /\ workers[w].pc # "idle"
            /\ \E status \in {"SUCCEEDED", "FAILED"} :
                  Save(workers[w].run, workers[w].seen, status, result)
        BY <2>2 DEF Complete
      <3> QED BY <3>1, <2>0, <1>2, <1>3
    <2>3. CASE RecordFailure(w)
      <3>1. /\ workers[w].pc # "idle"
            /\ Save(workers[w].run, workers[w].seen, "FAILED", "EXECUTION")
        BY <2>3 DEF RecordFailure
      <3> QED BY <3>1, <2>0, <1>2, <1>3
    <2> QED
      BY <2>1, <2>2, <2>3, <1>1, <1>5
      DEF Receive, WorkerStep, Skip, ReadForFailure, Acknowledge, WorkerFault,
          TaskRaises, LoseFailure, CrashWorker, Redeliver
  <1>6. CASE Tick
    BY <1>6, TickRows
  <1> QED BY <1>4, <1>5, <1>6 DEF Next

\* A step that creates no row leaves the pairs of keys and runs as they are.
LEMMA PairsKept ==
    ASSUME RunsInv, Next, \A h \in Handlers, r \in Runs : ~Insert(h, r)
    PROVE  NamedPairs' = NamedPairs
  <1>1. \A r \in Runs : /\ Created(r)' <=> Created(r)
                        /\ Created(r) => runs'[r].key = runs[r].key
    BY OnlyInsertCreates, RowsKept DEF RowKept
  <1> QED BY <1>1 DEF NamedPairs

\* An insert creates the pair of its key and its run, under a new key, or a
\* run without a key; it answers nobody yet.
LEMMA InsertRefines ==
    ASSUME RunsInv, NEW h \in Handlers, NEW r \in Runs, Insert(h, r)
    PROVE  /\ UNCHANGED Answers
           /\ \/ UNCHANGED NamedPairs
              \/ \E k \in Keys \ {NoKey} :
                    /\ \A p \in NamedPairs : p[1] # k /\ p[2] # r
                    /\ NamedPairs' = NamedPairs \union {<<k, r>>}
  <1> USE DEF RunsInv
  <1> DEFINE k == handlers[h].key
  <1>0. handlers \in [Handlers -> HandlerState] /\ k \in Keys \union {NoKey}
    BY DEF TypeOK, HandlerState
  <1>1. UNCHANGED Answers
    <2>1. \A g \in Handlers \ {h} : handlers'[g] = handlers[g]
      BY <1>0 DEF Insert, Become
    <2>2. handlers[h].pc = "inserting" /\ handlers'[h].pc = "publishing"
      BY <1>0 DEF Insert, Become
    <2> QED BY <2>1, <2>2 DEF Answers, AnswerOf, Answered
  <1>2. /\ \A q \in Runs \ {r} : runs'[q] = runs[q]
        /\ runs'[r].key = k
        /\ runs'[r].status = "PENDING"
        /\ ~Created(r)
    BY DEF Insert, NewRow, TypeOK
  <1>3. CASE k = NoKey
    BY <1>1, <1>2, <1>3 DEF NamedPairs, Created
  <1>4. CASE k # NoKey
    <2>1. \A p \in NamedPairs : p[1] # k /\ p[2] # r
      BY <1>2, <1>4 DEF NamedPairs, Insert, Named
    <2>2. NamedPairs' = NamedPairs \union {<<k, r>>}
      BY <1>2, <1>4 DEF NamedPairs, Created
    <2> QED BY <1>0, <1>1, <1>4, <2>1, <2>2
  <1> QED BY <1>3, <1>4

\* Every other step of a request answers it with a pair that exists, or with
\* nothing.
LEMMA HandlerRefines ==
    ASSUME RunsInv, NEW h \in Handlers,
           Request(h) \/ HandlerStep(h) \/ HandlerFault(h),
           \A r \in Runs : ~Insert(h, r)
    PROVE  \E p \in NamedPairs \union {<<>>} : Answers' = [Answers EXCEPT ![h] = p]
  <1> USE DEF RunsInv
  <1>0. handlers \in [Handlers -> HandlerState]
    BY DEF TypeOK
  <1> SUFFICES AnswerOf(h)' \in NamedPairs \union {<<>>}
    <2>1. \A g \in Handlers \ {h} : AnswerOf(g)' = AnswerOf(g)
      BY HandlerLeavesOthers DEF AnswerOf, Answered
    <2>2. Answers' = [Answers EXCEPT ![h] = AnswerOf(h)']
      BY <2>1 DEF Answers
    <2> QED BY <2>2
  <1>1. ASSUME NEW k \in Keys \union {NoKey}, NEW r \in Runs, Named(k, r),
               NEW seen, Found(h, k, r, seen)
        PROVE  AnswerOf(h)' \in NamedPairs \union {<<>>}
    <2>1. handlers'[h].key = k /\ handlers'[h].run = r
      BY <1>0, <1>1 DEF Found, Become
    <2>2. <<k, r>> \in NamedPairs
      BY <1>1 DEF NamedPairs, Named
    <2> QED BY <2>1, <2>2 DEF AnswerOf, Answered
  <1>2. ASSUME handlers'[h].pc # "idle" \/ handlers'[h].run = NoRun
        PROVE  AnswerOf(h)' \in NamedPairs \union {<<>>}
    BY <1>2 DEF AnswerOf, Answered
  <1>3. ASSUME NEW k \in Keys, LookUp(h, k)
        PROVE  AnswerOf(h)' \in NamedPairs \union {<<>>}
    <2>1. CASE Become(h, "inserting", k, NoRun, Unseen)
      BY <2>1, <1>0, <1>2 DEF Become
    <2> QED BY <2>1, <1>1, <1>3 DEF LookUp
  <1>4. CASE FindWinner(h)
    <2>1. handlers[h].key \in Keys \union {NoKey}
      BY <1>0 DEF HandlerState
    <2> QED BY <2>1, <1>1, <1>4 DEF FindWinner
  <1>5. CASE Publish(h)
    <2>1. /\ handlers'[h].key = handlers[h].key
          /\ handlers'[h].run = handlers[h].run
      BY <1>0, <1>5 DEF Publish, Become
    <2>2. /\ handlers[h].run \in Runs
          /\ Created(handlers[h].run)
          /\ runs[handlers[h].run].key = handlers[h].key
      BY <1>5 DEF Publish, HandlersHoldRuns, Holding
    <2> QED BY <2>1, <2>2 DEF AnswerOf, Answered, NamedPairs
  <1>6. CASE \/ InsertConflicts(h) \/ ReadUnpublished(h) \/ RecordUnpublished(h)
             \/ HandlerFault(h)
    <2>1. handlers'[h].pc # "idle" \/ handlers'[h].run = NoRun
      BY <1>0, <1>6
      DEF InsertConflicts, ReadUnpublished, RecordUnpublished, HandlerFault,
          FailPublish, AbandonRequest, GoTo, Become, IdleHandler, HandlerState
    <2> QED BY <2>1, <1>2
  <1> QED BY <1>3, <1>4, <1>5, <1>6 DEF Request, HandlerStep

\* A step of the system is a step of IdempotentCreate, or none.
LEMMA StepRefines == RunsInv /\ [Next]_vars => [Keyed!Next]_(Keyed!vars)
  <1> SUFFICES ASSUME RunsInv, [Next]_vars PROVE [Keyed!Next]_(Keyed!vars)
    OBVIOUS
  <1>1. Keyed!vars = <<NamedPairs, Answers>>
    BY DEF Keyed!vars, NamedPairs, Answers, AnswerOf
  <1>2. Keyed!vars' = <<NamedPairs', Answers'>>
    BY DEF Keyed!vars, NamedPairs, Answers, AnswerOf
  <1>3. ASSUME NEW k \in Keys \ {NoKey}, NEW r \in Runs,
               \A p \in NamedPairs : p[1] # k /\ p[2] # r,
               NamedPairs' = NamedPairs \union {<<k, r>>}, UNCHANGED Answers
        PROVE  Keyed!Create(k, r)
    BY <1>3 DEF Keyed!Create, NamedPairs, Answers, AnswerOf
  <1>4. ASSUME NEW h \in Handlers, NEW p \in NamedPairs,
               Answers' = [Answers EXCEPT ![h] = p], UNCHANGED NamedPairs
        PROVE  Keyed!Answer(h)
    BY <1>4 DEF Keyed!Answer, NamedPairs, Answers, AnswerOf
  <1>5. ASSUME NEW h \in Handlers, Answers' = [Answers EXCEPT ![h] = <<>>],
               UNCHANGED NamedPairs
        PROVE  Keyed!Forget(h)
    BY <1>5 DEF Keyed!Forget, NamedPairs, Answers, AnswerOf
  <1>6. CASE \E h \in Handlers, r \in Runs : Insert(h, r)
    BY <1>1, <1>2, <1>3, <1>6, InsertRefines DEF Keyed!Next
  <1>7. ASSUME NEW h \in Handlers, Request(h) \/ HandlerStep(h) \/ HandlerFault(h),
               \A g \in Handlers, r \in Runs : ~Insert(g, r)
        PROVE  Keyed!Next
    <2>1. UNCHANGED NamedPairs
      BY <1>7, PairsKept DEF Next
    <2>2. \E p \in NamedPairs \union {<<>>} : Answers' = [Answers EXCEPT ![h] = p]
      BY <1>7, HandlerRefines
    <2> QED BY <2>1, <2>2, <1>4, <1>5 DEF Keyed!Next
  <1>8. ASSUME Next, UNCHANGED handlers,
               \A g \in Handlers, r \in Runs : ~Insert(g, r)
        PROVE  UNCHANGED Keyed!vars
    <2>1. UNCHANGED NamedPairs
      BY <1>8, PairsKept
    <2>2. UNCHANGED Answers
      BY <1>8 DEF Answers, AnswerOf, Answered
    <2> QED BY <2>1, <2>2, <1>1, <1>2
  <1>9. CASE UNCHANGED vars
    BY <1>9, <1>1, <1>2 DEF vars, NamedPairs, Created, Answers, AnswerOf, Answered
  <1>10. ASSUME NEW w \in Workers,
                (\E r \in Runs : Receive(w, r)) \/ WorkerStep(w) \/ WorkerFault(w)
         PROVE  UNCHANGED handlers
    BY <1>10, WorkerHoldsRun
  <1>11. Tick => UNCHANGED handlers
    BY DEF Tick
  <1> QED BY <1>6, <1>7, <1>8, <1>9, <1>10, <1>11 DEF Next

\* Requests with one idempotency key are all answered with one run, whatever
\* races, failed publications and crashes there are: EvaluationRuns implements
\* IdempotentCreate.
THEOREM KeysAreIdempotent == Spec => ImplementsIdempotentCreate
  <1>1. Init => Keyed!Init
    <2> SUFFICES ASSUME Init PROVE Keyed!Init
      OBVIOUS
    <2>1. \A r \in Runs : ~Created(r)
      BY DEF Init, Created, NoRow
    <2>2. \A h \in Handlers : ~Answered(h)
      BY DEF Init, Answered, IdleHandler
    <2> QED BY <2>1, <2>2 DEF Keyed!Init
  <1> QED
    BY <1>1, InitRuns, RunsInvStep, StepRefines, PTL
    DEF Spec, ImplementsIdempotentCreate, Keyed!Spec
=============================================================================
