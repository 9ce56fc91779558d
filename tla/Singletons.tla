------------------------------ MODULE Singletons ------------------------------
(***************************************************************************)
(* The objects that a process shares among its requests: the model behind  *)
(* the embeddings or the reranker, loaded under a lock by the threads that *)
(* infer; the client of the language model, cached by lru_cache, which     *)
(* holds no lock while it builds; and the database engine, built on the    *)
(* event loop.  The application closes the client and the engine when it   *)
(* shuts down, and may be started again, with other settings.              *)
(***************************************************************************)
EXTENDS Naturals, Sequences, FiniteSets

CONSTANTS
    Threads,    \* each serves one request
    ModelNames, \* what EMBEDDING_MODEL may be
    MaxStarts   \* starts of the application

ASSUME SingletonsAssumption ==
    /\ "NONE" \notin ModelNames /\ "NONE" \notin Threads
    /\ MaxStarts \in Nat \ {0}

VARIABLES
    app,     \* where the application's lifespan is, its settings, its starts
    threads, \* what each thread needs, how far it is, and what it has got
    model,   \* the shared model's key and the holder of the lock
    loads,   \* the keys of the models loaded so far
    client,  \* the cached client, and how many there are
    engine,  \* the cached engine, and how many there are
    closed   \* the clients and engines that have been closed

singletonVars == <<app, threads, model, loads, client, engine, closed>>

ThreadPc == {"new", "loading", "building", "using", "over"}
Needs == {"model", "client", "engine"}
\* A model is named by its key, a client or an engine by its number; 0 is none.
MaxBuilt == Cardinality(Threads)
Cached == [object: 0..MaxBuilt, built: 0..MaxBuilt]
Idle == [need |-> "model", key |-> "NONE", pc |-> "over", got |-> 0, name |-> "NONE"]

SingletonsTypeOK ==
    /\ app \in [phase: {"up", "closing", "disposing", "down"}, key: ModelNames,
                starts: 0..MaxStarts]
    /\ threads \in [Threads -> [need: Needs, key: ModelNames \union {"NONE"}, pc: ThreadPc,
                                got: 0..MaxBuilt, name: ModelNames \union {"NONE"}]]
    /\ model \in [key: ModelNames \union {"NONE"}, lock: Threads \union {"NONE"}]
    /\ loads \in Seq(ModelNames)
    /\ client \in Cached /\ engine \in Cached
    /\ closed \subseteq {"client", "engine"} \X (1..MaxBuilt)

SingletonsInit ==
    /\ app \in [phase: {"up"}, key: ModelNames, starts: {1}]
    /\ threads = [t \in Threads |-> [Idle EXCEPT !.pc = "new"]]
    /\ model = [key |-> "NONE", lock |-> "NONE"]
    /\ loads = << >>
    /\ client = [object |-> 0, built |-> 0] /\ engine = client
    /\ closed = {}

Enter(t) == app.phase = "up" /\ threads[t].pc = "new"

\* Each of the three ends in the use of the object, and then the request is over.
Use(t, need, object) ==
    threads' = [threads EXCEPT ![t] =
        [need |-> need, key |-> app.key, pc |-> "using", got |-> object, name |-> "NONE"]]

LeaveThread(t) ==
    /\ threads[t].pc = "using"
    /\ threads' = [threads EXCEPT ![t].pc = "over"]
    /\ UNCHANGED <<app, model, loads, client, engine, closed>>
-----------------------------------------------------------------------------
(* BGEM3EmbeddingProvider and BGERerankerProvider: _get_or_load_model *)

\* Mutant of LockFree: no lock.
NoLock == TRUE
LockFree == model.lock = "NONE"

UseModel(t, name) ==
    threads' = [threads EXCEPT ![t] =
        [need |-> "model", key |-> app.key, pc |-> "using", got |-> 0, name |-> name]]

\* The provider's own name and device, against those of the shared model.
CachedModelServes == model.key = app.key

\* with self._lock: the shared model, or a load, which keeps the lock.
AcquireModel(t) ==
    /\ Enter(t) /\ LockFree
    /\ \/ CachedModelServes /\ UseModel(t, model.key) /\ UNCHANGED model
       \/ /\ ~CachedModelServes
          /\ model' = [model EXCEPT !.lock = t]
          /\ threads' = [threads EXCEPT ![t] =
                [Idle EXCEPT !.key = app.key, !.pc = "loading"]]
    /\ UNCHANGED <<app, loads, client, engine, closed>>

\* A library is installed: the new model replaces the shared one, of whatever key.
LoadModel(t) ==
    /\ threads[t].pc = "loading"
    /\ model' = [key |-> threads[t].key, lock |-> "NONE"]
    /\ loads' = Append(loads, threads[t].key)
    /\ UseModel(t, threads[t].key)
    /\ UNCHANGED <<app, client, engine, closed>>

\* No library is installed, or its loader fails: the next thread tries again.
LoadFails(t) ==
    /\ threads[t].pc = "loading"
    /\ model' = [model EXCEPT !.lock = "NONE"]
    /\ threads' = [threads EXCEPT ![t].pc = "over"]
    /\ UNCHANGED <<app, loads, client, engine, closed>>
-----------------------------------------------------------------------------
(* get_llm_provider and get_engine *)

\* A dependency that is no coroutine runs in a thread of its own.
LookUpClient(t) ==
    /\ Enter(t)
    /\ \/ client.object # 0 /\ Use(t, "client", client.object)
       \/ /\ client.object = 0
          /\ threads' = [threads EXCEPT ![t] =
                [Idle EXCEPT !.need = "client", !.key = app.key, !.pc = "building"]]
    /\ UNCHANGED <<app, model, loads, client, engine, closed>>

\* A client that another thread has cached meanwhile stays: this one is used once.
BuildClient(t) ==
    LET new == client.built + 1 IN
    /\ threads[t].pc = "building"
    /\ client' = [object |-> IF client.object = 0 THEN new ELSE client.object, built |-> new]
    /\ Use(t, "client", new)
    /\ UNCHANGED <<app, model, loads, engine, closed>>

\* On the event loop, without a pause between the check and the assignment.
GetEngine(t) ==
    LET new == engine.built + 1 IN
    /\ Enter(t)
    /\ \/ engine.object # 0 /\ Use(t, "engine", engine.object) /\ UNCHANGED engine
       \/ /\ engine.object = 0
          /\ engine' = [object |-> new, built |-> new]
          /\ Use(t, "engine", new)
    /\ UNCHANGED <<app, model, loads, client, closed>>
-----------------------------------------------------------------------------
(* lifespan *)

\* The server lets the requests in flight finish first.
BeginShutdown ==
    /\ app.phase = "up"
    /\ \A t \in Threads : threads[t].pc \in {"new", "over"}
    /\ app' = [app EXCEPT !.phase = "closing"]
    /\ UNCHANGED <<threads, model, loads, client, engine, closed>>

Cleared(c) == [c EXCEPT !.object = 0]

\* dispose_llm_provider: without a cached client there is nothing to close.
DisposeClient ==
    /\ app.phase = "closing"
    /\ closed' = closed \union ({"client"} \X ({client.object} \ {0}))
    /\ client' = Cleared(client)
    /\ app' = [app EXCEPT !.phase = "disposing"]
    /\ UNCHANGED <<threads, model, loads, engine>>

\* dispose_engine; no other singleton is reset, the model is kept.
DisposeEngine ==
    /\ app.phase = "disposing"
    /\ closed' = closed \union ({"engine"} \X ({engine.object} \ {0}))
    /\ engine' = Cleared(engine)
    /\ app' = [app EXCEPT !.phase = "down"]
    /\ UNCHANGED <<threads, model, loads, client>>

\* The same process serves again, as in the tests: get_settings reads anew.
Restart(key) ==
    /\ app.phase = "down" /\ app.starts < MaxStarts
    /\ app' = [phase |-> "up", key |-> key, starts |-> app.starts + 1]
    /\ UNCHANGED <<threads, model, loads, client, engine, closed>>

SingletonsNext ==
    \/ \E t \in Threads : AcquireModel(t)
    \/ \E t \in Threads : LoadModel(t)
    \/ \E t \in Threads : LoadFails(t)
    \/ \E t \in Threads : LookUpClient(t)
    \/ \E t \in Threads : BuildClient(t)
    \/ \E t \in Threads : GetEngine(t)
    \/ \E t \in Threads : LeaveThread(t)
    \/ BeginShutdown
    \/ DisposeClient
    \/ DisposeEngine
    \/ \E key \in ModelNames : Restart(key)

SingletonsSpec == SingletonsInit /\ [][SingletonsNext]_singletonVars
-----------------------------------------------------------------------------
\* The process-wide objects serve whoever asks: a request in flight never holds
\* a client or an engine that has been closed, nor a model of other settings
\* than those it asked with; a model that is still shared is not loaded again,
\* however many threads ask for it first (_get_or_load_model, dispose_engine).
SharedObjectsServe ==
    /\ \A t \in Threads : threads[t].pc = "using" =>
          /\ <<threads[t].need, threads[t].got>> \notin closed
          /\ (threads[t].need = "model") => threads[t].name = threads[t].key
    /\ \A i \in 1..(Len(loads) - 1) : loads[i] # loads[i + 1]
=============================================================================
