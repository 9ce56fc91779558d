------------------------------ MODULE MCServices ------------------------------
(***************************************************************************)
(* The components that share no state with one another, in one instance:   *)
(* their sum.  A behaviour is a behaviour of one of them, chosen at the    *)
(* start, while the others stay as they are.                               *)
(***************************************************************************)
EXTENDS RateLimiter, KnowledgeBases, Migrations, Retrieval, Chunking, Singletons, Accounts,
    EvaluationGate

OneTokenEach == [p \in Passages |-> 1]

\* Like the defaults: every answer has to hit and to cite, the rest on average.
GateThresholds ==
    [m \in {"retrieval_hit_rate", "citation_correctness"} |-> Unit] @@
    [m \in {"recall_at_k", "mrr", "ndcg_at_k", "context_relevance", "answer_relevance",
            "citation_recall", "faithfulness"} |-> Unit \div 2]

\* In thousandths.
LogDiscount == <<1000, 631, 500, 431>>

VARIABLE part \* the component that runs

Parts == {"limiter", "bases", "migrations", "retrieval", "chunking", "singletons", "accounts",
          "gate"}

\* A component that does not run is in one of its initial states.
ServicesInit ==
    /\ part \in Parts
    /\ IF part = "chunking" THEN ChunkInit ELSE chunker = [document |-> << << >> >>,
          section |-> 0, stack |-> << >>, pieces |-> << >>, current |-> << >>, length |-> 0,
          pc |-> "section", chunks |-> << >>]
    /\ IF part = "gate" THEN GateInit ELSE gate = [file |-> << >>, k |-> 1, pc |-> "reading",
          read |-> 0, examples |-> << >>, status |-> "none", reports |-> {}, path |-> "none",
          outcome |-> "none"]
    /\ LimiterInit /\ (part # "limiter" => backend = "memory")
    /\ KbInit /\ (part # "bases" => \A b \in Bases : bases[b] = "NONE")
    /\ MigrationInit
    /\ RetrievalInit
    /\ SingletonsInit /\ (part # "singletons" => app.key = CHOOSE key \in ModelNames : TRUE)
    /\ AccountsInit /\ (part # "accounts" => users = << >>)

Unmoved(others) ==
    /\ "limiter" \in others => UNCHANGED limiterVars
    /\ "bases" \in others => UNCHANGED kbVars
    /\ "migrations" \in others => UNCHANGED migrationVars
    /\ "retrieval" \in others => UNCHANGED retrievalVars
    /\ "chunking" \in others => UNCHANGED chunkVars
    /\ "singletons" \in others => UNCHANGED singletonVars
    /\ "accounts" \in others => UNCHANGED accountVars
    /\ "gate" \in others => UNCHANGED gateVars

Runs(p) == part = p /\ UNCHANGED part /\ Unmoved(Parts \ {p})

ServicesNext ==
    \/ Runs("limiter") /\ LimiterNext
    \/ Runs("bases") /\ KbNext
    \/ Runs("migrations") /\ MigrationNext
    \/ Runs("retrieval") /\ RetrievalNext
    \/ Runs("chunking") /\ ChunkNext
    \/ Runs("singletons") /\ SingletonsNext
    \/ Runs("accounts") /\ AccountsNext
    \/ Runs("gate") /\ GateNext

ServicesVars == <<part, limiterVars, kbVars, migrationVars, retrievalVars, chunkVars,
                  singletonVars, accountVars, gateVars>>

ServicesSpec ==
    /\ ServicesInit
    /\ [][ServicesNext]_ServicesVars
    /\ part = "limiter" => LimiterFairness

\* Every component keeps its variables in their types.
ServicesTypeOK ==
    /\ part \in Parts
    /\ LimiterTypeOK
    /\ KbTypeOK
    /\ MigrationTypeOK
    /\ RetrievalTypeOK
    /\ ChunkTypeOK
    /\ SingletonsTypeOK
    /\ AccountsTypeOK
    /\ GateTypeOK
=============================================================================
