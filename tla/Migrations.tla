------------------------------ MODULE Migrations ------------------------------
(***************************************************************************)
(* The database schema as the chain of migrations builds it, against the   *)
(* schema that the ORM models expect.  A schema is a set of items: columns,*)
(* foreign keys, unique keys and indexes of tables, and the extension;     *)
(* types, defaults and nullability are left out.  A migration command runs *)
(* the scripts up or down to its target in one transaction.                *)
(***************************************************************************)
EXTENDS Integers, Sequences, SequencesExt

Column(t, c) == <<t, "column", c>>
ForeignKey(t, parent) == <<t, "references", parent>>
Unique(t, columns) == <<t, "unique", columns>>
Index(t, columns) == <<t, "index", columns>>
Extension == <<"vector", "extension">>

Table(t, columns, parents, keys) ==
    {Column(t, c) : c \in columns} \union {ForeignKey(t, p) : p \in parents}
    \union {Unique(t, k) : k \in keys}
Indexes(t, columnLists) == {Index(t, l) : l \in columnLists}

TableItems(s, t) == {i \in s : i[1] = t}
TableExists(s, t) == TableItems(s, t) # {}

\* Operations of alembic.op: what they make, and what they remove.
CreateTable(t, columns, parents, keys) ==
    [op |-> "create_table", table |-> t, items |-> Table(t, columns, parents, keys)]
CreateIndex(t, columns) == [op |-> "create_index", table |-> t, items |-> {Index(t, columns)}]
AddColumn(t, c) == [op |-> "add_column", table |-> t, items |-> {Column(t, c)}]
DropTable(t) == [op |-> "drop_table", table |-> t, items |-> {}]
DropIndex(t, columns) == [op |-> "drop_index", table |-> t, items |-> {Index(t, columns)}]
DropColumn(t, c) == [op |-> "drop_column", table |-> t, items |-> {Column(t, c)}]
\* Statements with IF NOT EXISTS and IF EXISTS.
Ensure(t, item) == [op |-> "ensure", table |-> t, items |-> {item}]
EnsureNot(t, item) == [op |-> "remove", table |-> t, items |-> {item}]

CreateIndexes(t, columnLists) ==
    [i \in DOMAIN columnLists |-> CreateIndex(t, columnLists[i])]
-----------------------------------------------------------------------------
(* The scripts: 0001 is empty *)

CreateKnowledgeBases ==
    <<CreateTable("knowledge_bases",
        {"id", "owner_id", "name", "description", "created_at", "updated_at"}, {},
        {<<"owner_id", "name">>})>>
    \o CreateIndexes("knowledge_bases", <<<<"owner_id">>, <<"owner_id", "created_at">>>>)

CreateDocuments ==
    <<CreateTable("documents",
        {"id", "owner_id", "knowledge_base_id", "filename", "content_type", "status",
         "error_message", "current_version_id", "created_at", "updated_at"},
        {"knowledge_bases"}, {})>>
    \o CreateIndexes("documents",
        <<<<"owner_id">>, <<"knowledge_base_id">>, <<"status">>,
          <<"owner_id", "knowledge_base_id">>, <<"owner_id", "created_at">>>>)

CreateVersions ==
    <<CreateTable("document_versions",
        {"id", "owner_id", "document_id", "version_number", "file_size_bytes",
         "checksum_sha256", "storage_key", "mime_type", "created_at"},
        {"documents"}, {<<"document_id", "version_number">>})>>
    \o CreateIndexes("document_versions",
        <<<<"owner_id">>, <<"document_id">>, <<"checksum_sha256">>,
          <<"owner_id", "checksum_sha256">>>>)

CreateChunks ==
    <<CreateTable("document_chunks",
        {"id", "owner_id", "document_id", "document_version_id", "chunk_index", "content",
         "token_count", "metadata_json", "created_at"},
        {"documents", "document_versions"}, {<<"document_version_id", "chunk_index">>})>>
    \o CreateIndexes("document_chunks",
        <<<<"owner_id">>, <<"document_id">>, <<"document_version_id">>,
          <<"owner_id", "document_id">>>>)

CreateJobs ==
    <<CreateTable("ingestion_jobs",
        {"id", "owner_id", "document_id", "document_version_id", "status", "error_message",
         "created_at", "updated_at"},
        {"documents", "document_versions"}, {})>>
    \o CreateIndexes("ingestion_jobs",
        <<<<"owner_id">>, <<"document_id">>, <<"document_version_id">>, <<"status">>,
          <<"owner_id", "status">>, <<"owner_id", "created_at">>>>)

DropDocumentManagement ==
    <<DropTable("ingestion_jobs"), DropTable("document_chunks"),
      DropTable("document_versions"), DropTable("documents"), DropTable("knowledge_bases")>>

HnswIndex == <<"document_chunks", "hnsw", <<"embedding">>>>
TsvIndex == <<"document_chunks", "gin", <<"content">>>>

\* Mutant of EnableVector: without IF NOT EXISTS.
EnableVectorOnce == [op |-> "create_index", table |-> "vector", items |-> {Extension}]

EnableVector == Ensure("vector", Extension)

AddEmbeddings ==
    <<EnableVector, AddColumn("document_chunks", "embedding"),
      Ensure("document_chunks", HnswIndex)>>

\* The extension stays.
DropEmbeddings ==
    <<EnsureNot("document_chunks", HnswIndex), DropColumn("document_chunks", "embedding")>>

CreateRagQueries ==
    <<Ensure("document_chunks", TsvIndex),
      CreateTable("rag_queries",
        {"id", "owner_id", "query_text", "knowledge_base_id", "retrieval_method",
         "vector_top_k", "keyword_top_k", "rerank_top_k", "result_count", "latency_ms",
         "filter_json", "stage_latencies_ms", "result_chunk_ids", "created_at"}, {}, {})>>
    \o CreateIndexes("rag_queries", <<<<"owner_id">>, <<"owner_id", "created_at">>>>)

DropRagQueries ==
    <<DropIndex("rag_queries", <<"owner_id", "created_at">>), DropTable("rag_queries"),
      EnsureNot("document_chunks", TsvIndex)>>

CreateChat ==
    <<CreateTable("conversations", {"id", "owner_id", "title", "created_at", "updated_at"}, {}, {})>>
    \o CreateIndexes("conversations",
        <<<<"owner_id">>, <<"owner_id", "updated_at">>, <<"owner_id", "created_at">>>>)
    \o <<CreateTable("messages",
        {"id", "owner_id", "conversation_id", "role", "content", "metadata_json", "created_at"},
        {"conversations"}, {})>>
    \o CreateIndexes("messages",
        <<<<"owner_id">>, <<"conversation_id">>,
          <<"owner_id", "conversation_id", "created_at">>>>)
    \o <<CreateTable("llm_usage",
        {"id", "owner_id", "conversation_id", "message_id", "provider", "model",
         "input_tokens", "output_tokens", "cached_input_tokens", "total_tokens",
         "estimated_cost_usd", "latency_ms", "retry_count", "created_at"},
        {"conversations", "messages"}, {})>>
    \o CreateIndexes("llm_usage",
        <<<<"owner_id">>, <<"conversation_id">>, <<"message_id">>,
          <<"owner_id", "created_at">>>>)

DropChat ==
    <<DropIndex("llm_usage", <<"owner_id", "created_at">>), DropTable("llm_usage"),
      DropIndex("messages", <<"owner_id", "conversation_id", "created_at">>),
      DropTable("messages"),
      DropIndex("conversations", <<"owner_id", "created_at">>),
      DropIndex("conversations", <<"owner_id", "updated_at">>),
      DropTable("conversations")>>

AddJobMetadata ==
    <<AddColumn("ingestion_jobs", "attempt_count"),
      AddColumn("ingestion_jobs", "queued_task_id"),
      CreateIndex("ingestion_jobs", <<"queued_task_id">>)>>

DropJobMetadata ==
    <<DropIndex("ingestion_jobs", <<"queued_task_id">>),
      DropColumn("ingestion_jobs", "queued_task_id"),
      DropColumn("ingestion_jobs", "attempt_count")>>

CreateAutomation ==
    <<CreateTable("automation_reports",
        {"id", "owner_id", "workflow_name", "run_id", "status", "summary", "payload_json",
         "created_at"}, {}, {<<"owner_id", "workflow_name", "run_id", "status">>})>>
    \o CreateIndexes("automation_reports",
        <<<<"owner_id">>, <<"workflow_name">>, <<"owner_id", "created_at">>,
          <<"workflow_name", "status">>>>)
    \o <<CreateTable("evaluation_runs",
        {"id", "owner_id", "status", "idempotency_key", "trigger_source", "workflow_name",
         "dataset_name", "report_path", "error_message", "metadata_json", "created_at",
         "updated_at"}, {}, {<<"owner_id", "idempotency_key">>})>>
    \o CreateIndexes("evaluation_runs",
        <<<<"owner_id">>, <<"status">>, <<"owner_id", "created_at">>>>)

DropAutomation ==
    <<DropIndex("evaluation_runs", <<"owner_id", "created_at">>),
      DropIndex("evaluation_runs", <<"status">>), DropIndex("evaluation_runs", <<"owner_id">>),
      DropTable("evaluation_runs"),
      DropIndex("automation_reports", <<"workflow_name", "status">>),
      DropIndex("automation_reports", <<"owner_id", "created_at">>),
      DropIndex("automation_reports", <<"workflow_name">>),
      DropIndex("automation_reports", <<"owner_id">>),
      DropTable("automation_reports")>>

CreateUsers ==
    <<CreateTable("users", {"id", "email", "password_hash", "created_at", "updated_at"}, {},
        {<<"email">>})>>

DropUsers == <<DropTable("users")>>

\* The chain: script r leads from revision r - 1 to revision r, and back.
Scripts ==
    << [up |-> << >>, down |-> << >>],
       [up |-> CreateKnowledgeBases \o CreateDocuments \o CreateVersions \o CreateChunks
               \o CreateJobs, down |-> DropDocumentManagement],
       [up |-> AddEmbeddings, down |-> DropEmbeddings],
       [up |-> CreateRagQueries, down |-> DropRagQueries],
       [up |-> CreateChat, down |-> DropChat],
       [up |-> AddJobMetadata, down |-> DropJobMetadata],
       [up |-> CreateAutomation, down |-> DropAutomation],
       [up |-> CreateUsers, down |-> DropUsers] >>

HeadRevision == Len(Scripts)
-----------------------------------------------------------------------------
(* The schema that the ORM models declare *)

KnowledgeBaseModel ==
    Table("knowledge_bases",
        {"id", "owner_id", "name", "description", "created_at", "updated_at"}, {},
        {<<"owner_id", "name">>})
    \union Indexes("knowledge_bases", {<<"owner_id", "created_at">>, <<"owner_id">>})

DocumentModel ==
    Table("documents",
        {"id", "owner_id", "knowledge_base_id", "filename", "content_type", "status",
         "error_message", "current_version_id", "created_at", "updated_at"},
        {"knowledge_bases"}, {})
    \union Indexes("documents",
        {<<"owner_id", "knowledge_base_id">>, <<"owner_id", "created_at">>, <<"owner_id">>,
         <<"knowledge_base_id">>, <<"status">>})

DocumentVersionModel ==
    Table("document_versions",
        {"id", "owner_id", "document_id", "version_number", "file_size_bytes",
         "checksum_sha256", "storage_key", "mime_type", "created_at"},
        {"documents"}, {<<"document_id", "version_number">>})
    \union Indexes("document_versions",
        {<<"owner_id", "checksum_sha256">>, <<"owner_id">>, <<"document_id">>,
         <<"checksum_sha256">>})

DocumentChunkModel ==
    Table("document_chunks",
        {"id", "owner_id", "document_id", "document_version_id", "chunk_index", "content",
         "token_count", "metadata_json", "embedding", "created_at"},
        {"documents", "document_versions"}, {<<"document_version_id", "chunk_index">>})
    \union Indexes("document_chunks",
        {<<"owner_id", "document_id">>, <<"owner_id">>, <<"document_id">>,
         <<"document_version_id">>})

IngestionJobModel ==
    Table("ingestion_jobs",
        {"id", "owner_id", "document_id", "document_version_id", "status", "error_message",
         "attempt_count", "queued_task_id", "created_at", "updated_at"},
        {"documents", "document_versions"}, {})
    \union Indexes("ingestion_jobs",
        {<<"owner_id", "status">>, <<"owner_id", "created_at">>, <<"owner_id">>,
         <<"document_id">>, <<"document_version_id">>, <<"status">>, <<"queued_task_id">>})

RagQueryModel ==
    Table("rag_queries",
        {"id", "owner_id", "query_text", "knowledge_base_id", "retrieval_method",
         "vector_top_k", "keyword_top_k", "rerank_top_k", "result_count", "latency_ms",
         "filter_json", "stage_latencies_ms", "result_chunk_ids", "created_at"}, {}, {})
    \union Indexes("rag_queries", {<<"owner_id", "created_at">>, <<"owner_id">>})

ConversationModel ==
    Table("conversations", {"id", "owner_id", "title", "created_at", "updated_at"}, {}, {})
    \union Indexes("conversations",
        {<<"owner_id", "updated_at">>, <<"owner_id", "created_at">>, <<"owner_id">>})

MessageModel ==
    Table("messages",
        {"id", "owner_id", "conversation_id", "role", "content", "metadata_json", "created_at"},
        {"conversations"}, {})
    \union Indexes("messages",
        {<<"owner_id", "conversation_id", "created_at">>, <<"owner_id">>, <<"conversation_id">>})

LLMUsageModel ==
    Table("llm_usage",
        {"id", "owner_id", "conversation_id", "message_id", "provider", "model",
         "input_tokens", "output_tokens", "cached_input_tokens", "total_tokens",
         "estimated_cost_usd", "latency_ms", "retry_count", "created_at"},
        {"conversations", "messages"}, {})
    \union Indexes("llm_usage",
        {<<"owner_id", "created_at">>, <<"owner_id">>, <<"conversation_id">>, <<"message_id">>})

AutomationReportModel ==
    Table("automation_reports",
        {"id", "owner_id", "workflow_name", "run_id", "status", "summary", "payload_json",
         "created_at"}, {}, {<<"owner_id", "workflow_name", "run_id", "status">>})
    \union Indexes("automation_reports",
        {<<"owner_id", "created_at">>, <<"workflow_name", "status">>, <<"owner_id">>,
         <<"workflow_name">>})

EvaluationRunModel ==
    Table("evaluation_runs",
        {"id", "owner_id", "status", "idempotency_key", "trigger_source", "workflow_name",
         "dataset_name", "report_path", "error_message", "metadata_json", "created_at",
         "updated_at"}, {}, {<<"owner_id", "idempotency_key">>})
    \union Indexes("evaluation_runs", {<<"owner_id", "created_at">>, <<"owner_id">>, <<"status">>})

UserModel ==
    Table("users", {"id", "email", "password_hash", "created_at", "updated_at"}, {},
        {<<"email">>})

Models ==
    UNION {KnowledgeBaseModel, DocumentModel, DocumentVersionModel, DocumentChunkModel,
           IngestionJobModel, RagQueryModel, ConversationModel, MessageModel, LLMUsageModel,
           AutomationReportModel, EvaluationRunModel, UserModel}
-----------------------------------------------------------------------------
VARIABLES
    schema,   \* the committed schema
    revision, \* the committed alembic_version
    work      \* the transaction of the migration command, if one runs

migrationVars == <<schema, revision, work>>

NoWork == [schema |-> {}, revision |-> 0, target |-> -1, todo |-> << >>]

MigrationInit ==
    /\ schema = {}
    /\ revision = 0
    /\ work = NoWork

Running == work # NoWork

\* alembic upgrade or downgrade to a revision.
StartMigration(target) ==
    /\ ~Running
    /\ target # revision
    /\ work' = [schema |-> schema, revision |-> revision, target |-> target, todo |-> << >>]
    /\ UNCHANGED <<schema, revision>>

\* The next script, and the new alembic_version with it.
NextScript ==
    /\ Running
    /\ work.todo = << >>
    /\ work.revision # work.target
    /\ work' = IF work.revision < work.target
               THEN [work EXCEPT !.revision = @ + 1, !.todo = Scripts[work.revision + 1].up]
               ELSE [work EXCEPT !.revision = @ - 1, !.todo = Scripts[work.revision].down]
    /\ UNCHANGED <<schema, revision>>

ColumnsOf(item) == IF Len(item) = 3 /\ item[2] \in {"index", "unique", "hnsw", "gin"}
                   THEN ToSet(item[3]) ELSE {}

\* What the database requires of an operation, else it fails.
Possible(s, o) ==
    CASE o.op = "create_table" ->
           /\ ~TableExists(s, o.table)
           /\ \A i \in o.items : i[2] = "references" => TableExists(s, i[3])
      [] o.op \in {"create_index", "add_column"} -> o.items \intersect s = {}
      [] o.op = "drop_table" ->
           /\ TableExists(s, o.table)
           /\ \A i \in s : i[2] = "references" /\ i[3] = o.table => i[1] = o.table
      [] o.op \in {"drop_index", "drop_column"} -> o.items \subseteq s
      [] OTHER -> TRUE
    /\ \A i \in o.items : \A c \in ColumnsOf(i) : Column(o.table, c) \in s \union o.items

\* A column takes its indexes with it.
Apply(s, o) ==
    CASE o.op = "drop_table" -> s \ TableItems(s, o.table)
      [] o.op \in {"drop_index", "remove"} -> s \ o.items
      [] o.op = "drop_column" ->
           s \ {i \in TableItems(s, o.table) :
                  i \in o.items \/ \E c \in ColumnsOf(i) : Column(o.table, c) \in o.items}
      [] OTHER -> s \union o.items

Operate ==
    /\ work.todo # << >>
    /\ Possible(work.schema, Head(work.todo))
    /\ work' = [work EXCEPT !.schema = Apply(@, Head(work.todo)), !.todo = Tail(@)]
    /\ UNCHANGED <<schema, revision>>

CommitMigration ==
    /\ Running
    /\ work.todo = << >>
    /\ work.revision = work.target
    /\ schema' = work.schema
    /\ revision' = work.revision
    /\ work' = NoWork

\* The command dies, or an operation fails: everything is rolled back.
RollBack ==
    /\ Running
    /\ work' = NoWork
    /\ UNCHANGED <<schema, revision>>

MigrationNext ==
    \/ \E target \in 0..HeadRevision : StartMigration(target)
    \/ NextScript
    \/ Operate
    \/ CommitMigration
    \/ RollBack

MigrationTypeOK ==
    /\ revision \in 0..HeadRevision
    /\ work.revision \in 0..HeadRevision
    /\ work.target \in -1..HeadRevision
    /\ \A i \in schema \union work.schema : Len(i) \in 2..3
-----------------------------------------------------------------------------

\* However a database has been taken up and down, no operation of the next script
\* fails, the head is what the models expect (and the two indexes and the
\* extension that only the migrations know of), and at the bottom nothing but the
\* extension is left.
MigrationsLeadToModels ==
    /\ work.todo # << >> => Possible(work.schema, Head(work.todo))
    /\ revision = HeadRevision => schema = Models \union {HnswIndex, TsvIndex, Extension}
    /\ revision = 0 => schema \subseteq {Extension}
=============================================================================
