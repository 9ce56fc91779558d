------------------------------- MODULE Retrieval -------------------------------
(***************************************************************************)
(* One search at a time through the chunks of an owner, side by side with  *)
(* the worker that re-indexes the documents: two searches of the database, *)
(* the fusion of their rankings, the reranking, the context packed into a  *)
(* budget, and the check of the citations in the answer that a model gives *)
(* to it.  Each search of the database has a snapshot of its own.          *)
(***************************************************************************)
EXTENDS Integers, FiniteSets, Sequences, SequencesExt

CONSTANTS
    Docs,             \* documents of the owner
    Passages,         \* passages of a document, one chunk each
    MaxGenerations,   \* how often a document is indexed
    SearchTopK,       \* vector_top_k and keyword_top_k
    RerankTopK,       \* rerank_top_k
    RrfK,             \* the constant of the fusion
    VectorWeight,
    KeywordWeight,
    BlockTokens,      \* what the block of each passage takes from the budget
    Budgets,          \* context_token_budget
    MaxContextChunks, \* the limits of the agents' tools: how many sources,
    MaxContextLength  \* and how much of the text

ASSUME RetrievalAssumption ==
    /\ IsFiniteSet(Docs) /\ IsFiniteSet(Passages) /\ MaxGenerations \in Nat \ {0}
    /\ RrfK \in Nat \ {0} /\ VectorWeight \in Nat /\ KeywordWeight \in Nat
    /\ SearchTopK \in Nat \ {0} /\ RerankTopK \in Nat \ {0}
    /\ MaxContextChunks \in Nat /\ RerankTopK <= MaxContextChunks
    /\ BlockTokens \in [Passages -> Nat \ {0}]

Methods == {"vector", "keyword", "hybrid"}
\* A chunk: its document, its passage, and the indexing that gave it its id.
Chunks == Docs \X Passages \X (1..MaxGenerations)

VARIABLES
    indexed, \* document |-> whether its status is INDEXED
    rows,    \* document_chunks
    search   \* the search that runs

retrievalVars == <<indexed, rows, search>>

NoSearch == [pc |-> "idle", caller |-> "chat", method |-> "hybrid", scope |-> {},
             vector |-> << >>, keyword |-> << >>, moved |-> {}, ranked |-> << >>,
             sources |-> 0, shown |-> 0, cited |-> {}]

SearchPc == {"idle", "scoping", "vector", "keyword", "fusing", "fused", "packing",
             "prompting", "accepted", "refused"}

RetrievalTypeOK ==
    /\ indexed \in [Docs -> BOOLEAN]
    /\ rows \subseteq Chunks
    /\ search.pc \in SearchPc
    /\ search.moved \subseteq Docs
    /\ \A list \in {search.vector, search.keyword, search.ranked} : list \in Seq(Chunks)
    /\ search.sources \in 0..RerankTopK /\ search.shown \in 0..RerankTopK

RetrievalInit ==
    /\ indexed = [d \in Docs |-> TRUE]
    /\ rows = Docs \X Passages \X {1}
    /\ search = NoSearch

\* Mutant of Take: one too many.
TakeOneMore(list, n) == SubSeq(list, 1, IF n < Len(list) THEN n + 1 ELSE Len(list))
Take(list, n) == SubSeq(list, 1, IF n < Len(list) THEN n ELSE Len(list))
RowsOfDoc(d) == {c \in rows : c[1] = d}
-----------------------------------------------------------------------------
(* The worker, by what it commits to the rows that a search reads *)

\* A document leaves the index while it is processed, or because that failed.
LeaveIndex(d) ==
    /\ indexed[d]
    /\ indexed' = [indexed EXCEPT ![d] = FALSE]
    /\ UNCHANGED <<rows, search>>

\* replace_document_chunks_transactionally and the INDEXED status, in one commit.
Reindex(d) ==
    /\ ~indexed[d]
    /\ \E g \in 2..MaxGenerations :
          /\ \A c \in RowsOfDoc(d) : c[3] = g - 1
          /\ RowsOfDoc(d) # {}
          /\ rows' = (rows \ RowsOfDoc(d)) \union ({d} \X Passages \X {g})
    /\ indexed' = [indexed EXCEPT ![d] = TRUE]
    /\ search' = IF search.pc = "keyword" THEN [search EXCEPT !.moved = @ \union {d}] ELSE search

\* The document is deleted, with its chunks.
DropDocument(d) ==
    /\ RowsOfDoc(d) # {}
    /\ rows' = rows \ RowsOfDoc(d)
    /\ indexed' = [indexed EXCEPT ![d] = FALSE]
    /\ UNCHANGED search
-----------------------------------------------------------------------------
(* RetrievalService.search *)

\* A search over all documents, or in one; by one method, or hybrid for a chat or
\* an agent.
Ask ==
    /\ search.pc = "idle"
    /\ \E caller \in {"chat", "agent"}, m \in Methods,
          scope \in {Docs} \union {{d} : d \in Docs} :
          /\ caller = "agent" => m = "hybrid"
          /\ search' = [NoSearch EXCEPT !.pc = IF caller = "agent" /\ scope # Docs
                                                   THEN "scoping" ELSE "vector",
                                        !.caller = caller, !.method = m, !.scope = scope]
    /\ UNCHANGED <<indexed, rows>>

\* get_document_context looks the document up before it searches in it.
FindDocument ==
    /\ search.pc = "scoping"
    /\ search' = IF \E d \in search.scope : RowsOfDoc(d) # {}
                 THEN [search EXCEPT !.pc = "vector"]
                 ELSE NoSearch
    /\ UNCHANGED <<indexed, rows>>

\* The owner's chunks of indexed documents that the filter lets through.
Searchable == {c \in rows : indexed[c[1]] /\ c[1] \in search.scope}

\* Whatever the distances are, and however few chunks the index finds.
Rankings == {Take(list, SearchTopK) : list \in SetToAllKPermutations(Searchable)}

SearchVector ==
    /\ search.pc = "vector"
    /\ \E list \in Rankings :
          search' = [search EXCEPT !.pc = "keyword",
                                   !.vector = IF search.method = "keyword" THEN << >> ELSE list]
    /\ UNCHANGED <<indexed, rows>>

SearchKeyword ==
    /\ search.pc = "keyword"
    /\ \E list \in Rankings :
          search' = [search EXCEPT !.pc = "fusing", !.scope = {},
                                   !.keyword = IF search.method = "vector" THEN << >> ELSE list]
    /\ UNCHANGED <<indexed, rows>>

\* weight / (k + rank), as a multiple of what makes every one of them whole.
RrfScale == LET product[r \in 0..SearchTopK] ==
                    IF r = 0 THEN 1 ELSE product[r - 1] * (RrfK + r)
            IN product[SearchTopK]
Contribution(weight, list, c) ==
    IF \E r \in DOMAIN list : list[r] = c
    THEN weight * (RrfScale \div (RrfK + CHOOSE r \in DOMAIN list : list[r] = c))
    ELSE 0

\* Mutant of RrfScore: the channel that comes last overwrites the score.
LastContribution(c) ==
    IF \E r \in DOMAIN search.keyword : search.keyword[r] = c
    THEN Contribution(KeywordWeight, search.keyword, c)
    ELSE Contribution(VectorWeight, search.vector, c)

RrfScore(c) == Contribution(VectorWeight, search.vector, c)
               + Contribution(KeywordWeight, search.keyword, c)

\* Mutant of Fusions: a chunk that both channels find is not recognised.
FusionsByChannel == {Take(search.vector \o search.keyword, SearchTopK)}

\* Best score first; the random ids decide between equal scores.
Fusions ==
    LET found == ToSet(search.vector) \union ToSet(search.keyword) IN
    {Take(list, SearchTopK) : list \in
        {p \in SetToSeqs(found) : \A i, j \in DOMAIN p : i < j => RrfScore(p[i]) >= RrfScore(p[j])}}

Fuse ==
    /\ search.pc = "fusing"
    /\ \E list \in (CASE search.method = "hybrid" -> Fusions
                      [] search.method = "vector" -> {search.vector}
                      [] OTHER -> {search.keyword}) :
          search' = [search EXCEPT !.pc = "fused", !.ranked = list]
    /\ UNCHANGED <<indexed, rows>>

\* NullRerankerProvider keeps the order; the others sort by a score of their own.
Rerank ==
    /\ search.pc = "fused"
    /\ \E list \in SetToSeqs(ToSet(search.ranked)) :
          search' = [NoSearch EXCEPT !.pc = "packing", !.caller = search.caller,
                                     !.moved = search.moved, !.ranked = Take(list, RerankTopK)]
    /\ UNCHANGED <<indexed, rows>>

\* What the first n blocks take from the budget.
TokensOf(list, n) ==
    LET sum[i \in 0..n] == IF i = 0 THEN 0 ELSE sum[i - 1] + BlockTokens[list[i][2]]
    IN sum[n]

\* ContextBuilder.build stops at the first block that exceeds the budget.
Packed(list, budget) == {i \in DOMAIN list : TokensOf(list, i) <= budget}

\* Mutant of BoundSources: one source too few is kept.
BoundSourcesShort(n) == IF n < MaxContextChunks THEN n ELSE MaxContextChunks - 1

\* _bound_context_bundle keeps some sources ...
BoundSources(n) == IF n < MaxContextChunks THEN n ELSE MaxContextChunks

\* ... and cuts the text: the blocks that begin before the cut are in the prompt.
InPrompt(list, i) == TokensOf(list, i - 1) < MaxContextLength

Pack ==
    /\ search.pc = "packing"
    /\ \E budget \in Budgets :
          LET bundle == Packed(search.ranked, budget)
              agent == search.caller = "agent" IN
          search' = [NoSearch EXCEPT
             !.pc = "prompting", !.caller = search.caller,
             !.sources = IF agent THEN BoundSources(Cardinality(bundle)) ELSE Cardinality(bundle),
             !.shown = Cardinality({i \in bundle : agent => InPrompt(search.ranked, i)})]
    /\ UNCHANGED <<indexed, rows>>
-----------------------------------------------------------------------------
(* CitationValidator *)

Available == 1..search.sources

\* The model cites any sources, also one that has never been; an agent has to
\* cite one if there are any.
Answer ==
    /\ search.pc = "prompting"
    /\ \E cited \in SUBSET (1..(RerankTopK + 1)) :
          search' = [search EXCEPT
             !.cited = cited,
             !.pc = IF /\ cited \subseteq Available
                       /\ search.caller = "agent" /\ Available # {} => cited # {}
                    THEN "accepted" ELSE "refused"]
    /\ UNCHANGED <<indexed, rows>>

FinishSearch ==
    /\ search.pc \in {"accepted", "refused"}
    /\ search' = NoSearch
    /\ UNCHANGED <<indexed, rows>>

RetrievalNext ==
    \/ \E d \in Docs : LeaveIndex(d) \/ Reindex(d) \/ DropDocument(d)
    \/ Ask \/ FindDocument \/ SearchVector \/ SearchKeyword \/ Fuse \/ Rerank \/ Pack
    \/ Answer \/ FinishSearch

RetrievalSpec == RetrievalInit /\ [][RetrievalNext]_retrievalVars
-----------------------------------------------------------------------------

\* A chunk that both channels have found comes before every chunk that only one
\* has found: with equal weights, and a constant that is large against the length
\* of the lists, agreement counts more than any rank.
AgreementComesFirst ==
    search.pc = "fused" /\ search.method = "hybrid" =>
       LET both == ToSet(search.vector) \intersect ToSet(search.keyword) IN
       \A i, j \in DOMAIN search.ranked :
          search.ranked[i] \in both /\ search.ranked[j] \notin both => i < j

\* The same passage is found twice, under two ids, only when its document was
\* re-indexed between the two searches of a hybrid search.
PassagesRepeatByReindexOnly ==
    \A i, j \in DOMAIN search.ranked :
       /\ i # j
       /\ search.ranked[i][1] = search.ranked[j][1] /\ search.ranked[i][2] = search.ranked[j][2]
       => search.ranked[i][1] \in search.moved

\* What is cited has been shown: an accepted answer cites no source that the
\* prompt did not hold (unless the prompt's text was cut, which the check of the
\* citations does not know), and an answer that cites only what it was shown is
\* accepted.
ShownSourcesAreCitable ==
    /\ search.pc = "accepted" /\ search.shown = search.sources
          => search.cited \subseteq 1..search.shown
    /\ search.pc = "refused" => search.cited = {} \/ ~(search.cited \subseteq 1..search.shown)
=============================================================================
