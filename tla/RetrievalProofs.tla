--------------------------- MODULE RetrievalProofs ---------------------------
(***************************************************************************)
(* Theorems about Retrieval, for every set of documents and passages, all  *)
(* lengths of the lists, and every order of searches and re-indexing.      *)
(***************************************************************************)
EXTENDS Retrieval, FiniteSetTheorems, TLAPS

-----------------------------------------------------------------------------
(* Strengthenings *)

Search == [pc: SearchPc, caller: {"chat", "agent"}, method: Methods, scope: SUBSET Docs,
           vector: Seq(Chunks), keyword: Seq(Chunks), moved: SUBSET Docs, ranked: Seq(Chunks),
           sources: Nat, shown: Nat, cited: SUBSET Nat]

SearchTyped ==
    /\ indexed \in [Docs -> BOOLEAN]
    /\ rows \subseteq Chunks
    /\ search \in Search
    /\ search.sources <= RerankTopK /\ search.shown <= RerankTopK

\* Two chunks of one passage, which may be of different indexings.
SamePassage(c, d) == c[1] = d[1] /\ c[2] = d[2]

\* The chunks of a document are replaced together.
OneGeneration == \A c, d \in rows : c[1] = d[1] => c[3] = d[3]

NoRepeats(list) == \A i, j \in DOMAIN list : i # j => ~ SamePassage(list[i], list[j])

\* What the first search has found is still there when the second one begins, or
\* its document was deleted, or re-indexed.
FoundIsCurrent ==
    search.pc = "keyword" =>
        /\ NoRepeats(search.vector)
        /\ \A i \in DOMAIN search.vector, c \in rows :
              search.vector[i][1] = c[1] =>
                 search.vector[i][3] = c[3] \/ c[1] \in search.moved

\* The two lists have a passage under two ids only if it moved between them.
ListsAgree ==
    search.pc = "fusing" =>
        /\ NoRepeats(search.vector) /\ NoRepeats(search.keyword)
        /\ \A i \in DOMAIN search.vector, j \in DOMAIN search.keyword :
              SamePassage(search.vector[i], search.keyword[j]) =>
                 search.vector[i] = search.keyword[j] \/ search.vector[i][1] \in search.moved

\* The ranked list is there when it is needed.
RankedIsBounded ==
    /\ search.pc \notin {"fused", "packing"} => search.ranked = << >>
    /\ search.pc = "packing" => Len(search.ranked) <= RerankTopK

\* The numbers that the citations are compared with.
SourcesAreShown ==
    /\ search.shown <= search.sources
    /\ search.pc = "accepted" => search.cited \subseteq 1..search.sources
    /\ search.pc = "refused" => search.cited = {} \/ ~ (search.cited \subseteq 1..search.sources)

RetrievalInv ==
    /\ SearchTyped
    /\ OneGeneration
    /\ FoundIsCurrent
    /\ ListsAgree
    /\ RankedIsBounded
    /\ PassagesRepeatByReindexOnly
    /\ SourcesAreShown

-----------------------------------------------------------------------------
(* Lists *)

\* There are finitely many chunks.
LEMMA ChunksAreFinite ==
    ASSUME RetrievalAssumption
    PROVE  IsFiniteSet(Chunks)
  <1>1. IsFiniteSet(Docs) /\ IsFiniteSet(Passages) /\ MaxGenerations \in Nat
    BY DEF RetrievalAssumption
  <1>2. IsFiniteSet(1..MaxGenerations)
    BY <1>1, FS_Interval
  <1>3. IsFiniteSet(Passages \X (1..MaxGenerations)) /\ IsFiniteSet(Docs \X Passages)
    BY <1>1, <1>2, FS_Product
  <1> DEFINE DP == Docs \X Passages
             f == [q \in DP \X (1..MaxGenerations) |-> <<q[1][1], q[1][2], q[2]>>]
  <1>4. IsFiniteSet(DP \X (1..MaxGenerations))
    BY <1>2, <1>3, FS_Product
  <1>5. f \in Surjection(DP \X (1..MaxGenerations), Chunks)
    <2>1. f \in [DP \X (1..MaxGenerations) -> Chunks]
      BY DEF Chunks
    <2>2. ASSUME NEW c \in Chunks
          PROVE  \E q \in DP \X (1..MaxGenerations) : f[q] = c
      <3>1. <<<<c[1], c[2]>>, c[3]>> \in DP \X (1..MaxGenerations)
        BY DEF Chunks
      <3>2. f[<<<<c[1], c[2]>>, c[3]>>] = c
        BY <3>1 DEF Chunks
      <3> QED BY <3>1, <3>2
    <2> HIDE DEF f
    <2> QED BY <2>1, <2>2 DEF Surjection
  <1> HIDE DEF f, DP
  <1> QED BY <1>4, <1>5, FS_Surjection

\* A list of distinct chunks from a set.
ListFrom(list, S) ==
    /\ list \in Seq(S)
    /\ \A i, j \in DOMAIN list : i # j => list[i] # list[j]

\* The permutations of a finite set are such lists.
LEMMA PermutationsAreLists ==
    ASSUME NEW S, IsFiniteSet(S), NEW list \in SetToSeqs(S)
    PROVE  ListFrom(list, S)
  <1>1. Cardinality(S) \in Nat
    BY FS_CardinalityType
  <1>2. list \in [1..Cardinality(S) -> S]
        /\ \A i, j \in 1..Cardinality(S) : i # j => list[i] # list[j]
    BY DEF SetToSeqs
  <1> QED BY <1>1, <1>2 DEF ListFrom

\* Their beginnings are, too.
LEMMA TakeIsList ==
    ASSUME NEW S, NEW list, NEW n \in Nat, ListFrom(list, S)
    PROVE  ListFrom(Take(list, n), S) /\ Len(Take(list, n)) <= n
  <1> DEFINE m == IF n < Len(list) THEN n ELSE Len(list)
  <1>1. m \in Nat /\ m <= n /\ m <= Len(list) /\ list \in Seq(S)
    BY DEF ListFrom
  <1>2. /\ Take(list, n) \in Seq(S) /\ Len(Take(list, n)) = m
        /\ \A i \in 1..m : Take(list, n)[i] = list[i]
    BY <1>1 DEF Take
  <1> HIDE DEF m
  <1> QED BY <1>1, <1>2 DEF ListFrom

\* What a search of the database may answer.
LEMMA RankingsAreLists ==
    ASSUME RetrievalAssumption, SearchTyped, NEW list \in Rankings
    PROVE  ListFrom(list, rows)
  <1>1. PICK p \in SetToAllKPermutations(Searchable) : list = Take(p, SearchTopK)
    BY DEF Rankings
  <1>2. PICK s \in SUBSET Searchable : p \in SetToSeqs(s)
    BY DEF SetToAllKPermutations
  <1>3. IsFiniteSet(s) /\ s \subseteq rows
    BY ChunksAreFinite, FS_Subset DEF SearchTyped, Searchable
  <1>4. ListFrom(p, s)
    BY <1>2, <1>3, PermutationsAreLists
  <1>5. SearchTopK \in Nat
    BY DEF RetrievalAssumption
  <1>6. ListFrom(list, s)
    BY <1>1, <1>4, <1>5, TakeIsList
  <1> QED BY <1>3, <1>6 DEF ListFrom

\* A list of distinct chunks that are in the rows together has no passage twice.
LEMMA ListsHaveNoRepeats ==
    ASSUME SearchTyped, OneGeneration, NEW list, ListFrom(list, rows)
    PROVE  list \in Seq(Chunks) /\ NoRepeats(list)
  <1>1. list \in Seq(rows) /\ rows \subseteq Chunks
    BY DEF ListFrom, SearchTyped
  <1>2. list \in Seq(Chunks) /\ \A i \in DOMAIN list : list[i] \in rows
    BY <1>1
  <1>3. ASSUME NEW i \in DOMAIN list, NEW j \in DOMAIN list, i # j, SamePassage(list[i], list[j])
        PROVE  FALSE
    <2>1. list[i] \in rows /\ list[j] \in rows /\ list[i] # list[j]
      BY <1>2, <1>3 DEF ListFrom
    <2>2. list[i][3] = list[j][3]
      BY <1>3, <2>1 DEF OneGeneration, SamePassage
    <2>3. \A c, d \in Chunks : c[1] = d[1] /\ c[2] = d[2] /\ c[3] = d[3] => c = d
      BY DEF Chunks
    <2> QED BY <1>1, <1>3, <2>1, <2>2, <2>3 DEF SamePassage
  <1> QED BY <1>2, <1>3 DEF NoRepeats

-----------------------------------------------------------------------------
(* What the worker commits *)

\* The invariant does not look at the status of the documents.
LEMMA LeaveIndexKeeps ==
    ASSUME RetrievalInv, NEW d \in Docs, LeaveIndex(d)
    PROVE  RetrievalInv'
  <1>1. indexed' \in [Docs -> BOOLEAN] /\ rows' = rows /\ search' = search
    BY DEF LeaveIndex, RetrievalInv, SearchTyped
  <1>2. SearchTyped'
    BY <1>1 DEF RetrievalInv, SearchTyped
  <1> QED
    BY <1>1, <1>2 DEF RetrievalInv, OneGeneration, FoundIsCurrent, ListsAgree, RankedIsBounded,
       PassagesRepeatByReindexOnly, SourcesAreShown, NoRepeats

\* A deleted document is found by no later search.
LEMMA DropDocumentKeeps ==
    ASSUME RetrievalInv, NEW d \in Docs, DropDocument(d)
    PROVE  RetrievalInv'
  <1>1. indexed' \in [Docs -> BOOLEAN] /\ rows' \subseteq rows /\ search' = search
    BY DEF DropDocument, RetrievalInv, SearchTyped
  <1>2. SearchTyped'
    BY <1>1 DEF RetrievalInv, SearchTyped
  <1>3. OneGeneration' /\ FoundIsCurrent'
    BY <1>1 DEF RetrievalInv, OneGeneration, FoundIsCurrent, NoRepeats
  <1> QED
    BY <1>1, <1>2, <1>3 DEF RetrievalInv, ListsAgree, RankedIsBounded,
       PassagesRepeatByReindexOnly, SourcesAreShown, NoRepeats

\* A re-indexed document has chunks of one indexing, and a search that has seen the
\* earlier ones knows that it moved.
LEMMA ReindexKeeps ==
    ASSUME RetrievalAssumption, RetrievalInv, NEW d \in Docs, Reindex(d)
    PROVE  RetrievalInv'
  <1>1. PICK g \in 2..MaxGenerations :
          rows' = (rows \ RowsOfDoc(d)) \union ({d} \X Passages \X {g})
    BY DEF Reindex
  <1>2. g \in 1..MaxGenerations
    BY <1>1 DEF RetrievalAssumption
  <1>3. indexed' \in [Docs -> BOOLEAN]
    BY DEF Reindex, RetrievalInv, SearchTyped
  <1>4. {d} \X Passages \X {g} \subseteq Chunks
    BY <1>2 DEF Chunks
  <1>5. rows' \subseteq Chunks
    BY <1>1, <1>4 DEF RetrievalInv, SearchTyped
  <1>6. ASSUME NEW c \in rows'
        PROVE  (c \in rows /\ c[1] # d) \/ (c[1] = d /\ c[3] = g)
    <2>1. CASE c \in rows \ RowsOfDoc(d)
      BY <2>1 DEF RowsOfDoc
    <2>2. CASE c \in {d} \X Passages \X {g}
      <3>1. \A q \in {d} \X Passages \X {g} : q[1] = d /\ q[3] = g
        OBVIOUS
      <3> QED BY <2>2, <3>1
    <2> QED BY <1>1, <2>1, <2>2
  <1>7. OneGeneration'
    BY <1>6 DEF RetrievalInv, OneGeneration
  <1>8. search \in Search
    BY DEF RetrievalInv, SearchTyped
  <1>9. CASE search.pc = "keyword"
    <2>1. search' = [search EXCEPT !.moved = @ \union {d}]
      BY <1>9 DEF Reindex
    <2>2. search.moved \union {d} \in SUBSET Docs
      BY <1>8 DEF Search
    <2>3. /\ search' \in Search /\ search'.pc = "keyword" /\ search'.vector = search.vector
          /\ search'.moved = search.moved \union {d} /\ search'.ranked = search.ranked
          /\ search'.sources = search.sources /\ search'.shown = search.shown
      BY <1>8, <1>9, <2>1, <2>2 DEF Search
    <2>4. SearchTyped'
      BY <1>3, <1>5, <2>3 DEF RetrievalInv, SearchTyped
    <2>5. FoundIsCurrent'
      BY <1>6, <1>9, <2>3 DEF RetrievalInv, FoundIsCurrent, NoRepeats
    <2>6. search.ranked = << >>
      BY <1>9 DEF RetrievalInv, RankedIsBounded
    <2> QED
      BY <1>7, <1>9, <2>3, <2>4, <2>5, <2>6 DEF RetrievalInv, ListsAgree, RankedIsBounded,
         PassagesRepeatByReindexOnly, SourcesAreShown
  <1>10. CASE search.pc # "keyword"
    <2>1. search' = search
      BY <1>10 DEF Reindex
    <2>2. SearchTyped'
      BY <1>3, <1>5, <2>1 DEF RetrievalInv, SearchTyped
    <2> QED
      BY <1>7, <1>10, <2>1, <2>2 DEF RetrievalInv, FoundIsCurrent, ListsAgree, RankedIsBounded,
         PassagesRepeatByReindexOnly, SourcesAreShown, NoRepeats
  <1> QED BY <1>9, <1>10

-----------------------------------------------------------------------------
(* The steps of a search *)

\* A step that leaves the rows alone, and gives no list to the parts of the invariant
\* that look at one.
LEMMA StepWithoutLists ==
    ASSUME RetrievalInv, UNCHANGED <<indexed, rows>>,
           search' \in Search, search'.pc \notin {"keyword", "fusing", "fused", "packing"},
           search'.ranked = << >>, SourcesAreShown',
           search'.sources <= RerankTopK, search'.shown <= RerankTopK
    PROVE  RetrievalInv'
  <1>1. SearchTyped' /\ OneGeneration'
    BY DEF RetrievalInv, SearchTyped, OneGeneration
  <1> QED
    BY <1>1 DEF RetrievalInv, FoundIsCurrent, ListsAgree, RankedIsBounded,
       PassagesRepeatByReindexOnly

\* No search at all is a search.
LEMMA NoSearchIsTyped == NoSearch \in Search
  <1>1. << >> \in Seq(Chunks) /\ {} \in SUBSET Docs /\ {} \in SUBSET Nat
    OBVIOUS
  <1> QED BY <1>1 DEF NoSearch, Search, SearchPc, Methods

\* A new search has found nothing.
LEMMA AskKeeps ==
    ASSUME RetrievalAssumption, RetrievalInv, Ask
    PROVE  RetrievalInv'
  <1>1. PICK caller \in {"chat", "agent"}, m \in Methods,
             scope \in {Docs} \union {{d} : d \in Docs} :
          search' = [NoSearch EXCEPT !.pc = IF caller = "agent" /\ scope # Docs
                                                THEN "scoping" ELSE "vector",
                                     !.caller = caller, !.method = m, !.scope = scope]
    BY DEF Ask
  <1>2. scope \in SUBSET Docs
    OBVIOUS
  <1>3. /\ search' \in Search /\ search'.pc \in {"scoping", "vector"}
        /\ search'.ranked = << >> /\ search'.sources = 0 /\ search'.shown = 0
    BY <1>1, <1>2, NoSearchIsTyped DEF NoSearch, Search, SearchPc
  <1>4. SourcesAreShown'
    BY <1>3 DEF SourcesAreShown
  <1> QED BY <1>3, <1>4, StepWithoutLists DEF Ask, RetrievalAssumption

\* A document that is not there ends the search of it.
LEMMA FindDocumentKeeps ==
    ASSUME RetrievalAssumption, RetrievalInv, FindDocument
    PROVE  RetrievalInv'
  <1>1. search.pc = "scoping" /\ search \in Search /\ search.ranked = << >>
        /\ search.shown <= search.sources /\ search.sources <= RerankTopK
    BY DEF FindDocument, RetrievalInv, SearchTyped, RankedIsBounded, SourcesAreShown
  <1>2. search' = [search EXCEPT !.pc = "vector"] \/ search' = NoSearch
    BY DEF FindDocument
  <1>3. CASE search' = [search EXCEPT !.pc = "vector"]
    <2>1. /\ search' \in Search /\ search'.pc = "vector" /\ search'.ranked = << >>
          /\ search'.sources = search.sources /\ search'.shown = search.shown
      BY <1>1, <1>3 DEF Search, SearchPc
    <2>2. SourcesAreShown' /\ search.shown <= RerankTopK
      BY <1>1, <2>1 DEF SourcesAreShown, RetrievalInv, SearchTyped
    <2> QED BY <1>1, <2>1, <2>2, StepWithoutLists DEF FindDocument
  <1>4. CASE search' = NoSearch
    <2>1. /\ search' \in Search /\ search'.pc = "idle" /\ search'.ranked = << >>
          /\ search'.sources = 0 /\ search'.shown = 0
      BY <1>4, NoSearchIsTyped DEF NoSearch
    <2>2. SourcesAreShown'
      BY <2>1 DEF SourcesAreShown
    <2> QED BY <2>1, <2>2, StepWithoutLists DEF FindDocument, RetrievalAssumption
  <1> QED BY <1>2, <1>3, <1>4

\* The first search of the database: its list is of the rows as they are.
LEMMA SearchVectorKeeps ==
    ASSUME RetrievalAssumption, RetrievalInv, SearchVector
    PROVE  RetrievalInv'
  <1>1. PICK list \in Rankings :
          search' = [search EXCEPT !.pc = "keyword",
                                   !.vector = IF search.method = "keyword" THEN << >> ELSE list]
    BY DEF SearchVector
  <1> DEFINE found == IF search.method = "keyword" THEN << >> ELSE list
  <1>2. search.pc = "vector" /\ search \in Search /\ search.ranked = << >>
        /\ search.shown <= search.sources /\ search.sources <= RerankTopK
        /\ search.shown <= RerankTopK
    BY DEF SearchVector, RetrievalInv, SearchTyped, RankedIsBounded, SourcesAreShown
  <1>3. ListFrom(list, rows)
    BY RankingsAreLists DEF RetrievalInv
  <1>4. ListFrom(found, rows)
    BY <1>3 DEF ListFrom
  <1>5. found \in Seq(Chunks) /\ NoRepeats(found)
    BY <1>4, ListsHaveNoRepeats DEF RetrievalInv
  <1>6. \A i \in DOMAIN found : found[i] \in rows
    BY <1>4 DEF ListFrom
  <1>7. search' = [search EXCEPT !.pc = "keyword", !.vector = found]
    BY <1>1
  <1> HIDE DEF found
  <1>8. /\ search' \in Search /\ search'.pc = "keyword" /\ search'.ranked = << >>
        /\ search'.vector = found
        /\ search'.sources = search.sources /\ search'.shown = search.shown
    BY <1>2, <1>5, <1>7 DEF Search, SearchPc
  <1>9. UNCHANGED <<indexed, rows>>
    BY DEF SearchVector
  <1>10. SearchTyped' /\ OneGeneration' /\ SourcesAreShown'
    BY <1>2, <1>8, <1>9 DEF RetrievalInv, SearchTyped, OneGeneration, SourcesAreShown
  <1>11. FoundIsCurrent'
    BY <1>5, <1>6, <1>8, <1>9 DEF RetrievalInv, OneGeneration, FoundIsCurrent, NoRepeats
  <1> QED
    BY <1>8, <1>10, <1>11 DEF RetrievalInv, ListsAgree, RankedIsBounded,
       PassagesRepeatByReindexOnly

\* The second search: what it has of a passage that the first one found is the same
\* chunk, or its document moved.
LEMMA SearchKeywordKeeps ==
    ASSUME RetrievalAssumption, RetrievalInv, SearchKeyword
    PROVE  RetrievalInv'
  <1>1. PICK list \in Rankings :
          search' = [search EXCEPT !.pc = "fusing", !.scope = {},
                                   !.keyword = IF search.method = "vector" THEN << >> ELSE list]
    BY DEF SearchKeyword
  <1> DEFINE found == IF search.method = "vector" THEN << >> ELSE list
  <1>2. search.pc = "keyword" /\ search \in Search /\ search.ranked = << >>
        /\ search.shown <= search.sources /\ search.sources <= RerankTopK
        /\ search.shown <= RerankTopK
    BY DEF SearchKeyword, RetrievalInv, SearchTyped, RankedIsBounded, SourcesAreShown
  <1>3. ListFrom(list, rows)
    BY RankingsAreLists DEF RetrievalInv
  <1>4. ListFrom(found, rows)
    BY <1>3 DEF ListFrom
  <1>5. found \in Seq(Chunks) /\ NoRepeats(found)
    BY <1>4, ListsHaveNoRepeats DEF RetrievalInv
  <1>6. \A i \in DOMAIN found : found[i] \in rows
    BY <1>4 DEF ListFrom
  <1>7. search' = [search EXCEPT !.pc = "fusing", !.scope = {}, !.keyword = found]
    BY <1>1
  <1> HIDE DEF found
  <1>8. /\ search' \in Search /\ search'.pc = "fusing" /\ search'.ranked = << >>
        /\ search'.vector = search.vector /\ search'.keyword = found
        /\ search'.moved = search.moved
        /\ search'.sources = search.sources /\ search'.shown = search.shown
    BY <1>2, <1>5, <1>7 DEF Search, SearchPc
  <1>9. UNCHANGED <<indexed, rows>>
    BY DEF SearchKeyword
  <1>10. SearchTyped' /\ OneGeneration' /\ SourcesAreShown'
    BY <1>2, <1>8, <1>9 DEF RetrievalInv, SearchTyped, OneGeneration, SourcesAreShown
  <1>11. ASSUME NEW i \in DOMAIN search.vector, NEW j \in DOMAIN found,
                SamePassage(search.vector[i], found[j])
         PROVE  search.vector[i] = found[j] \/ search.vector[i][1] \in search.moved
    <2>1. search.vector[i] \in Chunks /\ found[j] \in Chunks /\ found[j] \in rows
      BY <1>2, <1>5, <1>6 DEF Search
    <2>2. search.vector[i][3] = found[j][3] \/ found[j][1] \in search.moved
      BY <1>2, <1>11, <2>1 DEF RetrievalInv, FoundIsCurrent, SamePassage
    <2>3. \A c, d \in Chunks : c[1] = d[1] /\ c[2] = d[2] /\ c[3] = d[3] => c = d
      BY DEF Chunks
    <2> QED BY <1>11, <2>1, <2>2, <2>3 DEF SamePassage
  <1>12. ListsAgree'
    BY <1>2, <1>5, <1>8, <1>11 DEF RetrievalInv, FoundIsCurrent, ListsAgree, NoRepeats
  <1> QED
    BY <1>8, <1>10, <1>12 DEF RetrievalInv, FoundIsCurrent, RankedIsBounded,
       PassagesRepeatByReindexOnly

\* A passage is twice in the list only if its document moved.
RepeatsOnlyMoved(list, moved) ==
    \A i, j \in DOMAIN list : i # j /\ SamePassage(list[i], list[j]) => list[i][1] \in moved

\* The fusion of two lists: what only one of them has is there once, and what both
\* have is recognised, unless it moved.
LEMMA FusionsRepeatOnlyMoved ==
    ASSUME RetrievalAssumption, RetrievalInv, search.pc = "fusing", NEW list \in Fusions
    PROVE  list \in Seq(Chunks) /\ RepeatsOnlyMoved(list, search.moved)
  <1> DEFINE found == ToSet(search.vector) \union ToSet(search.keyword)
  <1>1. search.vector \in Seq(Chunks) /\ search.keyword \in Seq(Chunks)
    BY DEF RetrievalInv, SearchTyped, Search
  <1>2. found \subseteq Chunks
    BY <1>1 DEF ToSet
  <1>3. IsFiniteSet(found)
    BY <1>2, ChunksAreFinite, FS_Subset
  <1>4. PICK p \in SetToSeqs(found) : list = Take(p, SearchTopK)
    BY DEF Fusions
  <1>5. \A c \in found : (\E a \in DOMAIN search.vector : c = search.vector[a])
                         \/ (\E b \in DOMAIN search.keyword : c = search.keyword[b])
    BY DEF ToSet
  <1> HIDE DEF found
  <1>6. ListFrom(list, found)
    BY <1>3, <1>4, PermutationsAreLists, TakeIsList DEF RetrievalAssumption
  <1>7. list \in Seq(Chunks) /\ \A i \in DOMAIN list : list[i] \in found
    BY <1>2, <1>6 DEF ListFrom
  <1>8. ASSUME NEW c \in found, NEW d \in found, c # d, SamePassage(c, d)
        PROVE  c[1] \in search.moved
    <2>1. /\ NoRepeats(search.vector) /\ NoRepeats(search.keyword)
          /\ \A i \in DOMAIN search.vector, j \in DOMAIN search.keyword :
                SamePassage(search.vector[i], search.keyword[j]) =>
                   search.vector[i] = search.keyword[j] \/ search.vector[i][1] \in search.moved
      BY DEF RetrievalInv, ListsAgree
    <2>2. SamePassage(d, c) /\ c[1] = d[1]
      BY <1>8 DEF SamePassage
    <2>3. CASE (\E a \in DOMAIN search.vector : c = search.vector[a])
               /\ (\E a \in DOMAIN search.vector : d = search.vector[a])
      BY <1>8, <2>1, <2>3 DEF NoRepeats
    <2>4. CASE (\E b \in DOMAIN search.keyword : c = search.keyword[b])
               /\ (\E b \in DOMAIN search.keyword : d = search.keyword[b])
      BY <1>8, <2>1, <2>4 DEF NoRepeats
    <2>5. CASE (\E a \in DOMAIN search.vector : c = search.vector[a])
               /\ (\E b \in DOMAIN search.keyword : d = search.keyword[b])
      BY <1>8, <2>1, <2>5
    <2>6. CASE (\E b \in DOMAIN search.keyword : c = search.keyword[b])
               /\ (\E a \in DOMAIN search.vector : d = search.vector[a])
      BY <1>8, <2>1, <2>2, <2>6
    <2> QED BY <1>5, <2>3, <2>4, <2>5, <2>6
  <1>9. \A i, j \in DOMAIN list : i # j => list[i] # list[j]
    BY <1>6 DEF ListFrom
  <1> QED BY <1>7, <1>8, <1>9 DEF RepeatsOnlyMoved

\* What is fused repeats a passage only if its document moved.
LEMMA FuseKeeps ==
    ASSUME RetrievalAssumption, RetrievalInv, Fuse
    PROVE  RetrievalInv'
  <1>1. PICK list : /\ \/ list \in Fusions
                       \/ list = search.vector
                       \/ list = search.keyword
                    /\ search' = [search EXCEPT !.pc = "fused", !.ranked = list]
    BY DEF Fuse
  <1>2. search.pc = "fusing" /\ search \in Search
        /\ search.shown <= search.sources /\ search.sources <= RerankTopK
        /\ search.shown <= RerankTopK
    BY DEF Fuse, RetrievalInv, SearchTyped, SourcesAreShown
  <1>3. list \in Seq(Chunks) /\ RepeatsOnlyMoved(list, search.moved)
    <2>1. CASE list \in Fusions
      BY <1>2, <2>1, FusionsRepeatOnlyMoved
    <2>2. CASE list = search.vector
      BY <1>2, <2>2 DEF Search, RetrievalInv, ListsAgree, NoRepeats, RepeatsOnlyMoved
    <2>3. CASE list = search.keyword
      BY <1>2, <2>3 DEF Search, RetrievalInv, ListsAgree, NoRepeats, RepeatsOnlyMoved
    <2> QED BY <1>1, <2>1, <2>2, <2>3
  <1>4. /\ search' \in Search /\ search'.pc = "fused" /\ search'.ranked = list
        /\ search'.moved = search.moved
        /\ search'.sources = search.sources /\ search'.shown = search.shown
    BY <1>1, <1>2, <1>3 DEF Search, SearchPc
  <1>5. UNCHANGED <<indexed, rows>>
    BY DEF Fuse
  <1>6. SearchTyped' /\ OneGeneration' /\ SourcesAreShown'
    BY <1>2, <1>4, <1>5 DEF RetrievalInv, SearchTyped, OneGeneration, SourcesAreShown
  <1>7. PassagesRepeatByReindexOnly'
    BY <1>3, <1>4 DEF PassagesRepeatByReindexOnly, RepeatsOnlyMoved, SamePassage
  <1> QED
    BY <1>4, <1>6, <1>7 DEF RetrievalInv, FoundIsCurrent, ListsAgree, RankedIsBounded

\* Another order, and fewer chunks, have no new repetitions.
LEMMA RerankKeeps ==
    ASSUME RetrievalAssumption, RetrievalInv, Rerank
    PROVE  RetrievalInv'
  <1> DEFINE S == ToSet(search.ranked)
  <1>1. PICK p \in SetToSeqs(S) :
          search' = [NoSearch EXCEPT !.pc = "packing", !.caller = search.caller,
                                     !.moved = search.moved, !.ranked = Take(p, RerankTopK)]
    BY DEF Rerank
  <1> DEFINE list == Take(p, RerankTopK)
  <1>2. search \in Search /\ search.ranked \in Seq(Chunks)
    BY DEF RetrievalInv, SearchTyped, Search
  <1>3. S \subseteq Chunks /\ \A c \in S : \E a \in DOMAIN search.ranked : c = search.ranked[a]
    BY <1>2 DEF ToSet
  <1>4. IsFiniteSet(S)
    BY <1>3, ChunksAreFinite, FS_Subset
  <1>5. search' = [NoSearch EXCEPT !.pc = "packing", !.caller = search.caller,
                                   !.moved = search.moved, !.ranked = list]
    BY <1>1
  <1> HIDE DEF S
  <1>6. ListFrom(list, S) /\ Len(list) <= RerankTopK
    BY <1>1, <1>4, PermutationsAreLists, TakeIsList DEF RetrievalAssumption
  <1> HIDE DEF list
  <1>7. list \in Seq(Chunks) /\ \A i \in DOMAIN list : list[i] \in S
    BY <1>3, <1>6 DEF ListFrom
  <1>8. RepeatsOnlyMoved(list, search.moved)
    <2> SUFFICES ASSUME NEW i \in DOMAIN list, NEW j \in DOMAIN list, i # j,
                        SamePassage(list[i], list[j])
                 PROVE  list[i][1] \in search.moved
      BY DEF RepeatsOnlyMoved
    <2>1. list[i] # list[j]
      BY <1>6 DEF ListFrom
    <2>2. PICK a \in DOMAIN search.ranked : list[i] = search.ranked[a]
      BY <1>3, <1>7
    <2>3. PICK b \in DOMAIN search.ranked : list[j] = search.ranked[b]
      BY <1>3, <1>7
    <2> QED BY <2>1, <2>2, <2>3 DEF RetrievalInv, PassagesRepeatByReindexOnly, SamePassage
  <1>9. /\ search' \in Search /\ search'.pc = "packing" /\ search'.ranked = list
        /\ search'.moved = search.moved /\ search'.sources = 0 /\ search'.shown = 0
    <2>1. search.caller \in {"chat", "agent"} /\ search.moved \in SUBSET Docs
      BY <1>2 DEF Search
    <2> QED BY <1>5, <1>7, <2>1, NoSearchIsTyped DEF NoSearch, Search, SearchPc
  <1>10. UNCHANGED <<indexed, rows>>
    BY DEF Rerank
  <1>11. SearchTyped' /\ OneGeneration' /\ SourcesAreShown'
    BY <1>9, <1>10 DEF RetrievalInv, SearchTyped, OneGeneration, SourcesAreShown,
       RetrievalAssumption
  <1>12. PassagesRepeatByReindexOnly'
    BY <1>8, <1>9 DEF PassagesRepeatByReindexOnly, RepeatsOnlyMoved, SamePassage
  <1> QED
    BY <1>6, <1>9, <1>11, <1>12 DEF RetrievalInv, FoundIsCurrent, ListsAgree, RankedIsBounded

\* The bounds of the agents' tools leave room for every reranked chunk, so the sources
\* are all the blocks of the bundle, and what the prompt shows is among them.
LEMMA PackKeeps ==
    ASSUME RetrievalAssumption, RetrievalInv, Pack
    PROVE  RetrievalInv'
  <1>1. search.pc = "packing" /\ search \in Search /\ search.ranked \in Seq(Chunks)
        /\ Len(search.ranked) <= RerankTopK
    BY DEF Pack, RetrievalInv, SearchTyped, Search, RankedIsBounded
  <1>2. PICK budget \in Budgets :
          LET bundle == Packed(search.ranked, budget)
              agent == search.caller = "agent" IN
          search' = [NoSearch EXCEPT
             !.pc = "prompting", !.caller = search.caller,
             !.sources = IF agent THEN BoundSources(Cardinality(bundle)) ELSE Cardinality(bundle),
             !.shown = Cardinality({i \in bundle : agent => InPrompt(search.ranked, i)})]
    BY DEF Pack
  <1> DEFINE bundle == Packed(search.ranked, budget)
             inPrompt == {i \in bundle : search.caller = "agent" => InPrompt(search.ranked, i)}
             n == IF search.caller = "agent" THEN BoundSources(Cardinality(bundle))
                                             ELSE Cardinality(bundle)
             s == Cardinality(inPrompt)
  <1>3. IsFiniteSet(1..Len(search.ranked))
        /\ Cardinality(1..Len(search.ranked)) = Len(search.ranked)
    BY <1>1, FS_Interval
  <1>4. bundle \subseteq 1..Len(search.ranked) /\ inPrompt \subseteq bundle
    BY <1>1 DEF Packed
  <1>5. search' = [NoSearch EXCEPT !.pc = "prompting", !.caller = search.caller,
                                   !.sources = n, !.shown = s]
    BY <1>2
  <1> HIDE DEF bundle, inPrompt
  <1>6. IsFiniteSet(bundle) /\ Cardinality(bundle) \in Nat
        /\ Cardinality(bundle) <= Len(search.ranked)
    BY <1>3, <1>4, FS_Subset, FS_CardinalityType
  <1>7. s \in Nat /\ s <= Cardinality(bundle)
    BY <1>4, <1>6, FS_Subset, FS_CardinalityType
  <1>8. n = Cardinality(bundle)
    <2>1. Cardinality(bundle) <= MaxContextChunks /\ MaxContextChunks \in Int
      BY <1>1, <1>6 DEF RetrievalAssumption
    <2> QED BY <1>6, <2>1 DEF BoundSources
  <1> HIDE DEF n, s
  <1>9. /\ search' \in Search /\ search'.pc = "prompting" /\ search'.ranked = << >>
        /\ search'.sources = n /\ search'.shown = s
    <2>1. search.caller \in {"chat", "agent"} /\ n \in Nat
      BY <1>1, <1>6, <1>8 DEF Search
    <2> QED BY <1>5, <1>7, <2>1, NoSearchIsTyped DEF NoSearch, Search, SearchPc
  <1>10. SourcesAreShown' /\ n <= RerankTopK /\ s <= RerankTopK
    BY <1>1, <1>6, <1>7, <1>8, <1>9 DEF SourcesAreShown, RetrievalAssumption
  <1> QED BY <1>9, <1>10, StepWithoutLists DEF Pack

\* The check of the citations compares them with the sources.
LEMMA AnswerKeeps ==
    ASSUME RetrievalAssumption, RetrievalInv, Answer
    PROVE  RetrievalInv'
  <1>1. search.pc = "prompting" /\ search \in Search /\ search.ranked = << >>
        /\ search.shown <= search.sources /\ search.sources <= RerankTopK
        /\ search.shown <= RerankTopK
    BY DEF Answer, RetrievalInv, SearchTyped, RankedIsBounded, SourcesAreShown
  <1>2. PICK cited \in SUBSET (1..(RerankTopK + 1)) :
          search' = [search EXCEPT
             !.cited = cited,
             !.pc = IF /\ cited \subseteq Available
                       /\ search.caller = "agent" /\ Available # {} => cited # {}
                    THEN "accepted" ELSE "refused"]
    BY DEF Answer
  <1>3. cited \in SUBSET Nat
    BY <1>2 DEF RetrievalAssumption
  <1>4. /\ search' \in Search /\ search'.ranked = << >> /\ search'.cited = cited
        /\ search'.sources = search.sources /\ search'.shown = search.shown
        /\ search'.pc \in {"accepted", "refused"}
        /\ search'.pc = "accepted" => cited \subseteq Available
        /\ search'.pc = "refused" => cited = {} \/ ~ (cited \subseteq Available)
    BY <1>1, <1>2, <1>3 DEF Search, SearchPc
  <1>5. SourcesAreShown'
    BY <1>1, <1>4 DEF SourcesAreShown, Available
  <1> QED BY <1>1, <1>4, <1>5, StepWithoutLists DEF Answer

\* A search that is over leaves nothing behind.
LEMMA FinishSearchKeeps ==
    ASSUME RetrievalAssumption, RetrievalInv, FinishSearch
    PROVE  RetrievalInv'
  <1>1. /\ search' \in Search /\ search'.pc = "idle" /\ search'.ranked = << >>
        /\ search'.sources = 0 /\ search'.shown = 0
    BY NoSearchIsTyped DEF FinishSearch, NoSearch
  <1>2. SourcesAreShown'
    BY <1>1 DEF SourcesAreShown
  <1> QED BY <1>1, <1>2, StepWithoutLists DEF FinishSearch, RetrievalAssumption

-----------------------------------------------------------------------------
(* The invariant *)

\* Nothing has been searched, and every document is indexed once.
LEMMA RetrievalStarts ==
    ASSUME RetrievalAssumption, RetrievalInit
    PROVE  RetrievalInv
  <1>1. search \in Search /\ search.pc = "idle" /\ search.ranked = << >>
        /\ search.sources = 0 /\ search.shown = 0
    BY NoSearchIsTyped DEF RetrievalInit, NoSearch
  <1>2. rows \subseteq Chunks
    BY DEF RetrievalInit, Chunks, RetrievalAssumption
  <1>3. SearchTyped
    BY <1>1, <1>2 DEF RetrievalInit, SearchTyped, RetrievalAssumption
  <1>4. OneGeneration
    <2>1. \A c \in Docs \X Passages \X {1} : c[3] = 1
      OBVIOUS
    <2> QED BY <2>1 DEF RetrievalInit, OneGeneration
  <1> QED
    BY <1>1, <1>3, <1>4 DEF RetrievalInv, FoundIsCurrent, ListsAgree, RankedIsBounded,
       PassagesRepeatByReindexOnly, SourcesAreShown

\* One lemma for each action.
LEMMA RetrievalStepKeeps ==
    ASSUME RetrievalAssumption, RetrievalInv, [RetrievalNext]_retrievalVars
    PROVE  RetrievalInv'
  <1>1. CASE UNCHANGED retrievalVars
    BY <1>1 DEF retrievalVars, RetrievalInv, SearchTyped, OneGeneration, FoundIsCurrent, ListsAgree,
       RankedIsBounded, PassagesRepeatByReindexOnly, SourcesAreShown, NoRepeats
  <1>2. ASSUME NEW d \in Docs, LeaveIndex(d) \/ Reindex(d) \/ DropDocument(d)
        PROVE  RetrievalInv'
    BY <1>2, LeaveIndexKeeps, ReindexKeeps, DropDocumentKeeps
  <1>3. CASE Ask \/ FindDocument \/ SearchVector \/ SearchKeyword
    BY <1>3, AskKeeps, FindDocumentKeeps, SearchVectorKeeps, SearchKeywordKeeps
  <1>4. CASE Fuse \/ Rerank \/ Pack \/ Answer \/ FinishSearch
    BY <1>4, FuseKeeps, RerankKeeps, PackKeeps, AnswerKeeps, FinishSearchKeeps
  <1> QED BY <1>1, <1>2, <1>3, <1>4 DEF RetrievalNext

\* What is invariant of the rows and the search that reads them.
THEOREM SearchIsConsistent == RetrievalSpec => []RetrievalInv
  <1>1. RetrievalInit => RetrievalInv
    BY RetrievalAssumption, RetrievalStarts
  <1>2. RetrievalInv /\ [RetrievalNext]_retrievalVars => RetrievalInv'
    BY RetrievalAssumption, RetrievalStepKeeps
  <1> QED BY <1>1, <1>2, PTL DEF RetrievalSpec

\* Every variable keeps its type, and no number exceeds the length of the ranked list.
THEOREM RetrievalTypeCorrect == RetrievalSpec => []RetrievalTypeOK
  <1>1. RetrievalInv => RetrievalTypeOK
    BY DEF RetrievalInv, SearchTyped, Search, RetrievalTypeOK
  <1> QED BY <1>1, SearchIsConsistent, PTL

\* Whatever is re-indexed or deleted during a search, no passage is ranked twice unless
\* its document was re-indexed between the two halves of that search.
THEOREM PassagesAlwaysRepeatByReindexOnly == RetrievalSpec => []PassagesRepeatByReindexOnly
  <1>1. RetrievalInv => PassagesRepeatByReindexOnly
    BY DEF RetrievalInv
  <1> QED BY <1>1, SearchIsConsistent, PTL

\* For every budget, every limit of the tools and every answer: a citation that is
\* accepted was shown, and an answer that cites what it was shown is accepted.
THEOREM ShownSourcesAreAlwaysCitable == RetrievalSpec => []ShownSourcesAreCitable
  <1>1. RetrievalInv => ShownSourcesAreCitable
    <2> SUFFICES ASSUME RetrievalInv
                 PROVE  ShownSourcesAreCitable
      OBVIOUS
    <2>1. search.shown \in Nat /\ search.sources \in Nat /\ SourcesAreShown
      BY DEF RetrievalInv, SearchTyped, Search
    <2>2. 1..search.shown \subseteq 1..search.sources
      BY <2>1 DEF SourcesAreShown
    <2> QED BY <2>1, <2>2 DEF SourcesAreShown, ShownSourcesAreCitable
  <1> QED BY <1>1, SearchIsConsistent, PTL

-----------------------------------------------------------------------------
(* The scores of the fusion: what a rank contributes, as a whole number *)

\* A set of natural numbers has a least one.
LEMMA LeastNatural ==
    ASSUME NEW Bad \in SUBSET Nat, Bad # {}
    PROVE  \E n \in Bad : \A m \in Bad : n <= m
  <1>1. PICK b \in Bad : TRUE
    OBVIOUS
  <1> DEFINE S == 0..b
             Starts == {T \in SUBSET S : \E m \in Bad : T = 0..m}
  <1>2. IsFiniteSet(S)
    BY FS_Interval
  <1>3. IsWellFoundedOn(StrictSubsetOrdering(S), SUBSET S)
    BY <1>2, FS_StrictSubsetOrderingWellFounded, FS_FiniteSubsetsOfFinite
  <1>4. S \in Starts
    BY <1>1
  <1>5. PICK T \in Starts : \A U \in Starts : ~ (<<U, T>> \in StrictSubsetOrdering(S))
    <2>1. Starts \subseteq SUBSET S /\ Starts # {}
      BY <1>4
    <2> HIDE DEF Starts, S
    <2> QED BY <1>3, <2>1, WFMin
  <1>6. PICK n \in Bad : T = 0..n
    BY <1>5
  <1>7. ASSUME NEW m \in Bad, m < n
        PROVE  FALSE
    <2>1. 0..m \subseteq T /\ 0..m # T
      <3>1. n \in 0..n /\ n \notin 0..m
        BY <1>7
      <3>2. \A i \in 0..m : i \in 0..n
        BY <1>7
      <3> QED BY <1>6, <3>1, <3>2
    <2>2. 0..m \in Starts
      BY <1>5, <2>1
    <2> QED BY <1>5, <2>1, <2>2 DEF StrictSubsetOrdering
  <1> QED BY <1>6, <1>7

\* The recursion of RrfScale.
MultipliesUp(g, n) ==
    g = [r \in 0..n |-> IF r = 0 THEN 1 ELSE g[r - 1] * (RrfK + r)]

\* It has a solution for every length of the lists.
LEMMA ProductExists ==
    ASSUME NEW n \in Nat
    PROVE  \E g : MultipliesUp(g, n)
  <1> DEFINE Bad == {m \in Nat : ~ \E g : MultipliesUp(g, m)}
  <1> SUFFICES ASSUME Bad # {} PROVE FALSE
    OBVIOUS
  <1>1. PICK m \in Bad : \A l \in Bad : m <= l
    <2> HIDE DEF Bad
    <2>1. Bad \in SUBSET Nat
      BY DEF Bad
    <2> QED BY <2>1, LeastNatural
  <1>2. m # 0
    <2> DEFINE one == [r \in 0..0 |-> 1]
    <2>1. MultipliesUp(one, 0)
      <3>1. \A r \in 0..0 : r = 0
        OBVIOUS
      <3> QED BY <3>1 DEF MultipliesUp
    <2> HIDE DEF one
    <2> QED BY <1>1, <2>1
  <1>3. m - 1 \in Nat /\ m - 1 \notin Bad
    BY <1>1, <1>2
  <1>4. PICK h : MultipliesUp(h, m - 1)
    BY <1>3
  <1> DEFINE g == [r \in 0..m |-> IF r = m THEN h[m - 1] * (RrfK + m) ELSE h[r]]
  <1>5. \A r \in 0..(m - 1) : h[r] = IF r = 0 THEN 1 ELSE h[r - 1] * (RrfK + r)
    BY <1>4 DEF MultipliesUp
  <1>6. \A r \in 0..m : g[r] = IF r = 0 THEN 1 ELSE g[r - 1] * (RrfK + r)
    <2> SUFFICES ASSUME NEW r \in 0..m
                 PROVE  g[r] = IF r = 0 THEN 1 ELSE g[r - 1] * (RrfK + r)
      OBVIOUS
    <2>1. CASE r = m
      BY <1>2, <2>1
    <2>2. CASE r = 0
      BY <1>2, <1>5, <2>2
    <2>3. CASE r # m /\ r # 0
      <3>1. r \in 0..(m - 1) /\ r - 1 \in 0..m /\ r - 1 # m
        BY <2>3
      <3> QED BY <1>5, <2>3, <3>1
    <2> QED BY <2>1, <2>2, <2>3
  <1>7. g = [r \in 0..m |-> g[r]]
    OBVIOUS
  <1>8. MultipliesUp(g, m)
    <2> HIDE DEF g
    <2> QED BY <1>6, <1>7 DEF MultipliesUp
  <1> HIDE DEF g
  <1> QED BY <1>1, <1>8

\* Factors change places.
LEMMA FactorsCommute ==
    ASSUME NEW a \in Nat, NEW b \in Nat, NEW c \in Nat
    PROVE  (a * b) * c = (a * c) * b
  OBVIOUS

\* Positive factors have a positive product.
LEMMA ProductIsPositive ==
    ASSUME NEW a \in Nat \ {0}, NEW b \in Nat \ {0}
    PROVE  a * b \in Nat \ {0}
  <1>1. a * b = (a - 1) * b + b /\ a - 1 \in Nat
    OBVIOUS
  <1>2. (a - 1) * b \in Nat
    BY <1>1
  <1> QED BY <1>1, <1>2

\* A value of the product: every factor so far divides it.
Factored(g, r) ==
    /\ g[r] \in Nat \ {0}
    /\ \A s \in 1..r : \E q \in Nat \ {0} : g[r] = q * (RrfK + s)

\* Its values are positive, and every factor divides them.
LEMMA FactorsDivide ==
    ASSUME RrfK \in Nat, NEW n \in Nat, NEW g, MultipliesUp(g, n)
    PROVE  \A r \in 0..n : Factored(g, r)
  <1> DEFINE Bad == {r \in 0..n : ~ Factored(g, r)}
  <1> SUFFICES ASSUME Bad # {} PROVE FALSE
    OBVIOUS
  <1>1. PICK r \in Bad : \A l \in Bad : r <= l
    <2> HIDE DEF Bad
    <2>1. Bad \in SUBSET Nat
      BY DEF Bad
    <2> QED BY <2>1, LeastNatural
  <1>2. r \in 0..n /\ ~ Factored(g, r)
    BY <1>1
  <1>3. r # 0
    <2>1. g[0] = 1
      BY DEF MultipliesUp
    <2>2. \A s \in 1..0 : FALSE
      OBVIOUS
    <2> QED BY <1>2, <2>1, <2>2 DEF Factored
  <1>4. r - 1 \in 0..n
    BY <1>2, <1>3
  <1>5. Factored(g, r - 1)
    <2>1. r - 1 \notin Bad
      BY <1>1, <1>2
    <2> QED BY <1>4, <2>1
  <1>6. g[r] = g[r - 1] * (RrfK + r) /\ RrfK + r \in Nat \ {0}
    BY <1>2, <1>3 DEF MultipliesUp
  <1>7. g[r] \in Nat \ {0}
    BY <1>5, <1>6, ProductIsPositive DEF Factored
  <1>8. ASSUME NEW s \in 1..r
        PROVE  \E q \in Nat \ {0} : g[r] = q * (RrfK + s)
    <2>1. CASE s = r
      BY <1>5, <1>6, <2>1 DEF Factored
    <2>2. CASE s # r
      <3>1. s \in 1..(r - 1) /\ RrfK + s \in Nat
        BY <1>2, <2>2
      <3>2. PICK q \in Nat \ {0} : g[r - 1] = q * (RrfK + s)
        BY <1>5, <3>1 DEF Factored
      <3>3. g[r] = (q * (RrfK + r)) * (RrfK + s)
        BY <1>6, <3>1, <3>2, FactorsCommute
      <3>4. q * (RrfK + r) \in Nat \ {0}
        BY <1>6, <3>2, ProductIsPositive
      <3> QED BY <3>3, <3>4
    <2> QED BY <2>1, <2>2
  <1> QED BY <1>2, <1>7, <1>8 DEF Factored

\* What a rank contributes is exact: a share of the scale, not rounded.
LEMMA SharesAreExact ==
    ASSUME RetrievalAssumption, NEW s \in 1..SearchTopK
    PROVE  /\ RrfScale \div (RrfK + s) \in Nat \ {0}
           /\ RrfScale = (RrfScale \div (RrfK + s)) * (RrfK + s)
  <1> DEFINE g == CHOOSE g : MultipliesUp(g, SearchTopK)
  <1>1. SearchTopK \in Nat \ {0} /\ RrfK \in Nat \ {0}
    BY DEF RetrievalAssumption
  <1>2. MultipliesUp(g, SearchTopK)
    BY <1>1, ProductExists
  <1>3. RrfScale = g[SearchTopK]
    BY DEF RrfScale, MultipliesUp
  <1> HIDE DEF g
  <1>4. PICK q \in Nat \ {0} : RrfScale = q * (RrfK + s)
    <2>1. Factored(g, SearchTopK)
      BY <1>1, <1>2, FactorsDivide
    <2> QED BY <1>3, <2>1 DEF Factored
  <1>5. ASSUME NEW a \in Nat \ {0}, NEW d \in Nat \ {0}
        PROVE  (a * d) \div d = a
    OBVIOUS
  <1>6. RrfK + s \in Nat \ {0}
    BY <1>1
  <1>7. RrfScale \div (RrfK + s) = q
    BY <1>4, <1>5, <1>6
  <1> QED BY <1>4, <1>7

\* With weights that are equal, and a constant that is not small against the length of
\* the lists, two ranks count more than any one.
AgreementCounts ==
    /\ VectorWeight = KeywordWeight /\ VectorWeight # 0
    /\ SearchTopK <= RrfK + 1

\* The arithmetic of it: the shares a and b of two ranks, and c of one.
LEMMA TwoSharesBeatOne ==
    ASSUME NEW k \in Nat \ {0}, NEW n \in Nat \ {0}, n <= k + 1,
           NEW s \in 1..n, NEW u \in 1..n,
           NEW a \in Nat \ {0}, NEW c \in Nat \ {0}, a * (k + s) = c * (k + u)
    PROVE  c < 2 * a
  <1>1. k + s < 2 * (k + u) /\ k + u \in Nat \ {0} /\ k + s \in Nat
    OBVIOUS
  <1>2. a * (k + s) < a * (2 * (k + u))
    <2>1. 2 * (k + u) = (k + s) + (2 * (k + u) - (k + s)) /\ 2 * (k + u) - (k + s) \in Nat \ {0}
      BY <1>1
    <2>2. a * (2 * (k + u) - (k + s)) \in Nat \ {0}
      BY <2>1, ProductIsPositive
    <2>3. a * (2 * (k + u)) = a * (k + s) + a * (2 * (k + u) - (k + s))
      BY <2>1
    <2> QED BY <1>1, <2>2, <2>3
  <1>3. c * (k + u) < (2 * a) * (k + u)
    BY <1>1, <1>2
  <1>4. ASSUME NEW m \in Nat \ {0}, c >= 2 * a
        PROVE  c * m >= (2 * a) * m
    <2>1. c = 2 * a + (c - 2 * a) /\ c - 2 * a \in Nat
      BY <1>4
    <2>2. c * m = (2 * a) * m + (c - 2 * a) * m
      BY <2>1
    <2>3. (c - 2 * a) * m \in Nat
      BY <2>1
    <2> QED BY <2>1, <2>2, <2>3
  <1> QED BY <1>1, <1>3, <1>4

\* A common weight does not change the order.
LEMMA WeightsKeepOrder ==
    ASSUME NEW w \in Nat \ {0}, NEW a \in Nat \ {0}, NEW b \in Nat \ {0}, NEW c \in Nat \ {0},
           c < 2 * a, c < 2 * b
    PROVE  w * c < w * a + w * b
  <1>1. a + b - c \in Nat \ {0}
    OBVIOUS
  <1>2. w * (a + b - c) \in Nat \ {0}
    BY <1>1, ProductIsPositive
  <1>3. w * a + w * b = w * c + w * (a + b - c)
    OBVIOUS
  <1> QED BY <1>2, <1>3

\* A chunk that is in a list has a rank there, and the share of that rank.
LEMMA ContributionIsShare ==
    ASSUME RetrievalAssumption, NEW list \in Seq(Chunks), Len(list) <= SearchTopK,
           NEW weight, NEW c
    PROVE  /\ c \in ToSet(list) =>
                 \E s \in 1..SearchTopK :
                    Contribution(weight, list, c) = weight * (RrfScale \div (RrfK + s))
           /\ c \notin ToSet(list) => Contribution(weight, list, c) = 0
  <1>1. c \in ToSet(list) <=> \E r \in DOMAIN list : list[r] = c
    BY DEF ToSet
  <1>2. DOMAIN list \subseteq 1..SearchTopK
    BY DEF RetrievalAssumption
  <1>3. ASSUME c \in ToSet(list)
        PROVE  (CHOOSE r \in DOMAIN list : list[r] = c) \in 1..SearchTopK
    BY <1>1, <1>2, <1>3
  <1> QED BY <1>1, <1>3 DEF Contribution

\* A score is a natural number.
LEMMA ScoresAreNumbers ==
    ASSUME RetrievalAssumption, NEW c,
           search.vector \in Seq(Chunks), Len(search.vector) <= SearchTopK,
           search.keyword \in Seq(Chunks), Len(search.keyword) <= SearchTopK
    PROVE  RrfScore(c) \in Nat
  <1>1. \A s \in 1..SearchTopK : RrfScale \div (RrfK + s) \in Nat
    BY SharesAreExact
  <1>2. ASSUME NEW list \in Seq(Chunks), Len(list) <= SearchTopK, NEW weight \in Nat
        PROVE  Contribution(weight, list, c) \in Nat
    <2>1. CASE c \in ToSet(list)
      <3>1. PICK s \in 1..SearchTopK :
               Contribution(weight, list, c) = weight * (RrfScale \div (RrfK + s))
        BY <1>2, <2>1, ContributionIsShare
      <3> DEFINE share == RrfScale \div (RrfK + s)
      <3>2. share \in Nat
        BY <1>1
      <3>3. Contribution(weight, list, c) = weight * share
        BY <3>1
      <3> HIDE DEF share
      <3> QED BY <3>2, <3>3
    <2>2. CASE c \notin ToSet(list)
      BY <1>2, <2>2, ContributionIsShare
    <2> QED BY <2>1, <2>2
  <1>3. VectorWeight \in Nat /\ KeywordWeight \in Nat
    BY DEF RetrievalAssumption
  <1>4. Contribution(VectorWeight, search.vector, c) \in Nat
        /\ Contribution(KeywordWeight, search.keyword, c) \in Nat
    BY <1>2, <1>3
  <1> QED BY <1>4 DEF RrfScore

\* The score of a chunk that both channels have found exceeds that of a chunk that one
\* has found.
LEMMA AgreementScoresHigher ==
    ASSUME RetrievalAssumption, AgreementCounts,
           search.vector \in Seq(Chunks), Len(search.vector) <= SearchTopK,
           search.keyword \in Seq(Chunks), Len(search.keyword) <= SearchTopK,
           NEW c, c \in ToSet(search.vector), c \in ToSet(search.keyword),
           NEW d, d \notin ToSet(search.vector) \intersect ToSet(search.keyword),
           d \in ToSet(search.vector) \union ToSet(search.keyword)
    PROVE  RrfScore(d) < RrfScore(c)
  <1> DEFINE share(s) == RrfScale \div (RrfK + s)
             w == VectorWeight
  <1>1. w \in Nat \ {0} /\ KeywordWeight = w /\ SearchTopK \in Nat \ {0} /\ RrfK \in Nat \ {0}
        /\ SearchTopK <= RrfK + 1
    BY DEF RetrievalAssumption, AgreementCounts
  <1>2. \A s \in 1..SearchTopK : share(s) \in Nat \ {0} /\ RrfScale = share(s) * (RrfK + s)
    BY SharesAreExact
  <1>3. PICK s \in 1..SearchTopK : Contribution(w, search.vector, c) = w * share(s)
    BY ContributionIsShare
  <1>4. PICK t \in 1..SearchTopK : Contribution(w, search.keyword, c) = w * share(t)
    BY ContributionIsShare
  <1>5. PICK u \in 1..SearchTopK :
           Contribution(w, search.vector, d) + Contribution(w, search.keyword, d) = w * share(u)
    <2>1. CASE d \in ToSet(search.vector)
      <3>1. Contribution(w, search.keyword, d) = 0
        BY <2>1, ContributionIsShare
      <3>2. PICK u \in 1..SearchTopK : Contribution(w, search.vector, d) = w * share(u)
        BY <2>1, ContributionIsShare
      <3>3. w * share(u) \in Nat
        <4> HIDE DEF share, w
        <4> QED BY <1>1, <1>2
      <3> HIDE DEF share, w
      <3> QED BY <3>1, <3>2, <3>3
    <2>2. CASE d \notin ToSet(search.vector)
      <3>1. Contribution(w, search.vector, d) = 0 /\ d \in ToSet(search.keyword)
        BY <2>2, ContributionIsShare
      <3>2. PICK u \in 1..SearchTopK : Contribution(w, search.keyword, d) = w * share(u)
        BY <3>1, ContributionIsShare
      <3>3. w * share(u) \in Nat
        <4> HIDE DEF share, w
        <4> QED BY <1>1, <1>2
      <3> HIDE DEF share, w
      <3> QED BY <3>1, <3>2, <3>3
    <2> QED BY <2>1, <2>2
  <1>6. RrfScore(c) = w * share(s) + w * share(t) /\ RrfScore(d) = w * share(u)
    BY <1>1, <1>3, <1>4, <1>5 DEF RrfScore
  <1> HIDE DEF share, w
  <1>7. share(s) \in Nat \ {0} /\ share(t) \in Nat \ {0} /\ share(u) \in Nat \ {0}
        /\ share(s) * (RrfK + s) = share(u) * (RrfK + u)
        /\ share(t) * (RrfK + t) = share(u) * (RrfK + u)
    BY <1>2
  <1>8. share(u) < 2 * share(s) /\ share(u) < 2 * share(t)
    BY <1>1, <1>7, TwoSharesBeatOne
  <1>9. w * share(u) < w * share(s) + w * share(t)
    BY <1>1, <1>7, <1>8, WeightsKeepOrder
  <1> QED BY <1>6, <1>9

-----------------------------------------------------------------------------
(* The fused list begins with what both channels found *)

\* No list that is fused is longer than was asked for.
ListsAreBounded ==
    /\ search.pc \in {"keyword", "fusing"} => Len(search.vector) <= SearchTopK
    /\ search.pc = "fusing" => Len(search.keyword) <= SearchTopK

AgreementInv == ListsAreBounded /\ AgreementComesFirst

\* A step that leaves the lists alone, and one that leaves the fusion behind.
LEMMA OtherStepKeepsAgreement ==
    ASSUME AgreementInv,
           \/ /\ search'.pc = search.pc /\ search'.vector = search.vector
              /\ search'.keyword = search.keyword /\ search'.ranked = search.ranked
              /\ search'.method = search.method
           \/ search'.pc \notin {"keyword", "fusing", "fused"}
    PROVE  AgreementInv'
  BY DEF AgreementInv, ListsAreBounded, AgreementComesFirst

\* The rankings of the database are as long as was asked for.
LEMMA RankingsAreBounded ==
    ASSUME RetrievalAssumption, SearchTyped, NEW list \in Rankings
    PROVE  Len(list) <= SearchTopK
  <1>1. PICK p \in SetToAllKPermutations(Searchable) : list = Take(p, SearchTopK)
    BY DEF Rankings
  <1>2. PICK s \in SUBSET Searchable : p \in SetToSeqs(s)
    BY DEF SetToAllKPermutations
  <1>3. IsFiniteSet(s)
    BY ChunksAreFinite, FS_Subset DEF SearchTyped, Searchable
  <1> QED BY <1>1, <1>2, <1>3, PermutationsAreLists, TakeIsList DEF RetrievalAssumption

\* The empty list of a method that does not use a channel is bounded, too.
LEMMA SearchesKeepAgreement ==
    ASSUME RetrievalAssumption, RetrievalInv, AgreementInv, SearchVector \/ SearchKeyword
    PROVE  AgreementInv'
  <1>1. search \in Search /\ SearchTyped /\ SearchTopK \in Nat
    BY DEF RetrievalInv, SearchTyped, RetrievalAssumption
  <1>2. CASE SearchVector
    <2>1. PICK list \in Rankings :
             search' = [search EXCEPT !.pc = "keyword",
                                      !.vector = IF search.method = "keyword" THEN << >> ELSE list]
      BY <1>2 DEF SearchVector
    <2>2. Len(list) <= SearchTopK
      BY <1>1, RankingsAreBounded
    <2>3. search'.pc = "keyword"
          /\ (search'.vector = << >> \/ search'.vector = list)
      BY <1>1, <2>1 DEF Search
    <2> QED BY <1>1, <2>2, <2>3 DEF AgreementInv, ListsAreBounded, AgreementComesFirst
  <1>3. CASE SearchKeyword
    <2>1. PICK list \in Rankings :
             search' = [search EXCEPT !.pc = "fusing", !.scope = {},
                                      !.keyword = IF search.method = "vector" THEN << >> ELSE list]
      BY <1>3 DEF SearchKeyword
    <2>2. Len(list) <= SearchTopK
      BY <1>1, RankingsAreBounded
    <2>3. search'.pc = "fusing" /\ search'.vector = search.vector
          /\ (search'.keyword = << >> \/ search'.keyword = list)
      BY <1>1, <2>1 DEF Search
    <2>4. Len(search.vector) <= SearchTopK
      BY <1>3 DEF SearchKeyword, AgreementInv, ListsAreBounded
    <2> QED BY <1>1, <2>2, <2>3, <2>4 DEF AgreementInv, ListsAreBounded, AgreementComesFirst
  <1> QED BY <1>2, <1>3

\* Of two chunks of a fused list the one with the higher score comes first.
LEMMA FusionsAreSorted ==
    ASSUME RetrievalAssumption, RetrievalInv, NEW list \in Fusions
    PROVE  /\ \A i \in DOMAIN list : list[i] \in ToSet(search.vector) \union ToSet(search.keyword)
           /\ DOMAIN list \subseteq Nat
           /\ \A i, j \in DOMAIN list : i < j => RrfScore(list[i]) >= RrfScore(list[j])
  <1> DEFINE found == ToSet(search.vector) \union ToSet(search.keyword)
  <1>1. search.vector \in Seq(Chunks) /\ search.keyword \in Seq(Chunks)
    BY DEF RetrievalInv, SearchTyped, Search
  <1>2. IsFiniteSet(found)
    <2>1. found \subseteq Chunks
      BY <1>1 DEF ToSet
    <2> QED BY <2>1, ChunksAreFinite, FS_Subset
  <1>3. PICK p \in SetToSeqs(found) :
          /\ \A i, j \in DOMAIN p : i < j => RrfScore(p[i]) >= RrfScore(p[j])
          /\ list = Take(p, SearchTopK)
    BY DEF Fusions
  <1> HIDE DEF found
  <1>4. ListFrom(p, found) /\ p \in Seq(found)
    BY <1>2, PermutationsAreLists DEF ListFrom
  <1> DEFINE n == IF SearchTopK < Len(p) THEN SearchTopK ELSE Len(p)
  <1>5. n \in Nat /\ n <= Len(p)
    BY <1>4 DEF RetrievalAssumption
  <1>6. Len(list) = n /\ list \in Seq(found) /\ \A i \in 1..n : list[i] = p[i]
    <2>1. list = SubSeq(p, 1, n)
      BY <1>3 DEF Take
    <2> HIDE DEF n
    <2> QED BY <1>4, <1>5, <2>1
  <1> HIDE DEF n
  <1>7. DOMAIN list = 1..n /\ DOMAIN p = 1..Len(p) /\ 1..n \subseteq DOMAIN p /\ DOMAIN list \subseteq Nat
    BY <1>4, <1>5, <1>6
  <1>8. \A i \in DOMAIN list : list[i] \in found
    BY <1>6
  <1> QED BY <1>3, <1>6, <1>7, <1>8 DEF found

\* So what both have found is before what one has found.
LEMMA FuseKeepsAgreement ==
    ASSUME RetrievalAssumption, AgreementCounts, RetrievalInv, AgreementInv, Fuse
    PROVE  AgreementInv'
  <1>1. search.pc = "fusing" /\ search \in Search
    BY DEF Fuse, RetrievalInv, SearchTyped
  <1>2. PICK list : /\ search' = [search EXCEPT !.pc = "fused", !.ranked = list]
                    /\ search.method = "hybrid" => list \in Fusions
    BY DEF Fuse
  <1>3. /\ search'.pc = "fused" /\ search'.ranked = list /\ search'.method = search.method
        /\ search'.vector = search.vector /\ search'.keyword = search.keyword
    BY <1>1, <1>2 DEF Search
  <1>4. ASSUME search.method = "hybrid", NEW i \in DOMAIN list, NEW j \in DOMAIN list,
               list[i] \in ToSet(search.vector) \intersect ToSet(search.keyword),
               list[j] \notin ToSet(search.vector) \intersect ToSet(search.keyword)
        PROVE  i < j
    <2>1. list \in Fusions
      BY <1>2, <1>4
    <2>2. /\ search.vector \in Seq(Chunks) /\ Len(search.vector) <= SearchTopK
          /\ search.keyword \in Seq(Chunks) /\ Len(search.keyword) <= SearchTopK
      BY <1>1 DEF Search, AgreementInv, ListsAreBounded
    <2>3. list[j] \in ToSet(search.vector) \union ToSet(search.keyword)
      BY <2>1, FusionsAreSorted
    <2>4. RrfScore(list[j]) < RrfScore(list[i])
      BY <1>4, <2>2, <2>3, AgreementScoresHigher
    <2>5. i # j
      BY <1>4
    <2>6. ~ (j < i)
      <3>1. j < i => RrfScore(list[j]) >= RrfScore(list[i])
        BY <2>1, FusionsAreSorted
      <3>2. RrfScore(list[j]) \in Int /\ RrfScore(list[i]) \in Int
        BY <2>2, ScoresAreNumbers
      <3> QED BY <2>4, <3>1, <3>2
    <2>7. i \in Nat /\ j \in Nat
      BY <2>1, FusionsAreSorted
    <2> QED BY <2>5, <2>6, <2>7
  <1> QED BY <1>3, <1>4 DEF AgreementInv, ListsAreBounded, AgreementComesFirst

\* Every other action leaves the lists alone, or the fusion behind.
LEMMA StepKeepsAgreement ==
    ASSUME RetrievalAssumption, AgreementCounts, RetrievalInv, AgreementInv,
           [RetrievalNext]_retrievalVars
    PROVE  AgreementInv'
  <1>1. search \in Search
    BY DEF RetrievalInv, SearchTyped
  <1>2. CASE UNCHANGED retrievalVars
    BY <1>2, OtherStepKeepsAgreement DEF retrievalVars
  <1>3. ASSUME NEW d \in Docs, LeaveIndex(d) \/ Reindex(d) \/ DropDocument(d)
        PROVE  AgreementInv'
    <2>1. /\ search'.pc = search.pc /\ search'.vector = search.vector
          /\ search'.keyword = search.keyword /\ search'.ranked = search.ranked
          /\ search'.method = search.method
      BY <1>1, <1>3 DEF Search, LeaveIndex, Reindex, DropDocument
    <2> QED BY <2>1, OtherStepKeepsAgreement
  <1>4. CASE SearchVector \/ SearchKeyword
    BY <1>4, SearchesKeepAgreement
  <1>5. CASE Fuse
    BY <1>5, FuseKeepsAgreement
  <1>6. CASE Ask \/ FindDocument
    <2>1. Ask => search'.pc \in {"scoping", "vector"}
      BY DEF Ask, NoSearch
    <2>2. FindDocument => search'.pc \in {"vector", "idle"}
      BY <1>1 DEF Search, FindDocument, NoSearch
    <2> QED BY <1>6, <2>1, <2>2, OtherStepKeepsAgreement
  <1>7. CASE Rerank \/ Pack \/ Answer \/ FinishSearch
    <2>1. Rerank => search'.pc = "packing"
      BY DEF Rerank, NoSearch
    <2>2. Pack => search'.pc = "prompting"
      BY DEF Pack, NoSearch
    <2>3. Answer => search'.pc \in {"accepted", "refused"}
      BY <1>1 DEF Search, Answer
    <2>4. FinishSearch => search'.pc = "idle"
      BY DEF FinishSearch, NoSearch
    <2> QED BY <1>7, <2>1, <2>2, <2>3, <2>4, OtherStepKeepsAgreement
  <1> QED BY <1>2, <1>3, <1>4, <1>5, <1>6, <1>7 DEF RetrievalNext

\* With equal weights, and at most one more result per channel than the constant of the
\* fusion: whatever the channels return, a chunk that both have found is ranked before every
\* chunk that only one has found.  (Both conditions hold of the settings' defaults.)
THEOREM AgreementAlwaysComesFirst ==
    ASSUME AgreementCounts
    PROVE  RetrievalSpec => []AgreementComesFirst
  <1>1. RetrievalInit => AgreementInv
    BY DEF RetrievalInit, NoSearch, AgreementInv, ListsAreBounded, AgreementComesFirst
  <1>2. RetrievalInv /\ AgreementInv /\ [RetrievalNext]_retrievalVars => AgreementInv'
    BY AgreementCounts, RetrievalAssumption, StepKeepsAgreement
  <1>3. AgreementInv => AgreementComesFirst
    BY DEF AgreementInv
  <1> QED BY <1>1, <1>2, <1>3, SearchIsConsistent, PTL DEF RetrievalSpec
=============================================================================
