---------------------------- MODULE EvaluationGate ----------------------------
(***************************************************************************)
(* What a worker does when it executes an evaluation run: it reads the     *)
(* dataset line by line, scores the answers, compares the means with the   *)
(* thresholds, writes two reports and tells the run's outcome.  A source   *)
(* is a number, and its content one word, which is that number.  Scores    *)
(* are counted in parts of Unit, and their means in parts of Precision.    *)
(***************************************************************************)
EXTENDS Integers, FiniteSets, Sequences, SequencesExt, FiniteSetsExt

CONSTANTS
    Sources,
    MaxRetrieved,
    MaxLines,
    TopKs,      \* what EVAL_TOP_K may be
    Unit,
    Discount,   \* 1 / log2(rank + 1), rank by rank, in parts of any size
    Thresholds  \* metric |-> parts of Unit

\* EvaluationThresholds.as_dict
Metrics == {"retrieval_hit_rate", "recall_at_k", "mrr", "ndcg_at_k", "context_relevance",
            "citation_correctness", "citation_recall", "answer_relevance", "faithfulness"}

ASSUME GateAssumption ==
    /\ Sources \subseteq Nat \ {0} /\ IsFiniteSet(Sources)
    /\ MaxRetrieved \in Nat /\ MaxLines \in Nat
    /\ Unit \in Nat \ {0}
    /\ Discount \in Seq(Nat \ {0})
    /\ \A i, j \in DOMAIN Discount : i < j => Discount[i] >= Discount[j]
    /\ TopKs \subseteq DOMAIN Discount
    /\ DOMAIN Thresholds \subseteq Metrics
    /\ \A m \in DOMAIN Thresholds : Thresholds[m] \in 0..Unit

\* Sources are sorted by rank when they are read; nothing keeps one from being
\* there twice.  An example without an answer is given the expected one.  What
\* is expected has the first source, since the sources' names do not matter.
Examples ==
    LET retrieved == UNION {[1..n -> Sources] : n \in 0..MaxRetrieved}
        expected == {x \in SUBSET Sources : Min(Sources) \in x} IN
    {[expected |-> x, retrieved |-> r, cited |-> x, words |-> x] : x \in expected, r \in retrieved}
    \union
    {[expected |-> x, retrieved |-> r, cited |-> c, words |-> {Min(Sources)}] :
        x \in expected, r \in retrieved, c \in SUBSET Sources}

BlankLine == [expected |-> {}, retrieved |-> << >>, cited |-> {}, words |-> {}]
\* What the schema rejects: no object, a field missing, of the wrong type, secret.
BadLine == [BlankLine EXCEPT !.words = {0}]
Lines == Examples \union {BlankLine, BadLine}

VARIABLE
    gate \* the dataset, what has been read of it, the reports, and the outcome

gateVars == gate

GatePc == {"reading", "scoring", "reporting", "summarizing", "over"}

GateTypeOK ==
    /\ gate.pc \in GatePc
    /\ gate.read \in 0..MaxLines
    /\ ToSet(gate.examples) \subseteq Examples
    /\ gate.status \in {"none", "PASS", "FAIL"}
    /\ gate.reports \subseteq {"json", "markdown"}
    /\ gate.outcome \in {"none", "SUCCEEDED", "FAILED"}

GateInit ==
    \E n \in 0..MaxLines : \E file \in [1..n -> Lines], k \in TopKs :
       gate = [file |-> file, k |-> k, pc |-> "reading", read |-> 0, examples |-> << >>,
               status |-> "none", reports |-> {}, path |-> "none", outcome |-> "none"]

\* _mark_failed: the row tells of no report, even if one has been written.
FailRun == gate' = [gate EXCEPT !.pc = "over", !.outcome = "FAILED"]
-----------------------------------------------------------------------------
(* load_jsonl_dataset *)

ReadLine ==
    LET line == gate.file[gate.read + 1] IN
    /\ gate.pc = "reading" /\ gate.read < Len(gate.file)
    /\ IF line = BadLine THEN FailRun
       ELSE gate' = [gate EXCEPT
               !.read = @ + 1,
               !.examples = IF line = BlankLine THEN @ ELSE Append(@, line)]

EndOfFile ==
    /\ gate.pc = "reading" /\ gate.read = Len(gate.file)
    /\ IF gate.examples = << >> THEN FailRun
       ELSE gate' = [gate EXCEPT !.pc = "scoring"]
-----------------------------------------------------------------------------
(* The metrics, example by example *)

Retrieved(e) == ToSet(e.retrieved)
TopRetrieved(e) == SubSeq(e.retrieved, 1, Min({gate.k, Len(e.retrieved)}))
RelevantCount(e) == Cardinality(e.expected \intersect ToSet(TopRetrieved(e)))
Share(part, whole) == (Unit * Cardinality(part \intersect whole)) \div Cardinality(whole)

ReciprocalRank(e) ==
    LET ranks == {i \in DOMAIN TopRetrieved(e) : TopRetrieved(e)[i] \in e.expected} IN
    IF ranks = {} THEN 0 ELSE Unit \div Min(ranks)

Discounted(ranks) == MapThenSumSet(LAMBDA i : Discount[i], ranks)
Ndcg(e) ==
    LET ranks == {i \in DOMAIN TopRetrieved(e) : TopRetrieved(e)[i] \in e.expected}
        ideal == 1..Min({Cardinality(e.expected), gate.k}) IN
    (Unit * Discounted(ranks)) \div Discounted(ideal)

ContextRelevance(e) ==
    (Unit * RelevantCount(e)) \div Max({1, Len(TopRetrieved(e))})

\* Mutant of CitationCorrect: no citation is required.
CitedAreRetrieved(e) == e.cited \subseteq Retrieved(e)
\* CitationValidator.validate, with require_citation.
CitationCorrect(e) == e.cited # {} /\ e.cited \subseteq Retrieved(e)

\* F1 of the words of the answer and of the expected answer.
AnswerRelevance(e) ==
    (Unit * 2 * Cardinality(e.words \intersect e.expected))
        \div (Cardinality(e.words) + Cardinality(e.expected))

\* The answer's words among those of the sources it cites, or of all of them.
Faithfulness(e) ==
    Share(IF e.cited = {} THEN Retrieved(e) ELSE Retrieved(e) \intersect e.cited, e.words)

AsScore(holds) == IF holds THEN Unit ELSE 0

Score(metric, e) ==
    CASE metric = "retrieval_hit_rate" -> AsScore(RelevantCount(e) > 0)
      [] metric = "recall_at_k" -> Share(ToSet(TopRetrieved(e)), e.expected)
      [] metric = "mrr" -> ReciprocalRank(e)
      [] metric = "ndcg_at_k" -> Ndcg(e)
      [] metric = "context_relevance" -> ContextRelevance(e)
      [] metric = "citation_correctness" -> AsScore(CitationCorrect(e))
      [] metric = "citation_recall" -> Share(e.cited, e.expected)
      [] metric = "answer_relevance" -> AnswerRelevance(e)
      [] metric = "faithfulness" -> Faithfulness(e)

Total(metric) ==
    MapThenSumSet(LAMBDA i : Score(metric, gate.examples[i]), DOMAIN gate.examples)

\* round(mean, 4), half of a part upwards.
Precision == 10000
Mean(metric) ==
    LET ones == Unit * Len(gate.examples) IN
    (2 * Precision * Total(metric) + ones) \div (2 * ones)

Failures == {m \in DOMAIN Thresholds : Mean(m) * Unit < Thresholds[m] * Precision}

Compare ==
    /\ gate.pc = "scoring"
    /\ gate' = [gate EXCEPT !.pc = "reporting",
                            !.status = IF Failures = {} THEN "PASS" ELSE "FAIL"]
-----------------------------------------------------------------------------
(* _write_reports, and what becomes of the run *)

WriteJson ==
    /\ gate.pc = "reporting"
    /\ gate' = [gate EXCEPT !.pc = "summarizing", !.reports = {"json"}]

WriteMarkdown ==
    /\ gate.pc = "summarizing"
    /\ gate' = [gate EXCEPT
          !.pc = "over", !.reports = @ \union {"markdown"}, !.path = "json",
          !.outcome = IF gate.status = "PASS" THEN "SUCCEEDED" ELSE "FAILED"]

\* An OSError of either write fails the run, whatever its scores are.
WriteFails == gate.pc \in {"reporting", "summarizing"} /\ FailRun

GateNext == ReadLine \/ EndOfFile \/ Compare \/ WriteJson \/ WriteMarkdown \/ WriteFails

GateSpec == GateInit /\ [][GateNext]_gateVars
-----------------------------------------------------------------------------

\* How many of the first lines of the dataset are not blank.
Filled(n) == Cardinality({i \in 1..n : gate.file[i] # BlankLine})

\* A run that succeeds has earned it, example by example, though only means, and
\* rounded ones, are compared: no line of the dataset was left out, each question
\* found a source among the first k that it should, each answer cites, and only
\* what was retrieved, and both reports are there.  No mean exceeds one, but for the
\* nDCG of a dataset that has a source twice (run_evaluation, complete_running).
PassIsEarned ==
    /\ gate.outcome = "SUCCEEDED" =>
       /\ Len(gate.examples) = Filled(Len(gate.file))
       /\ \A i \in DOMAIN gate.file :
             gate.file[i] # BlankLine => gate.examples[Filled(i)] = gate.file[i]
       /\ \A e \in ToSet(gate.examples) :
             /\ e.expected \intersect ToSet(TopRetrieved(e)) # {}
             /\ e.cited # {} /\ e.cited \subseteq ToSet(e.retrieved)
       /\ gate.path \in gate.reports /\ gate.reports = {"json", "markdown"}
    /\ gate.pc = "reporting" =>
       \A m \in DOMAIN Thresholds :
          \/ Mean(m) <= Precision
          \/ m = "ndcg_at_k" /\ \E e \in ToSet(gate.examples) : ~IsInjective(e.retrieved)
=============================================================================
