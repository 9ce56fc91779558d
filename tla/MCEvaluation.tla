---------------------------- MODULE MCEvaluation ----------------------------
(* Small instances of EvaluationRuns.  Workers are interchangeable, and so are
   handlers; no run with a temporal property uses the symmetry. *)
EXTENDS EvaluationRuns, TLC

Symmetry == Permutations(Workers) \union Permutations(Handlers)
=============================================================================
