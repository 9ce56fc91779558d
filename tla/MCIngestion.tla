----------------------------- MODULE MCIngestion -----------------------------
(* Small instances of Ingestion: one document with one job (its upload), or
   with a second one (a reindex).  Workers are interchangeable, and so are
   handlers; no run with a temporal property uses the symmetry. *)
EXTENDS Ingestion, TLC

CONSTANTS d1, j1, j2

OneJob == (j1 :> d1)
TwoJobs == (j1 :> d1) @@ (j2 :> d1)

WorkerSymmetry == Permutations(Workers)
Symmetry == WorkerSymmetry \union Permutations(Handlers)
=============================================================================
