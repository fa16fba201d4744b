---------------------------- MODULE MCImportJobs ----------------------------
(* Small instances of ImportJobs for TLC. *)
EXTENDS ImportJobs, TLC

\* The items and the members of a pool are interchangeable; jobs are not,
\* their order is that of created_at.
Symmetry == Permutations(Items) \cup Permutations(Importers)
               \cup Permutations(Processors)
=============================================================================
