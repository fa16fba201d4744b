--------------------------- MODULE MCMergeReview ---------------------------
(* Small instances of MergeReview for TLC. *)
EXTENDS MergeReview, TLC

\* Every set has a provider of its own.
OwnProvider == [s \in Sets |-> s]

\* Imports are interchangeable, and so are sets, each with its provider.
Symmetry == Permutations(Sets) \cup Permutations(Workers)
=============================================================================
