--------------------------- MODULE MCProfileJobs ---------------------------
(* Small instances of ProfileJobs for TLC. *)
EXTENDS ProfileJobs, TLC

\* Workers are interchangeable; jobs, pages and payloads are ordered.
Symmetry == Permutations(Workers)

\* The bounds of each run, by kind of profile.  A paged profile has more
\* steps per parent; a direct one needs a third parent for a cursor that is
\* written back late.
RacesParents == [paged |-> 2, direct |-> 3]
RacesFailures == [paged |-> 1, direct |-> 0]
EndsParents == [paged |-> 1, direct |-> 1]
EndsFailures == [paged |-> 1, direct |-> 1]
=============================================================================
