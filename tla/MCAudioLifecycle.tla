-------------------------- MODULE MCAudioLifecycle --------------------------
(* Small instances of AudioLifecycle for TLC. *)
EXTENDS AudioLifecycle, TLC

\* Reviews, assets and executors are interchangeable; the slots of an asset
\* are not, the lowest free one is used.
Symmetry == Permutations(Reviews) \cup Permutations(Assets)
               \cup Permutations(Executors)
=============================================================================
