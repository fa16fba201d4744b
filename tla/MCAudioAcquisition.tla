------------------------ MODULE MCAudioAcquisition ------------------------
(* A small instance of AudioAcquisition for TLC. *)
EXTENDS AudioAcquisition, TLC

\* Ids and keys are interchangeable.
Symmetry == Permutations(Reviews) \cup Permutations(Jobs)
               \cup Permutations(Workers) \cup Permutations(Objects)

Clock == 0..2
=============================================================================
