-------------------------- MODULE MCCreatorUpload --------------------------
(* Small instances of CreatorUpload for TLC. *)
EXTENDS CreatorUpload, TLC

CONSTANT good   \* content of every part of the declared file

DeclaredGood == [p \in Parts |-> good]

\* Clients are interchangeable, and so are multipart uploads.
Symmetry == Permutations(Clients) \cup Permutations(Handles)
=============================================================================
