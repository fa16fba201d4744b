---------------------------- MODULE MCSetReview ----------------------------
(* Small instances of SetReview for TLC. *)
EXTENDS SetReview, TLC

CONSTANTS s1, rave, barn, hall

\* Every set has a provider of its own.
OwnProvider == [s \in Sets |-> s]

\* What the enricher finds in one description: a date that is a leap day, its
\* year by itself, a venue and an artist.
Extracted == {[set |-> s1, field |-> e[1], value |-> e[2]] : e \in
                {<<"date", <<2020, "29 Feb">>>>, <<"year", 2020>>,
                 <<"venue", barn>>, <<"artist", rave>>}}

\* Editors type the venue as it was extracted, or another one; and a year.
Retyped == {[set |-> s1, column |-> "venue", text |-> t] : t \in {barn, hall}}

RetypedYears == {[set |-> s1, year |-> y] : y \in {2019, 2020}}
=============================================================================
