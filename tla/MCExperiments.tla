--------------------------- MODULE MCExperiments ---------------------------
(***************************************************************************)
(* Experiments for TLC: one experiment with a profile, for what happens to *)
(* one stack under every option and disturbance; and two without profiles, *)
(* for what one target's failure or absence means to the other.  The lists *)
(* have a line that does not parse before a good one, and a second line    *)
(* for the same experiment.                                                *)
(***************************************************************************)
EXTENDS Experiments

CONSTANTS a, b, g, h

On(e, P) == [name |-> e, profiles |-> P]

ListsOfOne == {<<>>, <<Bad, On(a, {g}), On(a, {Star})>>}
ListsOfTwo == {<<>>, <<On(b, {})>>, <<On(a, {}), Bad, On(b, {})>>}
=============================================================================
