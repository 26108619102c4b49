----------------------------- MODULE MCSearches -----------------------------
(* Small instances of Searches for TLC. *)
EXTENDS Searches, TLC

CONSTANTS first, second, one, other, activation, again

MCInteractions == {first, second}
MCSubjects == {one, other}
MCActivations == {activation, again}
MCSymmetry == Permutations(MCInteractions) \cup Permutations(MCSubjects) \cup Permutations(MCActivations)
=============================================================================
