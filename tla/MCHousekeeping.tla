--------------------------- MODULE MCHousekeeping ---------------------------
(* Housekeeping on small sets.  Events are interchangeable, and so are     *)
(* messages.                                                               *)
EXTENDS Housekeeping, TLC

Symmetry == Permutations(Events) \cup Permutations(Messages)
=============================================================================
