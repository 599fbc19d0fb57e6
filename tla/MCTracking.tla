----------------------------- MODULE MCTracking -----------------------------
(* Tracking on small sets.  Requests are interchangeable, and so are the   *)
(* positions of links.                                                     *)
EXTENDS Tracking, TLC

Symmetry == Permutations(Hits) \cup Permutations(Positions)
=============================================================================
