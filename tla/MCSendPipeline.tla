--------------------------- MODULE MCSendPipeline ---------------------------
(* The send pipeline on small sets.  Messages are interchangeable, and so  *)
(* are requests; their symmetry is used in runs without liveness           *)
(* properties.                                                             *)
EXTENDS SendOutbox, TLC

Symmetry == Permutations(Messages) \cup Permutations(Requests)
=============================================================================
