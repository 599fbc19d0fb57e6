------------------------------ MODULE MCAccess ------------------------------
(* Access on a small instance, with symmetry of the rows and requests.     *)
EXTENDS Access, TLC

Symmetry == Permutations(Sessions) \cup Permutations(Invitations) \cup Permutations(Requests)
=============================================================================
