--------------------------- MODULE SoapSessionsMC ---------------------------
(* A small instance of SoapSessions; sessions and users are symmetric. *)
EXTENDS SoapSessions, TLC

Symmetry == Permutations(Sessions) \cup Permutations(Users)
=============================================================================
