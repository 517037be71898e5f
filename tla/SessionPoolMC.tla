--------------------------- MODULE SessionPoolMC ---------------------------
(* Finite instances of SessionPool for TLC. *)
EXTENDS SessionPool, TLC

\* Callers, closers and atoms are interchangeable; used with safety only.
Symmetry ==
    Permutations(Callers) \cup Permutations(Closers) \cup Permutations(Atoms)
=============================================================================
