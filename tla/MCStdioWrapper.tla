--------------------------- MODULE MCStdioWrapper ---------------------------
(* Instances of StdioWrapper for TLC. *)
EXTENDS StdioWrapper, TLC

Symmetry == Permutations(Callers) \cup Permutations(Closers)
=============================================================================
