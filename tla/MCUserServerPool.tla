-------------------------- MODULE MCUserServerPool --------------------------
(* Instances of UserServerPool for TLC. *)
EXTENDS UserServerPool, TLC

Symmetry ==
  Permutations(Tasks) \cup Permutations(Wrappers) \cup Permutations(Users)
    \cup Permutations(Servers) \cup Permutations(Locks)
=============================================================================
