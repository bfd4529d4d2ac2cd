---------------------------- MODULE MCKeyRotation ----------------------------
(* For TLC: credentials of one table, contents and rotations are interchangeable. *)
EXTENDS KeyRotation, TLC

Symmetry ==
  Permutations(UserCreds) \cup Permutations(Secrets) \cup Permutations(Rotations)
==============================================================================
