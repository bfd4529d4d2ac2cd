------------------------ MODULE MCGatewaySessions ------------------------
EXTENDS GatewaySessions, TLC

Symmetry == Permutations(Users) \cup Permutations(Streams) \cup Permutations(Posts)
==========================================================================
