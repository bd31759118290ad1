-------------------------------- MODULE AuthMC --------------------------------
(* Auth on small instances.  Codes and requests are interchangeable.         *)
EXTENDS Auth, TLC

Symmetry == Permutations(Codes) \cup Permutations(Slots)
=============================================================================
