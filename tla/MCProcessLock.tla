--------------------------- MODULE MCProcessLock ---------------------------
(* Symmetry for checking ProcessLock with TLC.                             *)
EXTENDS ProcessLock, TLC

Symmetry == Permutations(Proc) \cup Permutations(Seg)
============================================================================
