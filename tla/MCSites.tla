------------------------------ MODULE MCSites ------------------------------
(* A small instance of Sites for TLC.                                       *)
EXTENDS Sites, TLC

Symmetry == Permutations(Worker) \cup Permutations(Host) \cup Permutations(Listen)
===========================================================================
