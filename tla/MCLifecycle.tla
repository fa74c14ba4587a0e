---------------------------- MODULE MCLifecycle ----------------------------
(* A small instance of Lifecycle for TLC.  No symmetry: liveness.           *)
EXTENDS Lifecycle, TLC
===========================================================================
