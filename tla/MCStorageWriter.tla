-------------------------- MODULE MCStorageWriter --------------------------
(* A small instance of StorageWriter for TLC.  No symmetry: liveness.       *)
EXTENDS StorageWriter, TLC
===========================================================================
