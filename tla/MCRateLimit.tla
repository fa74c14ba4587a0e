---------------------------- MODULE MCRateLimit ----------------------------
(* Small instances of RateLimit for TLC.                                    *)
EXTENDS RateLimit, TLC

Symmetry == Permutations(Handler) \cup Permutations(Client)
              \cup Permutations(Host) \cup Permutations(Path)
===========================================================================
