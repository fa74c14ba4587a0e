-------------------------- MODULE MCVerification --------------------------
(* Small instances of Verification for TLC.                                 *)
EXTENDS Verification, TLC

Symmetry == Permutations(Handler) \cup Permutations(Token)
              \cup Permutations(Id) \cup Permutations(Client) \cup Permutations(Site)
===========================================================================
