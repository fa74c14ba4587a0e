---------------------------- MODULE MCAdmission ----------------------------
(* Small instances of Admission for TLC.                                    *)
EXTENDS Admission, TLC

Symmetry == Permutations(Handler) \cup Permutations(Client) \cup Permutations(Site)
===========================================================================
