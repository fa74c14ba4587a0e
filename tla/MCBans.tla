------------------------------- MODULE MCBans -------------------------------
(* Small instances of Bans for TLC.                                         *)
EXTENDS Bans, TLC

Symmetry == Permutations(Handler) \cup Permutations(Admin) \cup Permutations(Ip)
===========================================================================
