------------------------ MODULE MCTollkeeperSession ------------------------
(* TollkeeperSession for TLC: sessions are interchangeable where no         *)
(* liveness is checked.                                                     *)
EXTENDS TollkeeperSession, TLC

Symmetry == Permutations(Versions)
=============================================================================
