------------------------------ MODULE MCMatch -------------------------------
(* The slots for updates under way are interchangeable.                     *)
EXTENDS GameHistory, TLC

ThreadSymmetry == Permutations(Threads)

=============================================================================
