------------------------------- MODULE MCGame -------------------------------
EXTENDS Game, TLC

\* The slots of Threads are interchangeable.
ThreadSymmetry == Permutations(Threads)

=============================================================================
