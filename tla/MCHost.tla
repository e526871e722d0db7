------------------------------- MODULE MCHost -------------------------------
EXTENDS Host, TLC
MCStatuses == {Exited(3), Signalled(11)}
ThreadSymmetry == Permutations(Threads)
=============================================================================
