---------------------------- MODULE MCOwnership ----------------------------
EXTENDS Ownership, TLC
MCNOID == -1
MCRequests == {[uid |-> Guest, gid |-> MCNOID], [uid |-> MCNOID, gid |-> Guest],
               [uid |-> Fake, gid |-> Fake]}
MCInitial == {[uid |-> Me, gid |-> Other], [uid |-> Other, gid |-> Me]}
InodeSymmetry == Permutations(Inodes)
=============================================================================
