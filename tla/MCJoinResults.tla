---------------------------- MODULE MCJoinResults ---------------------------
EXTENDS JoinResults, TLC

CONSTANTS p1, p2

MCPackets == [path : Paths, hw : {1, 3}, xdp : {4, 5}, cpumap : {6}, user : {8}]
MCCalibrations == {{3, 9}, {4}, {6, 9}, {1, 3}}
MCSymmetry == Permutations({p1, p2})
=============================================================================
