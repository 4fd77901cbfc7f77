---------------------------- MODULE MCEnvironment ---------------------------
EXTENDS Environment, TLC

CONSTANTS p1, p2, i1, i2
MCPolicies == {p1, p2}
MCIrqs == {i1, i2}
MCSymmetry == Permutations(MCPolicies) \cup Permutations(MCIrqs)
=============================================================================
