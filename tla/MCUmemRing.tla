----------------------------- MODULE MCUmemRing -----------------------------
(* Instances of UmemRing.                                                  *)
EXTENDS UmemRing, TLC

CONSTANTS k1, k2
MCKeys == {k1, k2}
KeySymmetry == Permutations(MCKeys)
=============================================================================
