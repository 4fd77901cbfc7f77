---------------------------- MODULE MCCpumapDrain ---------------------------
(* Instances of CpumapDrain.  Keys are interchangeable.                    *)
EXTENDS CpumapDrain, TLC

KeySymmetry == Permutations(Keys)
=============================================================================
