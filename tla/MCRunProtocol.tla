---------------------------- MODULE MCRunProtocol ---------------------------
(* Instances of RunProtocol.  The flows are interchangeable.               *)
EXTENDS RunProtocol, TLC

FlowSymmetry == Permutations(Flows)
=============================================================================
