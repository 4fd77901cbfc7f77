---------------------------- MODULE MCFlowBarrier ---------------------------
(* Instances of FlowBarrier.                                               *)
EXTENDS FlowBarrier
=============================================================================
