---------------------------- MODULE MCHwTimestamp ---------------------------
(* Instances of HwTimestamp.                                               *)
EXTENDS HwTimestamp
=============================================================================
