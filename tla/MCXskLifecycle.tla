--------------------------- MODULE MCXskLifecycle ---------------------------
(***************************************************************************)
(* Small instances of XskLifecycle.                                        *)
(***************************************************************************)
EXTENDS XskLifecycle, TLC

(* Every receiver is started on the same queue, so that they compete.      *)
MCQueueOf == [r \in Receivers |-> CHOOSE q \in Queues : TRUE]

MCSymmetry == Permutations(Receivers)
=============================================================================
