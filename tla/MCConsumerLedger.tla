-------------------------- MODULE MCConsumerLedger --------------------------
(***************************************************************************)
(* Values for checking ConsumerLedger with TLC.                            *)
(***************************************************************************)
EXTENDS ConsumerLedger, TLC

(* Messages and tasks are interchangeable in the safety properties.        *)
Symmetry == Permutations(MsgIds) \cup Permutations(Workers)
=============================================================================
