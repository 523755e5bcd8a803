------------------------- MODULE MCOutboxPublisher --------------------------
(***************************************************************************)
(* Values for checking OutboxPublisher with TLC.                           *)
(***************************************************************************)
EXTENDS OutboxPublisher, TLC

(* Events and processes are interchangeable in the safety properties.      *)
Symmetry == Permutations(Events) \cup Permutations(Publishers)
=============================================================================
