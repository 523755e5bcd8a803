-------------------------- MODULE MCPaymentSystem ---------------------------
(***************************************************************************)
(* Values for checking PaymentSystem with TLC.                             *)
(***************************************************************************)
EXTENDS PaymentSystem, TLC

(* All instances of one kind are interchangeable.                          *)
Symmetry == Permutations(Payments) \cup Permutations(MsgIds)
              \cup Permutations(Workers) \cup Permutations(Publishers)
=============================================================================
