-------------------------- MODULE MCCreatePayment ---------------------------
(***************************************************************************)
(* Values for checking CreatePayment with TLC.                             *)
(***************************************************************************)
EXTENDS CreatePayment, TLC

(* Requests and bodies are interchangeable.                                *)
Symmetry == Permutations(Requests) \cup Permutations(Bodies)
=============================================================================
