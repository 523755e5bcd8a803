------------------------------ MODULE MCListing -----------------------------
(***************************************************************************)
(* Values for checking Listing with TLC.                                   *)
(***************************************************************************)
EXTENDS Listing, TLC

(* Currencies are interchangeable.                                         *)
Symmetry == Permutations(Currencies)
=============================================================================
