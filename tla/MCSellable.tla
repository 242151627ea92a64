----------------------------- MODULE MCSellable ------------------------------
(***************************************************************************)
(* Instances of Sellable for TLC.                                          *)
(***************************************************************************)
EXTENDS Sellable, TLC

SellableSymmetry ==
    Permutations(Engineers) \cup Permutations(Currencies) \cup Permutations(Jobs)
=============================================================================
