----------------------------- MODULE MCCheckout -----------------------------
(***************************************************************************)
(* Instances of Checkout for TLC: one order that is retried, and three     *)
(* orders of one buyer that want the same copies.                          *)
(***************************************************************************)
EXTENDS Checkout, TLC

CONSTANTS o1, o2, o3, g1, g2, bank, chat

\* Three orders for two copies: o1 wants both, o2 the first, o3 the second.
SharedLines == (o1 :> {g1, g2}) @@ (o2 :> {g1}) @@ (o3 :> {g2})

OneLine == (o1 :> {g1})

\* Requests and storage keys are interchangeable.
CallSymmetry == Permutations(Calls) \cup Permutations(Objects)
=============================================================================
