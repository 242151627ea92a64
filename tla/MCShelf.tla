------------------------------- MODULE MCShelf -------------------------------
(***************************************************************************)
(* Instances of Shelf for TLC.                                             *)
(***************************************************************************)
EXTENDS Shelf, TLC

CONSTANTS o1, o2, alice

\* Two orders of one buyer, or no buyer at all.
OneBuyer == (o1 :> alice) @@ (o2 :> alice)
Nobody == [o \in {} |-> alice]

ShelfSymmetry == Permutations(Uploads) \cup Permutations(Jobs)
=============================================================================
