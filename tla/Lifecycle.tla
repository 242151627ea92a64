------------------------------ MODULE Lifecycle ------------------------------
(***************************************************************************)
(* What the shelf of a product promises of its versions, with no word      *)
(* about files, orders, locks or requests in flight: versions are numbered *)
(* in the order in which they come, each goes from waiting to sale to      *)
(* retirement to the purge of its files and never back, one at most waits  *)
(* and one at most is on sale.                                             *)
(*                                                                         *)
(* Shelf.tla is the detailed specification that implements this one; the   *)
(* shelf that Delivery.tla reduces to what a download notices does too.    *)
(***************************************************************************)
EXTENDS Naturals

CONSTANT MaxVersion   \* bound: versions of the product

Version == 1..MaxVersion

VARIABLE stage        \* stage[v]: how far version v has come

Init == stage = [v \in Version |-> "none"]

IsNext(v) == stage[v] = "none" /\ \A w \in Version : w < v => stage[w] # "none"

\* v moves to a stage, and whoever is in the stages it clears is retired.
Moves(v, to, clears) ==
    stage' = [w \in Version |-> IF w = v THEN to
                                ELSE IF stage[w] \in clears THEN "retired" ELSE stage[w]]

\* A new version waits for its release, in the place of the one that waited.
Record(v) == IsNext(v) /\ Moves(v, "waiting", {"waiting"})

\* A new version goes on sale at once, in the place of what was there.
Replace(v) == IsNext(v) /\ Moves(v, "sale", {"waiting", "sale"})

Release(v) == stage[v] = "waiting" /\ Moves(v, "sale", {"sale"})

Retire(v) == stage[v] \in {"waiting", "sale"} /\ Moves(v, "retired", {})

Purge(v) == stage[v] = "retired" /\ Moves(v, "gone", {})

Next == \E v \in Version : Record(v) \/ Replace(v) \/ Release(v) \/ Retire(v) \/ Purge(v)

Spec == Init /\ [][Next]_stage

-----------------------------------------------------------------------------
\* "The waiting version" and "the version on sale" are never ambiguous.
OneOfEach ==
    \A v, w \in Version : stage[v] = stage[w] /\ stage[v] \in {"waiting", "sale"} => v = w

Rank(s) == CASE s = "none" -> 0 [] s = "waiting" -> 1 [] s = "sale" -> 2
             [] s = "retired" -> 3 [] OTHER -> 4

\* No version goes back: what was withdrawn, or purged, stays so.
NeverBack == [][\A v \in Version : Rank(stage[v]) <= Rank(stage'[v])]_stage
=============================================================================
