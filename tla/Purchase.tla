------------------------------ MODULE Purchase ------------------------------
(***************************************************************************)
(* What a checkout promises, with no word about methods, receipts, locks   *)
(* or retries: an order reserves its goods, and then is either sold, once, *)
(* or dropped, for good.  A unit of Goods is one buyer's claim on one      *)
(* version of one product, so "one copy of each" is the promise that a     *)
(* buyer is never charged twice for the same file.                         *)
(*                                                                         *)
(* Checkout.tla is the detailed specification that implements this one.    *)
(***************************************************************************)
EXTENDS Naturals

CONSTANTS Orders,   \* order identifiers
          Goods,    \* <<buyer, version>> claims
          Lines,    \* Lines[o]: the goods order o asks for
          Free      \* the orders whose total is zero

VARIABLES deal,     \* deal[o]: how far the purchase has come
          owned,    \* live entitlements, as <<goods, order>> pairs
          booked    \* booked[o]: sales entered in the books for o

vars == <<deal, owned, booked>>

Reserved(o) == deal[o] \in {"open", "sold"}

Init == /\ deal = [o \in Orders |-> "none"]
        /\ owned = {}
        /\ booked = [o \in Orders |-> 0]

Open(o) == /\ deal[o] = "none"
           /\ \A other \in Orders \ {o} : Reserved(other) => Lines[other] \cap Lines[o] = {}
           /\ deal' = [deal EXCEPT ![o] = "open"]
           /\ UNCHANGED <<owned, booked>>

\* The sale: every line is granted and, unless nothing was charged, the
\* sale is booked exactly once, all in the same step.
Sell(o) == /\ deal[o] = "open"
           /\ deal' = [deal EXCEPT ![o] = "sold"]
           /\ owned' = owned \cup (Lines[o] \X {o})
           /\ booked' = IF o \in Free THEN booked ELSE [booked EXCEPT ![o] = 1]

Drop(o) == /\ deal[o] = "open"
           /\ deal' = [deal EXCEPT ![o] = "dropped"]
           /\ UNCHANGED <<owned, booked>>

Next == \E o \in Orders : Open(o) \/ Sell(o) \/ Drop(o)

Spec == Init /\ [][Next]_vars
=============================================================================
