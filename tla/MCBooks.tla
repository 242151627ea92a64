------------------------------- MODULE MCBooks -------------------------------
(***************************************************************************)
(* An instance of Books for TLC: two orders of the same two products, in   *)
(* opposite line order, one of them approved twice at the same time; the   *)
(* other approved with a bank reference the first approval names too; and  *)
(* one correction whose confirmation is sent twice.                        *)
(***************************************************************************)
EXTENDS Books, TLC

CONSTANTS one, again, two, fix, fixAgain, orderA, orderB, key, ref, p, q

Everybody == {one, again, two, fix, fixAgain}
TwoSales == {one, two}
Sales == Requests \ {fix, fixAgain}

Only(requests, f) == [r \in requests |-> f[r]]

TheSubject == Only(Requests, (one :> orderA) @@ (again :> orderA) @@ (two :> orderB)
                             @@ (fix :> key) @@ (fixAgain :> key))
TheGoods == Only(Sales, (one :> <<p, q>>) @@ (again :> <<p, q>>) @@ (two :> <<q, p>>))
TheReference == Only(Sales, (one :> ref) @@ (again :> None) @@ (two :> ref))
TheYear == [r \in Requests |-> 2026]
=============================================================================
