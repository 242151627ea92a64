------------------------------- MODULE Journal -------------------------------
(***************************************************************************)
(* What the books promise, with no word about locks, sequences or          *)
(* rollbacks: requests take effect one at a time and whole, and nothing    *)
(* that may happen once - the approval of an order, the posting of a       *)
(* confirmation, the payout of a statement, the use of a provider's        *)
(* reference - happens twice.                                              *)
(*                                                                         *)
(* Books.tla is the detailed specification that implements this one.       *)
(***************************************************************************)
EXTENDS Sequences, Naturals

CONSTANTS Requests,   \* requests that write the books
          Claims      \* Claims[r]: what request r does that happens once

VARIABLE booked       \* the requests that took effect, in order

BookedIn(log) == {log[i] : i \in DOMAIN log}

Init == booked = <<>>

Book(r) == /\ \A s \in BookedIn(booked) : Claims[r] \cap Claims[s] = {}
           /\ booked' = Append(booked, r)

Next == \E r \in Requests : Book(r)

Spec == Init /\ [][Next]_booked
=============================================================================
