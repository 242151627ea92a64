------------------------- MODULE CheckoutSaleProofs -------------------------
(***************************************************************************)
(* Theorems about what Checkout sells: a sale is whole and happens once,   *)
(* no copy is promised to two live orders, and every step implements       *)
(* Purchase.                                                               *)
(***************************************************************************)
EXTENDS CheckoutProofs

-----------------------------------------------------------------------------
\* How each step moves an order, seen from outside.

\* The order rows that a step may move, and where to.
Moves(o) ==
  \/ order'[o] = order[o]
  \/ order[o] = "NONE" /\ order'[o] = "DRAFT" /\ ~ Taken(o)
  \/ order[o] \notin {"NONE", "COMPLETED", "CANCELLED"}
     /\ order'[o] \notin {"NONE", "COMPLETED"}

Quiet == \A o \in Orders : Moves(o)

\* The order o, and no other, is sold: granted, and booked unless it is free.
Sells(o) ==
  /\ order[o] \notin {"NONE", "COMPLETED", "CANCELLED"}
  /\ order' = [order EXCEPT ![o] = "COMPLETED"]
  /\ owned' = owned \cup (Lines[o] \X {o})
  /\ IF o \in Free THEN sales' = sales ELSE sales' = [sales EXCEPT ![o] = @ + 1]

\* No more than one order moves in a step.
OneMoves == \A o1, o2 \in Orders :
              order'[o1] # order[o1] /\ order'[o2] # order[o2] => o1 = o2

\* Every step either sells one order or leaves what is owned and booked alone.
LEMMA StepShape ==
  ASSUME TypeOK, RequestsAreSound, PaymentInv, [Next]_vars
  PROVE  \/ \E o \in Orders : Sells(o)
         \/ Quiet /\ OneMoves /\ UNCHANGED <<owned, sales>>
<1>1. ASSUME NEW o \in Orders, CreateOrder(o)
      PROVE  Quiet /\ OneMoves /\ UNCHANGED <<owned, sales>>
  BY <1>1 DEF CreateOrder, TypeOK, Quiet, OneMoves, Moves
<1>2. ASSUME NEW c \in Calls, PlaceNew(c)
      PROVE  Quiet /\ OneMoves /\ UNCHANGED <<owned, sales>>
  <2>1. order[call[c].order] \in {"DRAFT", "AWAITING_PAYMENT", "PAYMENT_ISSUE"}
    BY <1>2 DEF PlaceNew, PlaceAllowed, PaymentCanStart
  <2>2. order' = [order EXCEPT ![call[c].order] = "AWAITING_PAYMENT"]
                   \/ order' = order
    BY <1>2, <2>1 DEF PlaceNew, CanMove, TypeOK
  <2> QED
    BY <1>2, <2>1, <2>2 DEF PlaceNew, TypeOK, Quiet, OneMoves, Moves
<1>3. ASSUME NEW c \in Calls, SubmitReceipt(c)
      PROVE  Quiet /\ OneMoves /\ UNCHANGED <<owned, sales>>
  BY <1>3 DEF SubmitReceipt, ReceiptAllowed, BuyerCanLock, TypeOK, Quiet, OneMoves, Moves
<1>4. ASSUME NEW p \in PaymentId, Reject(p)
      PROVE  Quiet /\ OneMoves /\ UNCHANGED <<owned, sales>>
  BY <1>4 DEF Reject, CanMove, TypeOK, Quiet, OneMoves, Moves
<1>5. ASSUME NEW c \in Calls, CancelByBuyer(c) \/ CancelByOwner(c)
      PROVE  Quiet /\ OneMoves /\ UNCHANGED <<owned, sales>>
  BY <1>5 DEF CancelByBuyer, CancelByOwner, CanMove, TypeOK, Quiet, OneMoves, Moves
<1>6. ASSUME NEW p \in PaymentId, Approve(p)
      PROVE  \E o \in Orders : Sells(o)
  <2>1. p[1] \in Orders /\ payment[p] # "NONE" /\ OneOpenFor(p[1]) /\ RowsFor(p[1])
    BY <1>6, PaymentPair DEF Approve, CanDecide, OpenStatus, PaymentInv
  <2>2. p[1] \notin Free
    BY <2>1, NoRowsYet DEF RowsFor
  <2>3. Sells(p[1])
    BY <1>6, <2>2 DEF Approve, Sells, CanMove
  <2> QED
    BY <2>1, <2>3
<1>7. ASSUME NEW c \in Calls, CompleteFree(c)
      PROVE  \E o \in Orders : Sells(o)
  <2>1. call[c].order \in Free /\ call[c].order \in Orders
    BY <1>7, FreeAssumption DEF CompleteFree, FreeAllowed
  <2>2. Sells(call[c].order)
    BY <1>7, <2>1 DEF CompleteFree, FreeAllowed, Sells
  <2> QED
    BY <2>1, <2>2
<1>8. ASSUME NEW c \in Calls,
             \/ \E r : Begin(c, r)
             \/ PlaceSame(c) \/ Refuse(c) \/ Fail(c)
             \/ \E x \in Objects : StoreReceipt(c, x)
      PROVE  UNCHANGED <<order, owned, sales>>
  BY <1>8 DEF Begin, PlaceSame, Refuse, Fail, Abandon, StoreReceipt
<1>9. ASSUME UNCHANGED <<order, owned, sales>>
      PROVE  Quiet /\ OneMoves /\ UNCHANGED <<owned, sales>>
  BY <1>9 DEF Quiet, OneMoves, Moves
<1>10. CASE UNCHANGED vars
  BY <1>9, <1>10 DEF vars
<1> QED
  <2>1. CASE \E c \in Calls : BuyerNext(c)
    BY <2>1, <1>2, <1>3, <1>5, <1>7, <1>8, <1>9
    DEF BuyerNext, BeginPlace, BeginUpload, BeginFree, BeginCancelByBuyer
  <2>2. CASE OwnerNext
    BY <2>2, <1>4, <1>5, <1>6, <1>8, <1>9 DEF OwnerNext, BeginCancelByOwner
  <2> QED
    BY <2>1, <2>2, <1>1, <1>10 DEF Next

-----------------------------------------------------------------------------
\* The invariant: who owns what, what was booked, and what is promised.

SaleInv == SaleIsWhole /\ OneLiveOrderPerGoods

LEMMA SaleStep ==
  TypeOK /\ RequestsAreSound /\ PaymentInv /\ SaleInv /\ [Next]_vars => SaleInv'
<1> SUFFICES ASSUME TypeOK, RequestsAreSound, PaymentInv, SaleInv, [Next]_vars
             PROVE  SaleInv'
  OBVIOUS
<1>1. ASSUME NEW o \in Orders, Sells(o)
      PROVE  SaleInv'
  <2>1. /\ order'[o] = "COMPLETED"
        /\ \A x \in Orders \ {o} : order'[x] = order[x]
    BY <1>1 DEF Sells, TypeOK
  <2>2. {x \in Orders : order'[x] = "COMPLETED"} = {x \in Orders : order[x] = "COMPLETED"} \cup {o}
    BY <2>1
  <2>3. owned' = UNION {Lines[x] \X {x} : x \in {y \in Orders : order'[y] = "COMPLETED"}}
    BY <1>1, <2>2 DEF Sells, SaleInv, SaleIsWhole
  <2>4. \A x \in Orders : sales'[x] = IF order'[x] = "COMPLETED" /\ x \notin Free THEN 1 ELSE 0
    BY <1>1, <2>1 DEF Sells, SaleInv, SaleIsWhole, TypeOK
  <2>5. OneLiveOrderPerGoods'
    BY <1>1, <2>1 DEF Sells, SaleInv, OneLiveOrderPerGoods
  <2> QED
    BY <2>3, <2>4, <2>5 DEF SaleInv, SaleIsWhole
<1>2. ASSUME Quiet, OneMoves, UNCHANGED <<owned, sales>>
      PROVE  SaleInv'
  <2>1. \A o \in Orders : order'[o] = "COMPLETED" <=> order[o] = "COMPLETED"
    BY <1>2 DEF Quiet, Moves
  <2>2. SaleIsWhole'
    BY <1>2, <2>1 DEF SaleInv, SaleIsWhole
  <2>3. OneLiveOrderPerGoods'
    <3> SUFFICES ASSUME NEW o1 \in Orders, NEW o2 \in Orders, o1 # o2,
                        order'[o1] \notin {"NONE", "CANCELLED"},
                        order'[o2] \notin {"NONE", "CANCELLED"}
                 PROVE  Lines[o1] \cap Lines[o2] = {}
      BY DEF OneLiveOrderPerGoods
    <3>1. CASE order[o1] # "NONE" /\ order[o2] # "NONE"
      BY <1>2, <3>1 DEF Quiet, Moves, SaleInv, OneLiveOrderPerGoods
    <3>2. CASE order[o1] = "NONE"
      BY <1>2, <3>2 DEF Quiet, OneMoves, Moves, Taken
    <3>3. CASE order[o2] = "NONE"
      BY <1>2, <3>3 DEF Quiet, OneMoves, Moves, Taken
    <3> QED
      BY <3>1, <3>2, <3>3
  <2> QED
    BY <2>2, <2>3 DEF SaleInv
<1> QED
  BY <1>1, <1>2, StepShape

LEMMA SaleInit == Init => SaleInv
  BY DEF Init, SaleInv, SaleIsWhole, OneLiveOrderPerGoods

LEMMA SaleCorrect == Spec => [](PaymentInv /\ SaleInv)
<1>1. Init => PaymentInv
  BY DEF Init, PaymentInv, RowsFor, OneOpenFor, OpenPayments, OpenStatus
<1> QED
  BY <1>1, SaleInit, SaleStep, PaymentStep, TypeCorrect, RequestsCorrect, PTL DEF Spec

\* A completed order owns all its goods and is in the books once, unless it
\* was free; no other order owns or books anything.
THEOREM SaleWhole == Spec => []SaleIsWhole
<1>1. PaymentInv /\ SaleInv => SaleIsWhole
  BY DEF SaleInv
<1> QED
  BY <1>1, SaleCorrect, PTL

\* No two live orders ask for the same buyer's copy of a version, so no
\* approval is refused for a copy the buyer already owns.
THEOREM OneLiveOrder == Spec => []OneLiveOrderPerGoods
<1>1. PaymentInv /\ SaleInv => OneLiveOrderPerGoods
  BY DEF SaleInv
<1> QED
  BY <1>1, SaleCorrect, PTL

-----------------------------------------------------------------------------
\* Checkout implements Purchase.

LEMMA RefineInit == Init => P!Init
  BY DEF Init, P!Init, Deal

LEMMA RefineStep ==
  TypeOK /\ RequestsAreSound /\ PaymentInv /\ SaleInv /\ [Next]_vars => [P!Next]_P!vars
<1> SUFFICES ASSUME TypeOK, RequestsAreSound, PaymentInv, SaleInv, [Next]_vars
             PROVE  [P!Next]_P!vars
  OBVIOUS
<1> DEFINE deals == [o \in Orders |-> Deal(o)]
<1>1. ASSUME NEW o \in Orders, Sells(o)
      PROVE  P!Sell(o)
  <2>1. /\ order'[o] = "COMPLETED"
        /\ \A x \in Orders \ {o} : order'[x] = order[x]
    BY <1>1 DEF Sells, TypeOK
  <2>2. deals[o] = "open" /\ deals' = [deals EXCEPT ![o] = "sold"]
    BY <1>1, <2>1 DEF Sells, Deal
  <2>3. sales' = IF o \in Free THEN sales ELSE [sales EXCEPT ![o] = 1]
    BY <1>1 DEF Sells, SaleInv, SaleIsWhole
  <2> QED
    BY <1>1, <2>2, <2>3 DEF Sells, P!Sell
<1>2. ASSUME NEW o \in Orders, Quiet, OneMoves, UNCHANGED <<owned, sales>>,
             order'[o] # order[o]
      PROVE  P!Open(o) \/ P!Drop(o) \/ UNCHANGED P!vars
  <2>1. \A x \in Orders \ {o} : order'[x] = order[x]
    BY <1>2 DEF OneMoves
  <2>2. CASE order[o] = "NONE"
    <3>1. order'[o] = "DRAFT" /\ ~ Taken(o)
      BY <1>2, <2>2 DEF Quiet, Moves
    <3>2. deals[o] = "none" /\ deals' = [deals EXCEPT ![o] = "open"]
      BY <2>1, <2>2, <3>1 DEF Deal
    <3>3. \A x \in Orders \ {o} : deals[x] \in {"open", "sold"} => Lines[x] \cap Lines[o] = {}
      BY <3>1 DEF Taken, Deal
    <3> QED
      BY <1>2, <3>2, <3>3 DEF P!Open, P!Reserved
  <2>3. CASE order[o] # "NONE" /\ order'[o] = "CANCELLED"
    <3>1. deals[o] = "open" /\ deals' = [deals EXCEPT ![o] = "dropped"]
      BY <1>2, <2>1, <2>3 DEF Quiet, Moves, Deal
    <3> QED
      BY <1>2, <3>1 DEF P!Drop
  <2>4. CASE order[o] # "NONE" /\ order'[o] # "CANCELLED"
    <3>1. deals' = deals
      BY <1>2, <2>1, <2>4 DEF Quiet, Moves, Deal
    <3> QED
      BY <1>2, <3>1 DEF P!vars
  <2> QED
    BY <2>2, <2>3, <2>4
<1>3. ASSUME \A o \in Orders : order'[o] = order[o], UNCHANGED <<owned, sales>>
      PROVE  UNCHANGED P!vars
  BY <1>3 DEF P!vars, Deal
<1> QED
  BY <1>1, <1>2, <1>3, StepShape DEF P!Next

\* Every behaviour of checkout is one of Purchase: goods are reserved, sold
\* whole and once, or dropped for good.
THEOREM Implements == Spec => ImplementsPurchase
  BY RefineInit, RefineStep, SaleCorrect, TypeCorrect, RequestsCorrect, PTL
  DEF Spec, ImplementsPurchase, P!Spec
=============================================================================
