--------------------------- MODULE CheckoutProofs ---------------------------
(***************************************************************************)
(* Theorems about Checkout, for every set of orders, goods, methods,       *)
(* requests and storage keys and every bound on attempts.                  *)
(***************************************************************************)
EXTENDS Checkout, TLAPS

-----------------------------------------------------------------------------
\* Type correctness.

\* A request's record is well formed whatever it carries.
LEMMA IdleType == Idle \in CallType
  BY DEF Idle, CallType, Kind

\* The tables that write payments and decisions keep their types.
LEMMA ClosedType ==
  ASSUME TypeOK, NEW o
  PROVE  /\ ClosedByBuyer(o) \in [PaymentId -> PaymentStatus]
         /\ ClosedByOwner(o) \in [PaymentId -> PaymentStatus]
  BY DEF TypeOK, ClosedByBuyer, ClosedByOwner, PaymentStatus

LEMMA DecidedType ==
  ASSUME TypeOK, NEW p, NEW d \in Decision
  PROVE  Decided(p, d) \in [Objects -> Decision]
  BY DEF TypeOK, Decided

\* Taking an order puts its goods, and only its goods, among those owned.
LEMMA OwnedType ==
  ASSUME TypeOK, NEW o \in Orders
  PROVE  owned \cup (Lines[o] \X {o}) \subseteq Goods \X Orders
  BY LinesAssumption DEF TypeOK

LEMMA TypeStep == TypeOK /\ [Next]_vars => TypeOK'
<1> SUFFICES ASSUME TypeOK, [Next]_vars
             PROVE  TypeOK'
  OBVIOUS
<1> USE IdleType
<1>1. ASSUME NEW c \in Calls, NEW r \in CallType, Begin(c, r)
      PROVE  TypeOK'
  BY <1>1 DEF TypeOK, Begin
<1>2. ASSUME NEW o \in Orders, CreateOrder(o)
      PROVE  TypeOK'
  BY <1>2 DEF TypeOK, CreateOrder, OrderStatus
<1>3. ASSUME NEW c \in Calls, NEW o \in Orders, NEW m \in Methods, BeginPlace(c, o, m)
      PROVE  TypeOK'
  BY <1>1, <1>3 DEF BeginPlace, Idle, CallType, Kind
<1>4. ASSUME NEW c \in Calls, PlaceSame(c)
      PROVE  TypeOK'
  BY <1>4 DEF TypeOK, PlaceSame, End
<1>5. ASSUME NEW c \in Calls, PlaceNew(c)
      PROVE  TypeOK'
  <2> DEFINE o == call[c].order
             m == call[c].method
  <2>1. /\ payment' \in [PaymentId -> PaymentStatus]
        /\ m \in Methods \cup {None}
    BY <1>5, ClosedType DEF TypeOK, PlaceNew, PaymentStatus, CallType
  <2>2. /\ order' \in [Orders -> OrderStatus]
        /\ method' \in [PaymentId -> Methods \cup {None}]
    BY <1>5, <2>1 DEF TypeOK, PlaceNew, OrderStatus
  <2>3. attempts' \in [Orders -> 0..MaxAttempts]
    <3>1. /\ attempts \in [Orders -> 0..MaxAttempts]
          /\ attempts[o] < MaxAttempts
          /\ attempts' = [attempts EXCEPT ![o] = @ + 1]
      BY <1>5 DEF TypeOK, PlaceNew
    <3>2. o \in Orders => attempts[o] + 1 \in 0..MaxAttempts
      BY <3>1, AttemptsAssumption
    <3> QED
      BY <3>1, <3>2
  <2> QED
    BY <1>5, <2>1, <2>2, <2>3 DEF TypeOK, PlaceNew, End
<1>6. ASSUME NEW c \in Calls, NEW p \in PaymentId, BeginUpload(c, p)
      PROVE  TypeOK'
  BY <1>1, <1>6 DEF BeginUpload, Idle, CallType, Kind
<1>7. ASSUME NEW c \in Calls, NEW x \in Objects, StoreReceipt(c, x)
      PROVE  TypeOK'
  BY <1>7 DEF TypeOK, StoreReceipt, CallType, Kind
<1>8. ASSUME NEW c \in Calls, SubmitReceipt(c)
      PROVE  TypeOK'
  <2>1. call[c].payment \in PaymentId \cup {None}
    BY DEF TypeOK, CallType
  <2> QED
    BY <1>8, <2>1 DEF TypeOK, SubmitReceipt, End, OrderStatus, PaymentStatus, Decision
<1>9. ASSUME NEW p \in PaymentId, Approve(p)
      PROVE  TypeOK'
  <2>1. p[1] \in Orders
    BY DEF PaymentId
  <2> QED
    BY <1>9, <2>1, OwnedType, DecidedType
    DEF TypeOK, Approve, OrderStatus, PaymentStatus, Decision
<1>10. ASSUME NEW p \in PaymentId, Reject(p)
       PROVE  TypeOK'
  BY <1>10, DecidedType DEF TypeOK, Reject, OrderStatus, PaymentStatus, Decision
<1>11. ASSUME NEW c \in Calls, NEW o \in Orders,
              BeginFree(c, o) \/ BeginCancelByBuyer(c, o) \/ BeginCancelByOwner(c, o)
       PROVE  TypeOK'
  BY <1>1, <1>11 DEF BeginFree, BeginCancelByBuyer, BeginCancelByOwner, Idle, CallType, Kind
<1>12. ASSUME NEW c \in Calls, CompleteFree(c)
       PROVE  TypeOK'
  <2>1. call[c].order \in Orders
    BY <1>12, FreeAssumption DEF CompleteFree, FreeAllowed
  <2> QED
    BY <1>12, <2>1, OwnedType DEF TypeOK, CompleteFree, End, OrderStatus
<1>13. ASSUME NEW c \in Calls, CancelByBuyer(c) \/ CancelByOwner(c)
       PROVE  TypeOK'
  BY <1>13, ClosedType DEF TypeOK, CancelByBuyer, CancelByOwner, End, OrderStatus
<1>14. ASSUME NEW c \in Calls, Refuse(c) \/ Fail(c)
       PROVE  TypeOK'
  BY <1>14 DEF TypeOK, Refuse, Fail, Abandon, End
<1>15. CASE UNCHANGED vars
  BY <1>15 DEF TypeOK, vars
<1> QED
  BY <1>2, <1>3, <1>4, <1>5, <1>6, <1>7, <1>8, <1>9, <1>10, <1>11, <1>12, <1>13, <1>14, <1>15
  DEF Next, BuyerNext, OwnerNext

\* Every state of checkout is well typed: no request leaves a row, a receipt
\* or another request in a status the code does not name, REFUNDED included.
THEOREM TypeCorrect == Spec => []TypeOK
<1>1. Init => TypeOK
  BY IdleType, AttemptsAssumption DEF Init, TypeOK, OrderStatus, PaymentStatus, Decision
<1> QED
  BY <1>1, TypeStep, PTL DEF Spec

-----------------------------------------------------------------------------
\* Requests in flight.

\* A receipt row is written only for an object that was stored before.
ReceiptIsStored == \A x \in Objects : receipt[x] # None => x \in stored

RequestInv == RequestsAreSound /\ ReceiptIsStored

\* Beginning a request keeps the invariant when the request is sound itself.
LEMMA BeginSound ==
  ASSUME TypeOK, RequestInv, NEW c \in Calls, NEW r \in CallType, Begin(c, r),
         r.kind # "store",
         r.kind \in {"place", "free", "cancelBuyer", "cancelOwner"} => r.order \in Orders,
         r.kind = "place" => r.order \notin Free /\ r.method \in Methods,
         r.kind = "upload" => r.payment \in PaymentId
  PROVE  RequestInv'
<1>1. ReceiptIsStored'
  BY DEF RequestInv, ReceiptIsStored, Begin
<1>2. /\ call'[c] = r
      /\ \A d \in Calls \ {c} : call'[d] = call[d]
      /\ receipt' = receipt /\ stored' = stored
  BY DEF Begin, TypeOK
<1>3. RequestsAreSound'
  BY <1>2 DEF RequestInv, RequestsAreSound
<1> QED
  BY <1>1, <1>3 DEF RequestInv

\* Ending one keeps it, when no receipt row changes.
LEMMA EndSound ==
  ASSUME TypeOK, RequestInv, NEW c \in Calls, End(c), UNCHANGED <<receipt, stored>>
  PROVE  RequestInv'
<1>1. /\ call'[c] = Idle
      /\ \A d \in Calls \ {c} : call'[d] = call[d]
  BY DEF End, TypeOK
<1>2. Idle.kind = "idle"
  BY DEF Idle
<1> QED
  BY <1>1, <1>2 DEF RequestInv, RequestsAreSound, ReceiptIsStored

LEMMA RequestStep == TypeOK /\ RequestInv /\ [Next]_vars => RequestInv'
<1> SUFFICES ASSUME TypeOK, RequestInv, [Next]_vars
             PROVE  RequestInv'
  OBVIOUS
<1>1. ASSUME NEW o \in Orders, CreateOrder(o)
      PROVE  RequestInv'
  BY <1>1 DEF CreateOrder, RequestInv, RequestsAreSound, ReceiptIsStored
<1>2. ASSUME NEW c \in Calls, NEW o \in Orders, NEW m \in Methods, BeginPlace(c, o, m)
      PROVE  RequestInv'
  <2> DEFINE r == [Idle EXCEPT !.kind = "place", !.order = o, !.method = m]
  <2>1. /\ r \in CallType /\ r.kind = "place" /\ r.order = o /\ r.method = m
        /\ Begin(c, r) /\ o \notin Free
    BY <1>2 DEF BeginPlace, Idle, CallType, Kind
  <2> QED
    BY <2>1, BeginSound
<1>3. ASSUME NEW c \in Calls, NEW p \in PaymentId, BeginUpload(c, p)
      PROVE  RequestInv'
  <2> DEFINE r == [Idle EXCEPT !.kind = "upload", !.payment = p]
  <2>1. /\ r \in CallType /\ r.kind = "upload" /\ r.payment = p
        /\ Begin(c, r)
    BY <1>3 DEF BeginUpload, Idle, CallType, Kind
  <2> QED
    BY <2>1, BeginSound
<1>4. ASSUME NEW c \in Calls, NEW o \in Orders,
             BeginFree(c, o) \/ BeginCancelByBuyer(c, o) \/ BeginCancelByOwner(c, o)
      PROVE  RequestInv'
  <2>1. ASSUME NEW k \in {"free", "cancelBuyer", "cancelOwner"},
               Begin(c, [Idle EXCEPT !.kind = k, !.order = o])
        PROVE  RequestInv'
    <3> DEFINE r == [Idle EXCEPT !.kind = k, !.order = o]
    <3>1. r \in CallType /\ r.kind = k /\ r.order = o
      BY DEF Idle, CallType, Kind
    <3> QED
      BY <2>1, <3>1, BeginSound
  <2> QED
    BY <1>4, <2>1 DEF BeginFree, BeginCancelByBuyer, BeginCancelByOwner
<1>5. ASSUME NEW c \in Calls, NEW x \in Objects, StoreReceipt(c, x)
      PROVE  RequestInv'
  <2>1. /\ x \notin stored /\ receipt[x] = None
        /\ receipt' = receipt /\ stored' = stored \cup {x}
    BY <1>5 DEF StoreReceipt, RequestInv, ReceiptIsStored
  <2>2. /\ call'[c].kind = "store" /\ call'[c].object = x
        /\ call'[c].payment = call[c].payment
        /\ call[c].kind = "upload"
        /\ \A d \in Calls \ {c} : call'[d] = call[d]
    BY <1>5 DEF StoreReceipt, TypeOK, CallType
  <2>3. ReceiptIsStored'
    BY <2>1 DEF RequestInv, ReceiptIsStored
  <2>4. RequestsAreSound'
    BY <2>1, <2>2 DEF RequestInv, RequestsAreSound
  <2> QED
    BY <2>3, <2>4 DEF RequestInv
<1>6. ASSUME NEW c \in Calls, SubmitReceipt(c)
      PROVE  RequestInv'
  <2> DEFINE x == call[c].object
  <2>1. /\ call[c].kind = "store"
        /\ receipt' = [receipt EXCEPT ![x] = call[c].payment]
        /\ stored' = stored /\ x \in stored /\ x \in Objects
        /\ call' = [call EXCEPT ![c] = Idle]
    BY <1>6 DEF SubmitReceipt, End, RequestInv, RequestsAreSound, TypeOK
  <2>2. /\ call'[c].kind = "idle"
        /\ \A d \in Calls \ {c} : call'[d] = call[d]
        /\ \A y \in Objects \ {x} : receipt'[y] = receipt[y]
    BY <2>1 DEF TypeOK, Idle
  <2>3. ReceiptIsStored'
    BY <2>1, <2>2 DEF RequestInv, ReceiptIsStored
  <2>4. RequestsAreSound'
    BY <2>1, <2>2 DEF RequestInv, RequestsAreSound, TypeOK
  <2> QED
    BY <2>3, <2>4 DEF RequestInv
<1>7. ASSUME NEW p \in PaymentId, Approve(p) \/ Reject(p)
      PROVE  RequestInv'
  BY <1>7 DEF Approve, Reject, RequestInv, RequestsAreSound, ReceiptIsStored
<1>8. ASSUME NEW c \in Calls,
             \/ PlaceSame(c) \/ PlaceNew(c) \/ CompleteFree(c)
             \/ CancelByBuyer(c) \/ CancelByOwner(c) \/ Refuse(c) \/ Fail(c)
      PROVE  RequestInv'
  <2>1. End(c) /\ UNCHANGED <<receipt, stored>>
    BY <1>8 DEF PlaceSame, PlaceNew, CompleteFree, CancelByBuyer, CancelByOwner,
                Refuse, Fail, Abandon
  <2> QED
    BY <2>1, EndSound
<1>9. CASE UNCHANGED vars
  BY <1>9 DEF vars, RequestInv, RequestsAreSound, ReceiptIsStored
<1> QED
  BY <1>1, <1>2, <1>3, <1>4, <1>5, <1>6, <1>7, <1>8, <1>9 DEF Next, BuyerNext, OwnerNext

\* No request ever acts on an object that another upload recorded, nor starts
\* a payment for an order that has nothing to pay.
THEOREM RequestsCorrect == Spec => []RequestsAreSound
<1>1. Init => RequestInv
  BY DEF Init, RequestInv, RequestsAreSound, ReceiptIsStored, Idle
<1>2. RequestInv => RequestsAreSound
  BY DEF RequestInv
<1> QED
  BY <1>1, <1>2, RequestStep, TypeCorrect, PTL DEF Spec

-----------------------------------------------------------------------------
\* Orders and their payments.

OneOpenFor(o) ==
  \A p, q \in OpenPayments(o) : p = q

PaymentInv == \A o \in Orders : OneOpenFor(o) /\ RowsFor(o)

\* A payment is the pair of its order and its attempt.
LEMMA PaymentPair ==
  ASSUME NEW p \in PaymentId
  PROVE  /\ p[1] \in Orders /\ p[2] \in Attempt /\ p = <<p[1], p[2]>>
  BY DEF PaymentId

LEMMA OneOpenBoth ==
  (\A o \in Orders : OneOpenFor(o)) <=> OneOpenPayment
  BY PaymentPair DEF OneOpenFor, OneOpenPayment, OpenPayments

\* What a step leaves alone of an order stays as it was.
LEMMA OrderFrame ==
  ASSUME NEW o \in Orders, OneOpenFor(o), RowsFor(o),
         order'[o] = order[o], attempts'[o] = attempts[o],
         \A p \in PaymentId : p[1] = o => payment'[p] = payment[p]
  PROVE  OneOpenFor(o)' /\ RowsFor(o)'
<1>1. OpenPayments(o)' = OpenPayments(o)
  BY DEF OpenPayments
<1>2. OneOpenFor(o)'
  BY <1>1 DEF OneOpenFor
<1>3. \A p \in OpenPayments(o) : payment'[p] = payment[p]
  BY DEF OpenPayments
<1>4. RowsFor(o)'
  BY <1>1, <1>3 DEF RowsFor
<1> QED
  BY <1>2, <1>4

\* A row is fresh when its attempt is past those the order has made.
LEMMA NoRowsYet ==
  ASSUME NEW o \in Orders, RowsFor(o), attempts[o] = 0, TypeOK
  PROVE  \A p \in PaymentId : p[1] = o => payment[p] = "NONE"
<1> SUFFICES ASSUME NEW p \in PaymentId, p[1] = o, payment[p] # "NONE"
             PROVE  FALSE
  OBVIOUS
<1>1. p[2] \in 1..MaxAttempts /\ p[2] <= 0
  BY PaymentPair DEF RowsFor, Attempt
<1> QED
  BY <1>1, AttemptsAssumption

\* Before a receipt, the open payment of an order is one a buyer may close.
LEMMA ClosableByBuyer ==
  ASSUME TypeOK, NEW o \in Orders, OneOpenFor(o), RowsFor(o), order[o] \in BuyerCanLock
  PROVE  \A p \in OpenPayments(o) : payment[p] \in {"INITIATED", "AWAITING_PROOF"}
<1>1. CASE order[o] = "DRAFT"
  BY <1>1, NoRowsYet DEF RowsFor, OpenPayments, OpenStatus
<1>2. CASE order[o] = "PAYMENT_ISSUE"
  BY <1>2 DEF RowsFor
<1>3. CASE order[o] = "AWAITING_PAYMENT"
  <2>1. PICK q \in OpenPayments(o) : payment[q] # "PROOF_SUBMITTED"
    BY <1>3 DEF RowsFor
  <2>2. \A p \in OpenPayments(o) : p = q
    BY <2>1 DEF OneOpenFor
  <2> QED
    BY <2>1, <2>2 DEF OpenPayments, OpenStatus
<1> QED
  BY <1>1, <1>2, <1>3 DEF BuyerCanLock

-----------------------------------------------------------------------------
\* One lemma for each action, about the order it moves.

LEMMA PlaceNewRows ==
  ASSUME TypeOK, RequestsAreSound, NEW c \in Calls, PlaceNew(c),
         NEW o, o = call[c].order, OneOpenFor(o), RowsFor(o)
  PROVE  OneOpenFor(o)' /\ RowsFor(o)'
<1>0. PICK n : n = attempts[o] + 1
  OBVIOUS
<1> DEFINE new == <<o, n>>
<1>1. /\ o \in Orders /\ o \notin Free
      /\ order[o] \in BuyerCanLock
  BY DEF RequestsAreSound, PlaceNew, PlaceAllowed, PaymentCanStart, BuyerCanLock
<1>2. /\ attempts[o] \in Nat /\ n \in Attempt /\ attempts'[o] = n
      /\ new \in PaymentId
  BY <1>0, <1>1, AttemptsAssumption DEF TypeOK, PlaceNew, Attempt, PaymentId
<1>3. payment[new] = "NONE"
  BY <1>0, <1>1, <1>2 DEF RowsFor, TypeOK
<1>4. \A p \in OpenPayments(o) : payment[p] \in {"INITIATED", "AWAITING_PROOF"}
  BY <1>1, ClosableByBuyer
<1>5. /\ payment'[new] \in {"INITIATED", "AWAITING_PROOF"}
      /\ \A p \in PaymentId \ {new} : payment'[p] = ClosedByBuyer(o)[p]
  BY <1>0, <1>2 DEF PlaceNew, ClosedByBuyer
<1>6. \A p \in PaymentId \ {new} : p[1] = o =>
        /\ payment'[p] \notin OpenStatus
        /\ payment'[p] = "APPROVED" <=> payment[p] = "APPROVED"
        /\ payment'[p] # "NONE" => payment[p] # "NONE"
  BY <1>4, <1>5 DEF ClosedByBuyer, OpenPayments, OpenStatus
<1>7. OpenPayments(o)' = {new}
  BY <1>2, <1>5, <1>6 DEF OpenPayments, OpenStatus
<1>8. order'[o] = "AWAITING_PAYMENT"
  BY <1>1 DEF PlaceNew, TypeOK, CanMove, BuyerCanLock
<1>9. OneOpenFor(o)'
  BY <1>7 DEF OneOpenFor
<1>10. \A p \in PaymentId : p[1] = o /\ payment'[p] # "NONE" => p[2] <= n
  BY <1>0, <1>1, <1>2, <1>6, PaymentPair DEF RowsFor, Attempt
<1>11. \A p \in PaymentId : p[1] = o => payment'[p] # "APPROVED"
  BY <1>1, <1>5, <1>6 DEF RowsFor, BuyerCanLock
<1>12. RowsFor(o)'
  BY <1>1, <1>2, <1>5, <1>7, <1>8, <1>10, <1>11 DEF RowsFor
<1> QED
  BY <1>9, <1>12

LEMMA SubmitRows ==
  ASSUME TypeOK, RequestsAreSound, NEW c \in Calls, SubmitReceipt(c),
         NEW p, p = call[c].payment, NEW o, o = p[1], OneOpenFor(o), RowsFor(o)
  PROVE  OneOpenFor(o)' /\ RowsFor(o)'
<1>1. /\ p \in PaymentId /\ o \in Orders
      /\ payment[p] = "AWAITING_PROOF"
      /\ order[o] = "AWAITING_PAYMENT"
      /\ payment' = [payment EXCEPT ![p] = "PROOF_SUBMITTED"]
      /\ order' = [order EXCEPT ![o] = "PROOF_SUBMITTED"]
      /\ attempts' = attempts
  BY PaymentPair DEF RequestsAreSound, SubmitReceipt, ReceiptAllowed, CanMove
<1>2. /\ payment'[p] = "PROOF_SUBMITTED"
      /\ \A q \in PaymentId \ {p} : payment'[q] = payment[q]
      /\ order'[o] = "PROOF_SUBMITTED"
  BY <1>1 DEF TypeOK
<1>3. OpenPayments(o)' = OpenPayments(o) /\ p \in OpenPayments(o)
  BY <1>1, <1>2 DEF OpenPayments, OpenStatus
<1>4. OneOpenFor(o)'
  BY <1>3 DEF OneOpenFor
<1>5. \A q \in PaymentId : payment'[q] = "APPROVED" <=> payment[q] = "APPROVED"
  BY <1>1, <1>2
<1>6. RowsFor(o)'
  BY <1>1, <1>2, <1>3, <1>5 DEF RowsFor
<1> QED
  BY <1>4, <1>6

LEMMA DecideRows ==
  ASSUME TypeOK, NEW p \in PaymentId, Approve(p) \/ Reject(p),
         OneOpenFor(p[1]), RowsFor(p[1])
  PROVE  OneOpenFor(p[1])' /\ RowsFor(p[1])'
<1> DEFINE o == p[1]
<1>1. /\ o \in Orders
      /\ payment[p] \in OpenStatus /\ p \in OpenPayments(o)
      /\ order[o] \in {"AWAITING_PAYMENT", "PROOF_SUBMITTED"}
      /\ attempts' = attempts
  BY PaymentPair DEF Approve, Reject, CanDecide, CanMove, OpenPayments, RowsFor
<1>2. /\ \A q \in PaymentId \ {p} : payment'[q] = payment[q]
      /\ \/ payment'[p] = "APPROVED" /\ order'[o] = "COMPLETED"
         \/ payment'[p] = "REJECTED" /\ order'[o] = "PAYMENT_ISSUE"
  BY <1>1 DEF Approve, Reject, TypeOK
<1>3. OpenPayments(o)' = {}
  BY <1>1, <1>2 DEF OneOpenFor, OpenPayments, OpenStatus
<1>4. \A q \in PaymentId : q[1] = o => payment[q] # "APPROVED"
  BY <1>1 DEF RowsFor
<1>5. o \notin Free
  BY <1>1, NoRowsYet DEF RowsFor, OpenStatus
<1>6. p[2] = attempts[o]
  BY <1>1 DEF RowsFor
<1>7. OneOpenFor(o)'
  BY <1>3 DEF OneOpenFor
<1>8. RowsFor(o)'
  <2>1. \A q \in PaymentId : q[1] = o /\ payment'[q] # "NONE" => q[2] <= attempts'[o]
    BY <1>1, <1>2 DEF RowsFor, OpenStatus
  <2>2. CASE payment'[p] = "APPROVED" /\ order'[o] = "COMPLETED"
    BY <1>1, <1>2, <1>3, <1>4, <1>5, <2>1, <2>2 DEF RowsFor
  <2>3. CASE payment'[p] = "REJECTED" /\ order'[o] = "PAYMENT_ISSUE"
    BY <1>1, <1>2, <1>3, <1>4, <1>5, <1>6, <2>1, <2>3 DEF RowsFor
  <2> QED
    BY <1>2, <2>2, <2>3
<1> QED
  BY <1>7, <1>8

LEMMA CancelRows ==
  ASSUME TypeOK, RequestsAreSound, NEW c \in Calls, CancelByBuyer(c) \/ CancelByOwner(c),
         NEW o, o = call[c].order, OneOpenFor(o), RowsFor(o)
  PROVE  OneOpenFor(o)' /\ RowsFor(o)'
<1>1. o \in Orders
  BY DEF RequestsAreSound, CancelByBuyer, CancelByOwner
<1>2. /\ order'[o] = "CANCELLED" /\ attempts' = attempts
      /\ order[o] # "COMPLETED"
  BY <1>1 DEF TypeOK, CancelByBuyer, CancelByOwner, CanMove
<1>3. \A p \in PaymentId : p[1] = o =>
        /\ payment'[p] \notin OpenStatus
        /\ payment'[p] = "APPROVED" <=> payment[p] = "APPROVED"
        /\ payment'[p] # "NONE" => payment[p] # "NONE"
  <2>1. CASE CancelByOwner(c)
    BY <2>1 DEF CancelByOwner, ClosedByOwner, OpenStatus
  <2>2. CASE CancelByBuyer(c)
    <3>1. \A p \in OpenPayments(o) : payment[p] \in {"INITIATED", "AWAITING_PROOF"}
      BY <1>1, <2>2, ClosableByBuyer DEF CancelByBuyer
    <3> QED
      BY <2>2, <3>1 DEF CancelByBuyer, ClosedByBuyer, OpenPayments, OpenStatus
  <2> QED
    BY <2>1, <2>2
<1>4. OpenPayments(o)' = {}
  BY <1>3 DEF OpenPayments
<1>5. OneOpenFor(o)'
  BY <1>4 DEF OneOpenFor
<1>6. RowsFor(o)'
  BY <1>2, <1>3, <1>4 DEF RowsFor
<1> QED
  BY <1>5, <1>6

LEMMA CreateRows ==
  ASSUME TypeOK, NEW o \in Orders, CreateOrder(o), OneOpenFor(o), RowsFor(o)
  PROVE  OneOpenFor(o)' /\ RowsFor(o)'
<1>1. /\ order[o] = "NONE" /\ order'[o] = "DRAFT"
      /\ payment' = payment /\ attempts' = attempts
  BY DEF CreateOrder, TypeOK
<1>2. OpenPayments(o)' = OpenPayments(o)
  BY <1>1 DEF OpenPayments
<1> QED
  BY <1>1, <1>2 DEF RowsFor, OneOpenFor

LEMMA FreeRows ==
  ASSUME TypeOK, NEW c \in Calls, CompleteFree(c),
         NEW o, o = call[c].order, OneOpenFor(o), RowsFor(o)
  PROVE  OneOpenFor(o)' /\ RowsFor(o)'
<1>1. /\ o \in Orders /\ o \in Free /\ attempts[o] = 0 /\ order[o] = "DRAFT"
      /\ payment' = payment /\ attempts' = attempts
      /\ order'[o] = "COMPLETED"
  BY FreeAssumption DEF CompleteFree, FreeAllowed, TypeOK
<1>2. \A p \in PaymentId : p[1] = o => payment[p] = "NONE"
  BY <1>1, NoRowsYet
<1>3. OpenPayments(o)' = {}
  BY <1>1, <1>2 DEF OpenPayments, OpenStatus
<1> QED
  BY <1>1, <1>2, <1>3 DEF RowsFor, OneOpenFor

-----------------------------------------------------------------------------
\* Every step moves one order at most, and keeps that one in agreement.

LEMMA PaymentStep ==
  TypeOK /\ RequestsAreSound /\ PaymentInv /\ [Next]_vars => PaymentInv'
<1> SUFFICES ASSUME TypeOK, RequestsAreSound, PaymentInv, [Next]_vars,
                    NEW o \in Orders
             PROVE  OneOpenFor(o)' /\ RowsFor(o)'
  BY DEF PaymentInv
<1>0. OneOpenFor(o) /\ RowsFor(o)
  BY DEF PaymentInv
<1>1. ASSUME order'[o] = order[o], attempts'[o] = attempts[o],
             \A p \in PaymentId : p[1] = o => payment'[p] = payment[p]
      PROVE  OneOpenFor(o)' /\ RowsFor(o)'
  BY <1>0, <1>1, OrderFrame
<1>2. CASE UNCHANGED <<order, payment, attempts>>
  BY <1>1, <1>2
<1>3. ASSUME NEW x \in Orders, CreateOrder(x)
      PROVE  OneOpenFor(o)' /\ RowsFor(o)'
  <2>1. CASE x = o
    BY <1>0, <1>3, <2>1, CreateRows
  <2>2. CASE x # o
    BY <1>1, <1>3, <2>2 DEF CreateOrder, TypeOK
  <2> QED
    BY <2>1, <2>2
<1>4. ASSUME NEW c \in Calls, PlaceNew(c)
      PROVE  OneOpenFor(o)' /\ RowsFor(o)'
  <2>1. CASE call[c].order = o
    BY <1>0, <1>4, <2>1, PlaceNewRows
  <2>2. CASE call[c].order # o
    <3>1. \A p \in PaymentId : p[1] = o => payment'[p] = payment[p]
      BY <1>4, <2>2 DEF PlaceNew, ClosedByBuyer
    <3> QED
      BY <1>1, <1>4, <2>2, <3>1 DEF PlaceNew, TypeOK
  <2> QED
    BY <2>1, <2>2
<1>5. ASSUME NEW c \in Calls, SubmitReceipt(c)
      PROVE  OneOpenFor(o)' /\ RowsFor(o)'
  <2>1. CASE call[c].payment[1] = o
    BY <1>0, <1>5, <2>1, SubmitRows
  <2>2. CASE call[c].payment[1] # o
    BY <1>1, <1>5, <2>2 DEF SubmitReceipt, TypeOK
  <2> QED
    BY <2>1, <2>2
<1>6. ASSUME NEW p \in PaymentId, Approve(p) \/ Reject(p)
      PROVE  OneOpenFor(o)' /\ RowsFor(o)'
  <2>1. CASE p[1] = o
    BY <1>0, <1>6, <2>1, DecideRows
  <2>2. CASE p[1] # o
    BY <1>1, <1>6, <2>2 DEF Approve, Reject, TypeOK
  <2> QED
    BY <2>1, <2>2
<1>7. ASSUME NEW c \in Calls, CompleteFree(c)
      PROVE  OneOpenFor(o)' /\ RowsFor(o)'
  <2>1. CASE call[c].order = o
    BY <1>0, <1>7, <2>1, FreeRows
  <2>2. CASE call[c].order # o
    BY <1>1, <1>7, <2>2 DEF CompleteFree, TypeOK
  <2> QED
    BY <2>1, <2>2
<1>8. ASSUME NEW c \in Calls, CancelByBuyer(c) \/ CancelByOwner(c)
      PROVE  OneOpenFor(o)' /\ RowsFor(o)'
  <2>1. CASE call[c].order = o
    BY <1>0, <1>8, <2>1, CancelRows
  <2>2. CASE call[c].order # o
    <3>1. \A p \in PaymentId : p[1] = o => payment'[p] = payment[p]
      BY <1>8, <2>2 DEF CancelByBuyer, CancelByOwner, ClosedByBuyer, ClosedByOwner
    <3> QED
      BY <1>1, <1>8, <2>2, <3>1 DEF CancelByBuyer, CancelByOwner, TypeOK
  <2> QED
    BY <2>1, <2>2
<1>9. ASSUME NEW c \in Calls,
             \/ \E r : Begin(c, r)
             \/ PlaceSame(c) \/ Refuse(c) \/ Fail(c)
             \/ \E x \in Objects : StoreReceipt(c, x)
      PROVE  OneOpenFor(o)' /\ RowsFor(o)'
  BY <1>2, <1>9 DEF Begin, PlaceSame, Refuse, Fail, Abandon, StoreReceipt
<1>10. CASE UNCHANGED vars
  BY <1>2, <1>10 DEF vars
<1> QED
  <2>1. CASE \E c \in Calls : BuyerNext(c)
    BY <2>1, <1>4, <1>5, <1>7, <1>8, <1>9
    DEF BuyerNext, BeginPlace, BeginUpload, BeginFree, BeginCancelByBuyer
  <2>2. CASE OwnerNext
    BY <2>2, <1>6, <1>8, <1>9 DEF OwnerNext, BeginCancelByOwner
  <2> QED
    BY <2>1, <2>2, <1>3, <1>10 DEF Next

\* Whatever was clicked twice, changed, uploaded, retried, decided or cancelled,
\* in whatever order, an order's status and its payment rows agree, and only
\* its last attempt can be open.
THEOREM PaymentsCorrect == Spec => []OrderMatchesPayments
<1>1. Init => PaymentInv
  BY DEF Init, PaymentInv, RowsFor, OneOpenFor, OpenPayments, OpenStatus
<1>2. PaymentInv => OrderMatchesPayments
  BY DEF PaymentInv, OrderMatchesPayments
<1> QED
  BY <1>1, <1>2, PaymentStep, TypeCorrect, RequestsCorrect, PTL DEF Spec

\* The unique index on open payments never has anything to refuse.
THEOREM OneOpenCorrect == Spec => []OneOpenPayment
<1>1. Init => PaymentInv
  BY DEF Init, PaymentInv, RowsFor, OneOpenFor, OpenPayments, OpenStatus
<1>2. PaymentInv => OneOpenPayment
  BY OneOpenBoth DEF PaymentInv
<1> QED
  BY <1>1, <1>2, PaymentStep, TypeCorrect, RequestsCorrect, PTL DEF Spec

-----------------------------------------------------------------------------
\* Receipts.

\* What a receipt must say, status by status.
LEMMA WrittenValues ==
  /\ WrittenFor("NONE") = "NONE"
  /\ WrittenFor("INITIATED") = "NONE"
  /\ WrittenFor("AWAITING_PROOF") = "NONE"
  /\ WrittenFor("PROOF_SUBMITTED") = "PENDING"
  /\ WrittenFor("CANCELLED") = "PENDING"
  /\ WrittenFor("APPROVED") = "APPROVED"
  /\ WrittenFor("REJECTED") = "REJECTED"
<1>1. WrittenFor("APPROVED") = "APPROVED"
  BY DEF WrittenFor
<1>2. WrittenFor("REJECTED") = "REJECTED"
  BY DEF WrittenFor
<1>3. WrittenFor("PROOF_SUBMITTED") = "PENDING" /\ WrittenFor("CANCELLED") = "PENDING"
  BY DEF WrittenFor
<1>4. /\ WrittenFor("NONE") = "NONE" /\ WrittenFor("INITIATED") = "NONE"
      /\ WrittenFor("AWAITING_PROOF") = "NONE"
  BY DEF WrittenFor
<1> QED
  BY <1>1, <1>2, <1>3, <1>4

\* The rows of one receipt, and a receipt for what is under review.
ReceiptTells(x) ==
  receipt[x] # None =>
     /\ x \in stored
     /\ decision[x] # "NONE"
     /\ decision[x] = WrittenFor(payment[receipt[x]])
     /\ \A y \in Objects : receipt[y] = receipt[x] => y = x

HasReceipt(p) == payment[p] = "PROOF_SUBMITTED" => \E x \in Objects : receipt[x] = p

LEMMA ReceiptParts ==
  ReceiptMatchesPayment <=> /\ \A x \in Objects : ReceiptTells(x)
                            /\ \A p \in PaymentId : HasReceipt(p)
  BY DEF ReceiptMatchesPayment, ReceiptTells, HasReceipt

\* A payment before its receipt has none.
LEMMA NoReceiptYet ==
  ASSUME TypeOK, ReceiptMatchesPayment, NEW x \in Objects, receipt[x] # None,
         payment[receipt[x]] \in {"NONE", "INITIATED", "AWAITING_PROOF"}
  PROVE  FALSE
  BY WrittenValues DEF ReceiptMatchesPayment

\* Receipts and objects stand while no payment that has, or needs, a receipt
\* moves to a status that asks for another.
LEMMA ReceiptFrame ==
  ASSUME TypeOK, ReceiptMatchesPayment, UNCHANGED <<receipt, decision>>,
         stored \subseteq stored',
         \A p \in PaymentId :
            \/ payment'[p] = payment[p]
            \/ payment[p] \in {"NONE", "INITIATED", "AWAITING_PROOF"} /\ payment'[p] # "PROOF_SUBMITTED"
            \/ payment[p] = "PROOF_SUBMITTED" /\ payment'[p] = "CANCELLED"
  PROVE  ReceiptMatchesPayment'
<1>1. ASSUME NEW x \in Objects PROVE ReceiptTells(x)'
  <2> SUFFICES ASSUME receipt[x] # None PROVE ReceiptTells(x)'
    BY DEF ReceiptTells
  <2>1. receipt[x] \in PaymentId
    BY DEF TypeOK
  <2>2. payment[receipt[x]] \notin {"NONE", "INITIATED", "AWAITING_PROOF"}
    BY NoReceiptYet
  <2>3. WrittenFor(payment'[receipt[x]]) = WrittenFor(payment[receipt[x]])
    BY <2>1, <2>2, WrittenValues
  <2>4. ReceiptTells(x)
    BY ReceiptParts
  <2> QED
    BY <2>3, <2>4 DEF ReceiptTells
<1>2. ASSUME NEW p \in PaymentId PROVE HasReceipt(p)'
  <2>1. HasReceipt(p)
    BY ReceiptParts
  <2> QED
    BY <2>1 DEF HasReceipt
<1>3. /\ \A x \in Objects : ReceiptTells(x)'
      /\ \A p \in PaymentId : HasReceipt(p)'
  BY <1>1, <1>2
<1> QED
  BY <1>3 DEF ReceiptMatchesPayment, ReceiptTells, HasReceipt

LEMMA SubmitReceiptTells ==
  ASSUME TypeOK, RequestInv, ReceiptMatchesPayment, NEW c \in Calls, SubmitReceipt(c)
  PROVE  ReceiptMatchesPayment'
<1>0. PICK p : p = call[c].payment
  OBVIOUS
<1>x. PICK x : x = call[c].object
  OBVIOUS
<1>1. /\ p \in PaymentId /\ x \in Objects /\ x \in stored /\ receipt[x] = None
      /\ payment[p] = "AWAITING_PROOF" /\ p # None
  BY <1>0, <1>x, NoneAssumption
  DEF SubmitReceipt, ReceiptAllowed, RequestInv, RequestsAreSound, TypeOK, PaymentId, Attempt
<1>2. /\ receipt'[x] = p /\ decision'[x] = "PENDING"
      /\ \A y \in Objects \ {x} : receipt'[y] = receipt[y] /\ decision'[y] = decision[y]
      /\ payment'[p] = "PROOF_SUBMITTED"
      /\ \A q \in PaymentId \ {p} : payment'[q] = payment[q]
      /\ stored' = stored
  BY <1>0, <1>x, <1>1 DEF SubmitReceipt, TypeOK
<1>3. \A y \in Objects : receipt[y] # p
  BY <1>1, NoReceiptYet
<1>4. ASSUME NEW y \in Objects PROVE ReceiptTells(y)'
  <2>1. CASE y = x
    BY <1>1, <1>2, <1>3, <2>1, WrittenValues DEF ReceiptTells
  <2>2. CASE y # x
    <3>1. ReceiptTells(y)
      BY ReceiptParts
    <3>2. receipt[y] # None => receipt[y] \in PaymentId \ {p}
      BY <1>3 DEF TypeOK
    <3> QED
      BY <1>1, <1>2, <1>3, <2>2, <3>1, <3>2 DEF ReceiptTells
  <2> QED
    BY <2>1, <2>2
<1>5. ASSUME NEW q \in PaymentId PROVE HasReceipt(q)'
  <2>1. HasReceipt(q) /\ q # None
    BY ReceiptParts, NoneAssumption DEF PaymentId, Attempt
  <2>2. CASE q = p
    BY <1>1, <1>2, <2>2 DEF HasReceipt
  <2>3. CASE q # p
    BY <1>1, <1>2, <2>1, <2>3 DEF HasReceipt
  <2> QED
    BY <2>2, <2>3
<1>6. /\ \A y \in Objects : ReceiptTells(y)'
      /\ \A q \in PaymentId : HasReceipt(q)'
  BY <1>4, <1>5
<1> QED
  BY <1>6 DEF ReceiptMatchesPayment, ReceiptTells, HasReceipt

LEMMA DecideTells ==
  ASSUME TypeOK, ReceiptMatchesPayment, NEW p \in PaymentId, Approve(p) \/ Reject(p)
  PROVE  ReceiptMatchesPayment'
<1>1. PICK d \in {"APPROVED", "REJECTED"} :
         /\ payment[p] \in OpenStatus
         /\ payment' = [payment EXCEPT ![p] = d]
         /\ decision' = Decided(p, d)
         /\ receipt' = receipt /\ stored' = stored
  BY DEF Approve, Reject, CanDecide
<1>2. /\ payment'[p] = d
      /\ \A q \in PaymentId \ {p} : payment'[q] = payment[q]
      /\ \A y \in Objects : decision'[y] = IF receipt[y] = p /\ decision[y] = "PENDING" THEN d ELSE decision[y]
  BY <1>1 DEF Decided, TypeOK
<1>3. ASSUME NEW y \in Objects PROVE ReceiptTells(y)'
  <2> SUFFICES ASSUME receipt[y] # None PROVE ReceiptTells(y)'
    BY <1>1 DEF ReceiptTells
  <2>1. ReceiptTells(y) /\ receipt[y] \in PaymentId
    BY ReceiptParts DEF TypeOK
  <2>2. CASE receipt[y] = p
    <3>1. payment[p] = "PROOF_SUBMITTED"
      BY <1>1, <2>2, NoReceiptYet DEF OpenStatus
    <3>2. decision[y] = "PENDING"
      BY <2>1, <2>2, <3>1, WrittenValues DEF ReceiptTells
    <3>3. decision'[y] = d /\ WrittenFor(d) = d /\ d # "NONE"
      BY <1>2, <2>2, <3>2, WrittenValues
    <3> QED
      BY <1>1, <1>2, <2>1, <2>2, <3>3 DEF ReceiptTells
  <2>3. CASE receipt[y] # p
    BY <1>1, <1>2, <2>1, <2>3 DEF ReceiptTells
  <2> QED
    BY <2>2, <2>3
<1>4. ASSUME NEW q \in PaymentId PROVE HasReceipt(q)'
  <2>1. HasReceipt(q)
    BY ReceiptParts
  <2> QED
    BY <1>1, <1>2, <2>1 DEF HasReceipt
<1>5. /\ \A y \in Objects : ReceiptTells(y)'
      /\ \A q \in PaymentId : HasReceipt(q)'
  BY <1>3, <1>4
<1> QED
  BY <1>5 DEF ReceiptMatchesPayment, ReceiptTells, HasReceipt

\* What a step can do to the rows of a payment, apart from receipts.
LEMMA PlaceNewPayments ==
  ASSUME TypeOK, RequestsAreSound, PaymentInv, NEW c \in Calls, PlaceNew(c),
         NEW o, o = call[c].order, NEW n, n = attempts[o] + 1
  PROVE  /\ o \in Orders /\ <<o, n>> \in PaymentId /\ payment[<<o, n>>] = "NONE"
         /\ payment'[<<o, n>>] \in {"INITIATED", "AWAITING_PROOF"}
         /\ \A q \in PaymentId \ {<<o, n>>} :
               /\ q[1] # o => payment'[q] = payment[q]
               /\ payment[q] \in {"INITIATED", "AWAITING_PROOF"} => payment'[q] \in {payment[q], "CANCELLED"}
               /\ payment[q] \notin {"INITIATED", "AWAITING_PROOF"} => payment'[q] = payment[q]
               /\ method'[q] = method[q]
<1>1. o \in Orders /\ RowsFor(o) /\ attempts[o] < MaxAttempts
  BY DEF RequestsAreSound, PaymentInv, PlaceNew
<1>2. attempts[o] \in Nat /\ n \in Attempt /\ <<o, n>> \in PaymentId
  BY <1>1, AttemptsAssumption DEF TypeOK, Attempt, PaymentId
<1>3. payment[<<o, n>>] = "NONE"
  BY <1>1, <1>2 DEF RowsFor, TypeOK
<1>4. /\ payment'[<<o, n>>] \in {"INITIATED", "AWAITING_PROOF"}
      /\ \A q \in PaymentId \ {<<o, n>>} : payment'[q] = ClosedByBuyer(o)[q]
  BY <1>2 DEF PlaceNew, ClosedByBuyer
<1>5. \A q \in PaymentId \ {<<o, n>>} : method'[q] = method[q]
  BY <1>2 DEF PlaceNew, TypeOK
<1> QED
  BY <1>1, <1>2, <1>3, <1>4, <1>5 DEF ClosedByBuyer

LEMMA ReceiptStep ==
  TypeOK /\ RequestInv /\ PaymentInv /\ ReceiptMatchesPayment /\ [Next]_vars
     => ReceiptMatchesPayment'
<1> SUFFICES ASSUME TypeOK, RequestInv, PaymentInv, ReceiptMatchesPayment, [Next]_vars
             PROVE  ReceiptMatchesPayment'
  OBVIOUS
<1>1. ASSUME UNCHANGED <<payment, receipt, decision>>, stored \subseteq stored'
      PROVE  ReceiptMatchesPayment'
  BY <1>1, ReceiptFrame
<1>2. ASSUME NEW o \in Orders, CreateOrder(o)
      PROVE  ReceiptMatchesPayment'
  BY <1>1, <1>2 DEF CreateOrder
<1>3. ASSUME NEW c \in Calls, PlaceNew(c)
      PROVE  ReceiptMatchesPayment'
  <2>1. \A p \in PaymentId :
            \/ payment'[p] = payment[p]
            \/ payment[p] \in {"NONE", "INITIATED", "AWAITING_PROOF"} /\ payment'[p] # "PROOF_SUBMITTED"
    BY <1>3, PlaceNewPayments DEF RequestInv
  <2> QED
    BY <1>3, <2>1, ReceiptFrame DEF PlaceNew
<1>4. ASSUME NEW c \in Calls, SubmitReceipt(c)
      PROVE  ReceiptMatchesPayment'
  BY <1>4, SubmitReceiptTells
<1>5. ASSUME NEW p \in PaymentId, Approve(p) \/ Reject(p)
      PROVE  ReceiptMatchesPayment'
  BY <1>5, DecideTells
<1>6. ASSUME NEW c \in Calls, CancelByBuyer(c) \/ CancelByOwner(c)
      PROVE  ReceiptMatchesPayment'
  <2>1. \A p \in PaymentId :
            \/ payment'[p] = payment[p]
            \/ payment[p] \in {"INITIATED", "AWAITING_PROOF", "PROOF_SUBMITTED"} /\ payment'[p] = "CANCELLED"
    BY <1>6 DEF CancelByBuyer, CancelByOwner, ClosedByBuyer, ClosedByOwner, OpenStatus
  <2>2. UNCHANGED <<receipt, decision, stored>>
    BY <1>6 DEF CancelByBuyer, CancelByOwner
  <2> QED
    BY <2>1, <2>2, ReceiptFrame
<1>7. ASSUME NEW c \in Calls,
             \/ \E r : Begin(c, r)
             \/ PlaceSame(c) \/ Refuse(c) \/ Fail(c) \/ CompleteFree(c)
             \/ \E x \in Objects : StoreReceipt(c, x)
      PROVE  ReceiptMatchesPayment'
  BY <1>1, <1>7 DEF Begin, PlaceSame, Refuse, Fail, Abandon, CompleteFree, StoreReceipt
<1>8. CASE UNCHANGED vars
  BY <1>1, <1>8 DEF vars
<1> QED
  <2>1. CASE \E c \in Calls : BuyerNext(c)
    BY <2>1, <1>3, <1>4, <1>6, <1>7
    DEF BuyerNext, BeginPlace, BeginUpload, BeginFree, BeginCancelByBuyer
  <2>2. CASE OwnerNext
    BY <2>2, <1>5, <1>6, <1>7 DEF OwnerNext, BeginCancelByOwner
  <2> QED
    BY <2>1, <2>2, <1>2, <1>8 DEF Next

\* Requests, payments and receipts hold together.
LEMMA RowsCorrect == Spec => [](RequestInv /\ PaymentInv /\ ReceiptMatchesPayment)
<1>1. Init => RequestInv /\ PaymentInv /\ ReceiptMatchesPayment
  <2>1. Init => RequestInv
    BY DEF Init, RequestInv, RequestsAreSound, ReceiptIsStored, Idle
  <2>2. Init => PaymentInv
    BY DEF Init, PaymentInv, RowsFor, OneOpenFor, OpenPayments, OpenStatus
  <2>3. Init => ReceiptMatchesPayment
    BY DEF Init, ReceiptMatchesPayment
  <2> QED
    BY <2>1, <2>2, <2>3
<1>2. RequestInv => RequestsAreSound
  BY DEF RequestInv
<1> QED
  BY <1>1, <1>2, RequestStep, PaymentStep, ReceiptStep, TypeCorrect, PTL DEF Spec

\* A receipt is stored, belongs to one payment and carries the decision on it,
\* and nothing is under review without one.
THEOREM ReceiptsCorrect == Spec => []ReceiptMatchesPayment
  BY RowsCorrect, PTL

-----------------------------------------------------------------------------
\* What no step may do.

Final ==
  /\ \A p \in PaymentId :
        payment[p] \in {"APPROVED", "REJECTED", "CANCELLED"} =>
            payment'[p] = payment[p] /\ method'[p] = method[p]
  /\ \A o \in Orders : order[o] \in {"COMPLETED", "CANCELLED"} => order'[o] = order[o]
  /\ owned \subseteq owned'

LEMMA FinalStep ==
  ASSUME TypeOK, RequestInv, PaymentInv, [Next]_vars
  PROVE  Final
<1>1. ASSUME UNCHANGED <<payment, method, order, owned>>
      PROVE  Final
  BY <1>1 DEF Final
<1>2. ASSUME NEW o \in Orders, CreateOrder(o)
      PROVE  Final
  BY <1>2 DEF CreateOrder, Final, TypeOK
<1>3. ASSUME NEW c \in Calls, PlaceNew(c)
      PROVE  Final
  <2>1. \A p \in PaymentId : payment[p] \in {"APPROVED", "REJECTED", "CANCELLED"} =>
            payment'[p] = payment[p] /\ method'[p] = method[p]
    BY <1>3, PlaceNewPayments DEF RequestInv
  <2>2. \A o \in Orders : order[o] \in {"COMPLETED", "CANCELLED"} => order'[o] = order[o]
    BY <1>3 DEF PlaceNew, PlaceAllowed, PaymentCanStart, TypeOK
  <2> QED
    BY <1>3, <2>1, <2>2 DEF Final, PlaceNew
<1>4. ASSUME NEW c \in Calls, SubmitReceipt(c)
      PROVE  Final
  <2>1. /\ call[c].payment \in PaymentId /\ payment[call[c].payment] = "AWAITING_PROOF"
        /\ order[call[c].payment[1]] \in BuyerCanLock
    BY <1>4 DEF SubmitReceipt, ReceiptAllowed, RequestInv, RequestsAreSound
  <2> QED
    BY <1>4, <2>1 DEF SubmitReceipt, BuyerCanLock, Final, TypeOK
<1>5. ASSUME NEW p \in PaymentId, Approve(p) \/ Reject(p)
      PROVE  Final
  <2>1. payment[p] \in OpenStatus /\ order[p[1]] \notin {"COMPLETED", "CANCELLED"}
    BY <1>5 DEF Approve, Reject, CanDecide, CanMove
  <2> QED
    BY <1>5, <2>1 DEF Approve, Reject, OpenStatus, Final, TypeOK
<1>6. ASSUME NEW c \in Calls, CompleteFree(c)
      PROVE  Final
  BY <1>6 DEF CompleteFree, FreeAllowed, Final, TypeOK
<1>7. ASSUME NEW c \in Calls, CancelByBuyer(c) \/ CancelByOwner(c)
      PROVE  Final
  <2>1. order[call[c].order] \notin {"COMPLETED"}
    BY <1>7 DEF CancelByBuyer, CancelByOwner, CanMove
  <2>2. \A p \in PaymentId : payment[p] \notin OpenStatus => payment'[p] = payment[p]
    BY <1>7 DEF CancelByBuyer, CancelByOwner, ClosedByBuyer, ClosedByOwner, OpenStatus
  <2>3. \A p \in PaymentId : payment[p] \in {"APPROVED", "REJECTED", "CANCELLED"} => payment'[p] = payment[p]
    BY <2>2 DEF OpenStatus
  <2> QED
    BY <1>7, <2>1, <2>3 DEF CancelByBuyer, CancelByOwner, Final, TypeOK
<1>8. ASSUME NEW c \in Calls,
             \/ \E r : Begin(c, r)
             \/ PlaceSame(c) \/ Refuse(c) \/ Fail(c)
             \/ \E x \in Objects : StoreReceipt(c, x)
      PROVE  Final
  BY <1>1, <1>8 DEF Begin, PlaceSame, Refuse, Fail, Abandon, StoreReceipt
<1>9. CASE UNCHANGED vars
  BY <1>1, <1>9 DEF vars
<1> QED
  <2>1. CASE \E c \in Calls : BuyerNext(c)
    BY <2>1, <1>3, <1>4, <1>6, <1>7, <1>8
    DEF BuyerNext, BeginPlace, BeginUpload, BeginFree, BeginCancelByBuyer
  <2>2. CASE OwnerNext
    BY <2>2, <1>5, <1>7, <1>8 DEF OwnerNext, BeginCancelByOwner
  <2> QED
    BY <2>1, <2>2, <1>2, <1>9 DEF Next

\* What was decided is history: no later request touches a closed payment, a
\* completed or cancelled order, or what a buyer owns.
THEOREM DecisionsCorrect == Spec => DecisionsAreFinal
<1>1. TypeOK /\ RequestInv /\ PaymentInv /\ [Next]_vars => [Final]_vars
  BY FinalStep
<1> QED
  BY <1>1, TypeCorrect, RowsCorrect, PTL DEF Spec, DecisionsAreFinal, Final

\* What a payment under review keeps still.
Frozen(p) ==
  (payment[p] = "PROOF_SUBMITTED" /\ payment'[p] = "PROOF_SUBMITTED") =>
      /\ order'[p[1]] = order[p[1]]
      /\ attempts'[p[1]] = attempts[p[1]]
      /\ \A x \in Objects : receipt'[x] = p <=> receipt[x] = p

\* An order with a payment under review is one its buyer cannot lock, and it
\* has no other payment open.
LEMMA UnderReview ==
  ASSUME TypeOK, PaymentInv, NEW p \in PaymentId, payment[p] = "PROOF_SUBMITTED"
  PROVE  /\ p[1] \in Orders
         /\ order[p[1]] \notin BuyerCanLock \cup {"NONE"}
         /\ attempts[p[1]] # 0
         /\ \A q \in OpenPayments(p[1]) : q = p
<1>1. /\ p[1] \in Orders /\ OneOpenFor(p[1]) /\ RowsFor(p[1])
      /\ p \in OpenPayments(p[1])
  BY PaymentPair DEF PaymentInv, OpenPayments, OpenStatus
<1>2. attempts[p[1]] # 0
  BY <1>1, NoRowsYet
<1>3. order[p[1]] # "NONE"
  BY <1>1, <1>2 DEF RowsFor
<1>4. order[p[1]] \notin BuyerCanLock
  BY <1>1, ClosableByBuyer
<1> QED
  BY <1>1, <1>2, <1>3, <1>4 DEF OneOpenFor

LEMMA FrozenStep ==
  ASSUME TypeOK, RequestInv, PaymentInv, [Next]_vars, NEW p \in PaymentId
  PROVE  Frozen(p)
<1> SUFFICES ASSUME payment[p] = "PROOF_SUBMITTED", payment'[p] = "PROOF_SUBMITTED"
             PROVE  Frozen(p)
  BY DEF Frozen
<1>0. /\ p[1] \in Orders
      /\ order[p[1]] \notin BuyerCanLock \cup {"NONE"}
      /\ attempts[p[1]] # 0
      /\ \A q \in OpenPayments(p[1]) : q = p
  BY UnderReview
<1>1. ASSUME UNCHANGED <<order, attempts, receipt>>
      PROVE  Frozen(p)
  BY <1>1 DEF Frozen
<1>2. ASSUME NEW o \in Orders, CreateOrder(o)
      PROVE  Frozen(p)
  BY <1>0, <1>2 DEF CreateOrder, Frozen, TypeOK
<1>3. ASSUME NEW c \in Calls, PlaceNew(c)
      PROVE  Frozen(p)
  <2>1. call[c].order # p[1]
    BY <1>0, <1>3 DEF PlaceNew, PlaceAllowed, PaymentCanStart, BuyerCanLock
  <2> QED
    BY <1>0, <1>3, <2>1 DEF PlaceNew, Frozen, TypeOK
<1>4. ASSUME NEW c \in Calls, SubmitReceipt(c)
      PROVE  Frozen(p)
  <2>1. PICK q : q = call[c].payment
    OBVIOUS
  <2>2. PICK x : x = call[c].object
    OBVIOUS
  <2>3. /\ q \in PaymentId /\ payment[q] = "AWAITING_PROOF" /\ order[q[1]] \in BuyerCanLock
        /\ x \in Objects /\ receipt[x] = None
    BY <1>4, <2>1, <2>2
    DEF SubmitReceipt, ReceiptAllowed, RequestInv, RequestsAreSound, TypeOK
  <2>4. q[1] # p[1] /\ q # p /\ p # None
    BY <1>0, <2>3, NoneAssumption DEF PaymentId, Attempt
  <2>5. /\ order' = [order EXCEPT ![q[1]] = "PROOF_SUBMITTED"]
        /\ attempts' = attempts
        /\ receipt' = [receipt EXCEPT ![x] = q]
    BY <1>4, <2>1, <2>2 DEF SubmitReceipt
  <2>6. \A y \in Objects : receipt'[y] = p <=> receipt[y] = p
    BY <2>3, <2>4, <2>5 DEF TypeOK
  <2> QED
    BY <2>4, <2>5, <2>6 DEF Frozen, TypeOK
<1>5. ASSUME NEW q \in PaymentId, Approve(q) \/ Reject(q)
      PROVE  Frozen(p)
  <2>1. payment[q] \in OpenStatus /\ payment'[q] # "PROOF_SUBMITTED"
    BY <1>5 DEF Approve, Reject, CanDecide, TypeOK
  <2>2. q[1] # p[1]
    BY <1>0, <2>1 DEF OpenPayments
  <2> QED
    BY <1>0, <1>5, <2>2 DEF Approve, Reject, Frozen, TypeOK
<1>6. ASSUME NEW c \in Calls, CompleteFree(c)
      PROVE  Frozen(p)
  <2>1. call[c].order # p[1]
    BY <1>0, <1>6 DEF CompleteFree, FreeAllowed
  <2> QED
    BY <1>0, <1>6, <2>1 DEF CompleteFree, Frozen, TypeOK
<1>7. ASSUME NEW c \in Calls, CancelByBuyer(c)
      PROVE  Frozen(p)
  <2>1. call[c].order # p[1]
    BY <1>0, <1>7 DEF CancelByBuyer
  <2> QED
    BY <1>0, <1>7, <2>1 DEF CancelByBuyer, Frozen, TypeOK
<1>8. ASSUME NEW c \in Calls, CancelByOwner(c)
      PROVE  Frozen(p)
  <2>1. call[c].order # p[1]
    BY <1>8 DEF CancelByOwner, ClosedByOwner, OpenStatus
  <2> QED
    BY <1>0, <1>8, <2>1 DEF CancelByOwner, Frozen, TypeOK
<1>9. ASSUME NEW c \in Calls,
             \/ \E r : Begin(c, r)
             \/ PlaceSame(c) \/ Refuse(c) \/ Fail(c)
             \/ \E x \in Objects : StoreReceipt(c, x)
      PROVE  Frozen(p)
  BY <1>1, <1>9 DEF Begin, PlaceSame, Refuse, Fail, Abandon, StoreReceipt
<1>10. CASE UNCHANGED vars
  BY <1>1, <1>10 DEF vars
<1> QED
  <2>1. CASE \E c \in Calls : BuyerNext(c)
    BY <2>1, <1>3, <1>4, <1>6, <1>7, <1>9
    DEF BuyerNext, BeginPlace, BeginUpload, BeginFree, BeginCancelByBuyer
  <2>2. CASE OwnerNext
    BY <2>2, <1>5, <1>8, <1>9 DEF OwnerNext, BeginCancelByOwner
  <2> QED
    BY <2>1, <2>2, <1>2, <1>10 DEF Next

\* While a receipt is under review its order, the number of its attempts and
\* the receipts of the payment stand still.
THEOREM ReviewCorrect == Spec => ReviewFreezesOrder
<1>1. TypeOK /\ RequestInv /\ PaymentInv /\ [Next]_vars => [\A p \in PaymentId : Frozen(p)]_vars
  BY FrozenStep
<1> QED
  BY <1>1, TypeCorrect, RowsCorrect, PTL DEF Spec, ReviewFreezesOrder, Frozen
=============================================================================
