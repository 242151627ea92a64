------------------------------ MODULE Checkout ------------------------------
(***************************************************************************)
(* The checkout of src/src/commerce: orders, the payment attempts each one *)
(* makes, the receipts uploaded for them, and what an approval books.      *)
(*                                                                         *)
(* Every path that writes an order or one of its payments holds the order  *)
(* row (order-lock.ts) until it commits, so what it does under that lock   *)
(* is one step here.  What is read BEFORE the lock is a step of its own,   *)
(* kept in `call` and possibly stale when the lock is finally granted: a   *)
(* call in flight is a request that has done its unlocked read and, for a  *)
(* receipt, put its bytes in storage.  approvePayment and rejectPayment    *)
(* decide nothing before the lock, so they are single steps.               *)
(*                                                                         *)
(* A unit of Goods is one buyer's claim on one product version, the key    *)
(* that the database serialises purchases on (migration 0059).  Money is   *)
(* in other modules: here an order is free or it is not.                   *)
(***************************************************************************)
EXTENDS Naturals, FiniteSets

CONSTANTS
    Orders,        \* order identifiers
    Goods,         \* <<buyer, version>> claims
    Lines,         \* Lines[o]: the goods order o asks for
    Free,          \* the orders whose total is zero
    Unpriced,      \* those of them with no priced line (no discount reached zero)
    Methods,       \* payment methods
    ProofMethods,  \* the methods with requires_proof
    Objects,       \* storage keys, fresh for each upload
    Calls,         \* requests that can be in flight together
    MaxAttempts,   \* bound: payment rows per order
    None           \* stands for an absent value

ASSUME LinesAssumption == Lines \in [Orders -> SUBSET Goods]
ASSUME FreeAssumption == Unpriced \subseteq Free /\ Free \subseteq Orders
ASSUME MethodsAssumption == ProofMethods \subseteq Methods
ASSUME AttemptsAssumption == MaxAttempts \in Nat
ASSUME NoneAssumption == /\ None \notin Methods
                         /\ None \notin Objects
                         /\ None \notin Orders \X (1..MaxAttempts)

Attempt == 1..MaxAttempts

\* A payment is named by its idempotency key, `<order>:attempt:<n>`.
PaymentId == Orders \X Attempt

OrderStatus == {"NONE", "DRAFT", "AWAITING_PAYMENT", "PROOF_SUBMITTED",
                "PENDING_VERIFICATION", "PAYMENT_ISSUE", "PAID",
                "COMPLETED", "CANCELLED"}
PaymentStatus == {"NONE", "INITIATED", "AWAITING_PROOF", "PROOF_SUBMITTED",
                  "APPROVED", "REJECTED", "CANCELLED"}
Decision == {"NONE", "PENDING", "APPROVED", "REJECTED"}

OpenStatus == {"INITIATED", "AWAITING_PROOF", "PROOF_SUBMITTED"}

\* The lifecycle table, by the status an order may move to and who moves it.
CanMove(from, to, who) ==
    CASE to = "AWAITING_PAYMENT" -> from \in {"DRAFT", "PAYMENT_ISSUE"}
      [] to = "PROOF_SUBMITTED"  -> from = "AWAITING_PAYMENT"
      [] to \in {"PAID", "PAYMENT_ISSUE"} ->
             /\ who = "OWNER"
             /\ from \in {"AWAITING_PAYMENT", "PROOF_SUBMITTED", "PENDING_VERIFICATION"}
      [] to = "PENDING_VERIFICATION" -> who = "OWNER" /\ from = "PROOF_SUBMITTED"
      [] to = "COMPLETED" -> who = "OWNER" /\ from = "PAID"
      [] to = "CANCELLED" ->
             \/ from \in {"DRAFT", "AWAITING_PAYMENT", "PAYMENT_ISSUE"}
             \/ who = "OWNER" /\ from \in {"PROOF_SUBMITTED", "PENDING_VERIFICATION"}
      [] OTHER -> FALSE

\* Where a buyer's own UPDATE policy lets them lock the order row.
BuyerCanLock == {"DRAFT", "AWAITING_PAYMENT", "PAYMENT_ISSUE"}
PaymentCanStart == {"DRAFT", "AWAITING_PAYMENT", "PAYMENT_ISSUE"}

\* Seeded fault: only the order's table guards a decision, as before Stage 7.
CanDecideAgain(from, to) == from # "NONE" /\ from # to

CanDecide(from, to) == from \in OpenStatus /\ to \in {"APPROVED", "REJECTED"}

VARIABLES
    order,      \* order[o]: the status of the order row
    payment,    \* payment[p]: the status of the payment row
    method,     \* method[p]: the method it was opened with
    attempts,   \* attempts[o]: how many payment rows the order has
    receipt,    \* receipt[x]: the payment whose receipt row names object x
    decision,   \* decision[x]: the decision written on that receipt row
    stored,     \* the objects in the originals bucket
    owned,      \* live entitlements, as <<goods, order>> pairs
    sales,      \* sales[o]: SALE postings, each with its invoice
    call        \* call[c]: the request in flight in slot c

vars == <<order, payment, method, attempts, receipt, decision, stored, owned, sales, call>>

Idle == [kind |-> "idle", order |-> None, payment |-> None, method |-> None, object |-> None]

Kind == {"idle", "place", "upload", "store", "free", "cancelBuyer", "cancelOwner"}

\* What a request in flight carries from its unlocked read to its lock.
CallType == [kind : Kind, order : Orders \cup {None}, payment : PaymentId \cup {None},
             method : Methods \cup {None}, object : Objects \cup {None}]

TypeOK ==
    /\ order \in [Orders -> OrderStatus]
    /\ payment \in [PaymentId -> PaymentStatus]
    /\ method \in [PaymentId -> Methods \cup {None}]
    /\ attempts \in [Orders -> 0..MaxAttempts]
    /\ receipt \in [Objects -> PaymentId \cup {None}]
    /\ decision \in [Objects -> Decision]
    /\ stored \subseteq Objects
    /\ owned \subseteq Goods \X Orders
    /\ sales \in [Orders -> Nat]
    /\ call \in [Calls -> CallType]

Init ==
    /\ order = [o \in Orders |-> "NONE"]
    /\ payment = [p \in PaymentId |-> "NONE"]
    /\ method = [p \in PaymentId |-> None]
    /\ attempts = [o \in Orders |-> 0]
    /\ receipt = [x \in Objects |-> None]
    /\ decision = [x \in Objects |-> "NONE"]
    /\ stored = {}
    /\ owned = {}
    /\ sales = [o \in Orders |-> 0]
    /\ call = [c \in Calls |-> Idle]

-----------------------------------------------------------------------------
\* Requests in flight.

Begin(c, request) == /\ call[c].kind = "idle"
                     /\ call' = [call EXCEPT ![c] = request]
                     /\ UNCHANGED <<order, payment, method, attempts, receipt, decision,
                                    stored, owned, sales>>

End(c) == call' = [call EXCEPT ![c] = Idle]

-----------------------------------------------------------------------------
\* createOrder: the line trigger serialises the buyer and the version, and
\* refuses goods that are owned or on another order not CANCELLED.
\* Seeded fault: a DRAFT order reserves nothing.
TakenOncePaying(o) == \E other \in Orders \ {o} :
                         /\ order[other] \in {"AWAITING_PAYMENT", "PROOF_SUBMITTED"}
                         /\ Lines[other] \cap Lines[o] # {}

Taken(o) == \E other \in Orders \ {o} :
               /\ order[other] \notin {"NONE", "CANCELLED"}
               /\ Lines[other] \cap Lines[o] # {}

\* No live entitlement on any of the order's goods (entitlements_live_unique).
NotYetOwned(o) == \A g \in Lines[o], other \in Orders : <<g, other>> \notin owned

\* Seeded fault: a cancelled order is reopened.
CreateOrderAgain(o) ==
    /\ order[o] \in {"NONE", "CANCELLED"}
    /\ ~ Taken(o)
    /\ NotYetOwned(o)
    /\ order' = [order EXCEPT ![o] = "DRAFT"]
    /\ UNCHANGED <<payment, method, attempts, receipt, decision, stored, owned, sales, call>>

CreateOrder(o) ==
    /\ order[o] = "NONE"
    /\ ~ Taken(o)
    /\ NotYetOwned(o)
    /\ order' = [order EXCEPT ![o] = "DRAFT"]
    /\ UNCHANGED <<payment, method, attempts, receipt, decision, stored, owned, sales, call>>

-----------------------------------------------------------------------------
\* placeOrder: choosing, repeating or changing the payment method.

OpenPayments(o) == {p \in PaymentId : p[1] = o /\ payment[p] \in OpenStatus}

BeginPlace(c, o, m) ==
    /\ order[o] \in PaymentCanStart
    /\ o \notin Free
    /\ Begin(c, [Idle EXCEPT !.kind = "place", !.order = o, !.method = m])

\* Seeded fault: the status is not read again under the lock.
PlaceAllowedOnce(o) == TRUE

PlaceAllowed(o) == order[o] \in PaymentCanStart

\* The same method again: the open attempt stands and nothing is written.
PlaceSame(c) ==
    /\ call[c].kind = "place"
    /\ PlaceAllowed(call[c].order)
    /\ \E p \in OpenPayments(call[c].order) : method[p] = call[c].method
    /\ End(c)
    /\ UNCHANGED <<order, payment, method, attempts, receipt, decision, stored, owned, sales>>

\* app_cancel_open_payments: the buyer's own, and never past a receipt.
\* Seeded fault: a chat handoff is left open when the method changes.
ClosedReceiptOnly(o) == [p \in PaymentId |->
    IF p[1] = o /\ payment[p] = "AWAITING_PROOF" THEN "CANCELLED" ELSE payment[p]]

ClosedByBuyer(o) == [p \in PaymentId |->
    IF p[1] = o /\ payment[p] \in {"INITIATED", "AWAITING_PROOF"} THEN "CANCELLED" ELSE payment[p]]

\* The owner's cancellation closes a receipt under review as well.
ClosedByOwner(o) == [p \in PaymentId |->
    IF p[1] = o /\ payment[p] \in OpenStatus THEN "CANCELLED" ELSE payment[p]]

\* Another method: the open attempt closes and the next row opens, its key
\* counted under the order lock.
PlaceNew(c) ==
    LET o == call[c].order
        m == call[c].method
        p == <<o, attempts[o] + 1>>
    IN /\ call[c].kind = "place"
       /\ PlaceAllowed(o)
       /\ attempts[o] < MaxAttempts
       /\ \A q \in OpenPayments(o) : method[q] # m /\ payment[q] # "PROOF_SUBMITTED"
       /\ payment' = [ClosedByBuyer(o) EXCEPT
                        ![p] = IF m \in ProofMethods THEN "AWAITING_PROOF" ELSE "INITIATED"]
       /\ method' = [method EXCEPT ![p] = m]
       /\ attempts' = [attempts EXCEPT ![o] = @ + 1]
       /\ order' = [order EXCEPT ![o] =
                      IF CanMove(@, "AWAITING_PAYMENT", "BUYER") THEN "AWAITING_PAYMENT" ELSE @]
       /\ End(c)
       /\ UNCHANGED <<receipt, decision, stored, owned, sales>>

-----------------------------------------------------------------------------
\* submitPaymentProof: check, store the bytes, then check and write again.

BeginUpload(c, p) ==
    /\ payment[p] = "AWAITING_PROOF"
    /\ Begin(c, [Idle EXCEPT !.kind = "upload", !.payment = p])

StoreReceipt(c, x) ==
    /\ call[c].kind = "upload"
    /\ x \notin stored
    /\ stored' = stored \cup {x}
    /\ call' = [call EXCEPT ![c].kind = "store", ![c].object = x]
    /\ UNCHANGED <<order, payment, method, attempts, receipt, decision, owned, sales>>

\* Seeded fault: the second check asks only for an open payment.
ReceiptAllowedOnce(p) == payment[p] \in OpenStatus

ReceiptAllowed(p) == /\ order[p[1]] \in BuyerCanLock
                     /\ payment[p] = "AWAITING_PROOF"
                     /\ CanMove(order[p[1]], "PROOF_SUBMITTED", "BUYER")

SubmitReceipt(c) ==
    LET p == call[c].payment
        x == call[c].object
    IN /\ call[c].kind = "store"
       /\ ReceiptAllowed(p)
       /\ receipt' = [receipt EXCEPT ![x] = p]
       /\ decision' = [decision EXCEPT ![x] = "PENDING"]
       /\ payment' = [payment EXCEPT ![p] = "PROOF_SUBMITTED"]
       /\ order' = [order EXCEPT ![p[1]] = "PROOF_SUBMITTED"]
       /\ End(c)
       /\ UNCHANGED <<method, attempts, stored, owned, sales>>

-----------------------------------------------------------------------------
\* The owner's decision, and what an approval books with it.

\* writeProofDecision: only a receipt still PENDING takes the decision.
\* Seeded fault: the decision is not written on the receipt.
DecidedNowhere(p, d) == decision

Decided(p, d) == [x \in Objects |->
    IF receipt[x] = p /\ decision[x] = "PENDING" THEN d ELSE decision[x]]

Approve(p) ==
    LET o == p[1] IN
    /\ CanDecide(payment[p], "APPROVED")
    /\ CanMove(order[o], "PAID", "OWNER")
    /\ Lines[o] # {}
    /\ NotYetOwned(o)
    /\ owned' = owned \cup (Lines[o] \X {o})
    /\ sales' = [sales EXCEPT ![o] = @ + 1]
    /\ payment' = [payment EXCEPT ![p] = "APPROVED"]
    /\ decision' = Decided(p, "APPROVED")
    /\ order' = [order EXCEPT ![o] = "COMPLETED"]
    /\ UNCHANGED <<method, attempts, receipt, stored, call>>

Reject(p) ==
    LET o == p[1] IN
    /\ CanDecide(payment[p], "REJECTED")
    /\ CanMove(order[o], "PAYMENT_ISSUE", "OWNER")
    /\ payment' = [payment EXCEPT ![p] = "REJECTED"]
    /\ decision' = Decided(p, "REJECTED")
    /\ order' = [order EXCEPT ![o] = "PAYMENT_ISSUE"]
    /\ UNCHANGED <<method, attempts, receipt, stored, owned, sales, call>>

-----------------------------------------------------------------------------
\* completeFreeOrder: the same grant, with no payment and nothing booked.

BeginFree(c, o) ==
    /\ order[o] = "DRAFT"
    /\ Begin(c, [Idle EXCEPT !.kind = "free", !.order = o])

FreeAllowed(o) == /\ order[o] = "DRAFT"
                  /\ o \in Unpriced
                  /\ Lines[o] # {}
                  /\ attempts[o] = 0
                  /\ NotYetOwned(o)

CompleteFree(c) ==
    LET o == call[c].order IN
    /\ call[c].kind = "free"
    /\ FreeAllowed(o)
    /\ owned' = owned \cup (Lines[o] \X {o})
    /\ order' = [order EXCEPT ![o] = "COMPLETED"]
    /\ End(c)
    /\ UNCHANGED <<payment, method, attempts, receipt, decision, stored, sales>>

-----------------------------------------------------------------------------
\* cancelOrder, by the buyer and by the owner.

BeginCancelByBuyer(c, o) ==
    /\ CanMove(order[o], "CANCELLED", "BUYER")
    /\ Begin(c, [Idle EXCEPT !.kind = "cancelBuyer", !.order = o])

BeginCancelByOwner(c, o) ==
    /\ CanMove(order[o], "CANCELLED", "OWNER")
    /\ Begin(c, [Idle EXCEPT !.kind = "cancelOwner", !.order = o])

\* Seeded fault: the status is not read again under the lock.
CancelByBuyerStale(c) ==
    LET o == call[c].order IN
    /\ call[c].kind = "cancelBuyer"
    /\ payment' = ClosedByBuyer(o)
    /\ order' = [order EXCEPT ![o] = "CANCELLED"]
    /\ End(c)
    /\ UNCHANGED <<method, attempts, receipt, decision, stored, owned, sales>>

CancelByBuyer(c) ==
    LET o == call[c].order IN
    /\ call[c].kind = "cancelBuyer"
    /\ order[o] \in BuyerCanLock
    /\ CanMove(order[o], "CANCELLED", "BUYER")
    /\ payment' = ClosedByBuyer(o)
    /\ order' = [order EXCEPT ![o] = "CANCELLED"]
    /\ End(c)
    /\ UNCHANGED <<method, attempts, receipt, decision, stored, owned, sales>>

\* Seeded fault: the cancelled order is written as refunded.
CancelByOwnerRefunds(c) ==
    LET o == call[c].order IN
    /\ call[c].kind = "cancelOwner"
    /\ CanMove(order[o], "CANCELLED", "OWNER")
    /\ payment' = ClosedByOwner(o)
    /\ order' = [order EXCEPT ![o] = "REFUNDED"]
    /\ End(c)
    /\ UNCHANGED <<method, attempts, receipt, decision, stored, owned, sales>>

CancelByOwner(c) ==
    LET o == call[c].order IN
    /\ call[c].kind = "cancelOwner"
    /\ CanMove(order[o], "CANCELLED", "OWNER")
    /\ payment' = ClosedByOwner(o)
    /\ order' = [order EXCEPT ![o] = "CANCELLED"]
    /\ End(c)
    /\ UNCHANGED <<method, attempts, receipt, decision, stored, owned, sales>>

-----------------------------------------------------------------------------
\* A request that ends with nothing written: refused by the second check,
\* or failed (the method was disabled, a query raised, the process died).
\* Its transaction rolls back; an object already stored stays where it is.

Refused(c) ==
    \/ call[c].kind = "place" /\ ~ PlaceAllowed(call[c].order)
    \/ call[c].kind = "store" /\ ~ ReceiptAllowed(call[c].payment)
    \/ call[c].kind = "free" /\ ~ FreeAllowed(call[c].order)
    \/ call[c].kind = "cancelBuyer" /\ ~ CanMove(order[call[c].order], "CANCELLED", "BUYER")
    \/ call[c].kind = "cancelOwner" /\ ~ CanMove(order[call[c].order], "CANCELLED", "OWNER")

Abandon(c) == /\ End(c)
              /\ UNCHANGED <<order, payment, method, attempts, receipt, decision,
                             stored, owned, sales>>

Refuse(c) == Refused(c) /\ Abandon(c)

Fail(c) == call[c].kind # "idle" /\ Abandon(c)

-----------------------------------------------------------------------------
BuyerNext(c) ==
    \/ \E o \in Orders, m \in Methods : BeginPlace(c, o, m)
    \/ PlaceSame(c) \/ PlaceNew(c)
    \/ \E p \in PaymentId : BeginUpload(c, p)
    \/ \E x \in Objects : StoreReceipt(c, x)
    \/ SubmitReceipt(c)
    \/ \E o \in Orders : BeginFree(c, o)
    \/ CompleteFree(c)
    \/ \E o \in Orders : BeginCancelByBuyer(c, o)
    \/ CancelByBuyer(c)
    \/ Refuse(c) \/ Fail(c)

OwnerNext ==
    \/ \E p \in PaymentId : Approve(p) \/ Reject(p)
    \/ \E c \in Calls : CancelByOwner(c) \/ \E o \in Orders : BeginCancelByOwner(c, o)

Next ==
    \/ \E o \in Orders : CreateOrder(o)
    \/ \E c \in Calls : BuyerNext(c)
    \/ OwnerNext

Spec == Init /\ [][Next]_vars

-----------------------------------------------------------------------------
\* Safety.

\* An order never has two payments open at once, whatever mix of double
\* clicks, method changes, uploads and retries produced them (the index
\* payments_one_open_per_order is never what stops the code).
OneOpenPayment ==
    \A p, q \in PaymentId :
        (p[1] = q[1] /\ payment[p] \in OpenStatus /\ payment[q] \in OpenStatus) => p = q

\* The payment rows an order must have in each status it can rest in.
RowsFor(o) ==
    /\ \A p \in PaymentId : p[1] = o /\ payment[p] # "NONE" => p[2] <= attempts[o]
    /\ \A p \in OpenPayments(o) : p[2] = attempts[o]
    /\ order[o] \notin {"PAID", "PENDING_VERIFICATION"}
    /\ order[o] \in {"NONE", "DRAFT"} => attempts[o] = 0
    /\ order[o] = "AWAITING_PAYMENT" =>
          \E p \in OpenPayments(o) : payment[p] # "PROOF_SUBMITTED"
    /\ order[o] = "PROOF_SUBMITTED" =>
          \E p \in OpenPayments(o) : payment[p] = "PROOF_SUBMITTED"
    /\ order[o] = "PAYMENT_ISSUE" =>
          \E p \in PaymentId : p[1] = o /\ p[2] = attempts[o] /\ payment[p] = "REJECTED"
    /\ order[o] \in {"PAYMENT_ISSUE", "COMPLETED", "CANCELLED"} => OpenPayments(o) = {}
    /\ \A p, q \in PaymentId :
          (/\ p[1] = o /\ payment[p] = "APPROVED"
           /\ q[1] = o /\ payment[q] = "APPROVED") => p = q
    /\ (\E p \in PaymentId : p[1] = o /\ payment[p] = "APPROVED")
          <=> order[o] = "COMPLETED" /\ o \notin Free
    /\ o \in Free => attempts[o] = 0

\* An order and its payments never tell different stories: its status says
\* exactly which attempt is open, under review, refused or approved.  (The
\* lost write of W7 left AWAITING_PROOF beside a PROOF_SUBMITTED order.)
OrderMatchesPayments == \A o \in Orders : RowsFor(o)

\* Access, the books and the order agree: a completed order owns each of its
\* goods, was booked once unless it was free, and nothing else was granted or
\* booked.  "There is no path that grants a download without a snapshot ... or
\* completes a sale the books never hear about" (approvePayment).
SaleIsWhole ==
    /\ owned = UNION {Lines[o] \X {o} : o \in {x \in Orders : order[x] = "COMPLETED"}}
    /\ \A o \in Orders : sales[o] = IF order[o] = "COMPLETED" /\ o \notin Free THEN 1 ELSE 0

\* Two orders that are not cancelled never ask for the same buyer's copy of
\* the same version, so an approval is never refused for a copy already
\* owned and nobody pays twice for one file (OPEN-11).
OneLiveOrderPerGoods ==
    \A o1, o2 \in Orders :
        (/\ o1 # o2
         /\ order[o1] \notin {"NONE", "CANCELLED"}
         /\ order[o2] \notin {"NONE", "CANCELLED"}) => Lines[o1] \cap Lines[o2] = {}

\* What is written on a receipt, by what became of its payment: PENDING while
\* it is under review, or closed unread by the owner's cancellation.
WrittenFor(status) == CASE status = "APPROVED" -> "APPROVED"
                        [] status = "REJECTED" -> "REJECTED"
                        [] status \in {"PROOF_SUBMITTED", "CANCELLED"} -> "PENDING"
                        [] OTHER -> "NONE"

\* A receipt row names an object that is stored, no payment has two of them,
\* none is left blank once its payment is decided (S7-08), and a payment is
\* under review only with a receipt.
ReceiptMatchesPayment ==
    /\ \A x \in Objects : receipt[x] # None =>
          /\ x \in stored
          /\ decision[x] # "NONE"
          /\ decision[x] = WrittenFor(payment[receipt[x]])
          /\ \A y \in Objects : receipt[y] = receipt[x] => y = x
    /\ \A p \in PaymentId :
          payment[p] = "PROOF_SUBMITTED" => \E x \in Objects : receipt[x] = p

\* What a request carries past its unlocked read: a payment is never started
\* for a free order, and the object an upload is about to record is stored,
\* is no receipt yet, and belongs to no other upload.
RequestsAreSound ==
    \A c \in Calls :
        /\ call[c].kind \in {"place", "free", "cancelBuyer", "cancelOwner"} => call[c].order \in Orders
        /\ call[c].kind = "place" => call[c].order \notin Free /\ call[c].method \in Methods
        /\ call[c].kind \in {"upload", "store"} => call[c].payment \in PaymentId
        /\ call[c].kind = "store" =>
              /\ call[c].object \in stored
              /\ receipt[call[c].object] = None
              /\ \A d \in Calls \ {c} : call[d].kind = "store" => call[d].object # call[c].object

-----------------------------------------------------------------------------
\* Action properties.

\* What is decided stays decided: a payment that left the open statuses is
\* history whatever the order does next, a completed or cancelled order never
\* moves, and access that was bought is never taken back.
DecisionsAreFinal ==
    [][/\ \A p \in PaymentId :
            payment[p] \in {"APPROVED", "REJECTED", "CANCELLED"} =>
                payment'[p] = payment[p] /\ method'[p] = method[p]
       /\ \A o \in Orders : order[o] \in {"COMPLETED", "CANCELLED"} => order'[o] = order[o]
       /\ owned \subseteq owned']_vars

\* While a receipt is under review nothing of the order changes but by a
\* decision on that very payment: no other method, no new attempt, no second
\* receipt (D2).
ReviewFreezesOrder ==
    [][\A p \in PaymentId :
         (payment[p] = "PROOF_SUBMITTED" /\ payment'[p] = "PROOF_SUBMITTED") =>
             /\ order'[p[1]] = order[p[1]]
             /\ attempts'[p[1]] = attempts[p[1]]
             /\ \A x \in Objects : receipt'[x] = p <=> receipt[x] = p]_vars

-----------------------------------------------------------------------------
\* What it implements.

Deal(o) == CASE order[o] = "NONE"      -> "none"
             [] order[o] = "COMPLETED" -> "sold"
             [] order[o] = "CANCELLED" -> "dropped"
             [] OTHER                  -> "open"

P == INSTANCE Purchase WITH deal <- [o \in Orders |-> Deal(o)], booked <- sales

\* Every step of checkout reserves goods, sells an order whole and once, drops
\* it for good, or changes nothing a buyer was promised.
ImplementsPurchase == P!Spec
=============================================================================
