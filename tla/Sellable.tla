------------------------------ MODULE Sellable -------------------------------
(***************************************************************************)
(* Whether what is on sale can be sold: the publication workflow           *)
(* (src/src/catalog/publication.ts and products.ts), the engineers         *)
(* credited on a product, its price, the agreements that pay them          *)
(* (src/src/finance/commission-resolver.ts), the deactivation of an        *)
(* engineer (src/src/contributors/admin.ts, migrations 0062 and 0063) and  *)
(* the orders that wait for approval while all of these change.            *)
(*                                                                         *)
(* A request that holds the rows it read until it commits is one step.     *)
(* Four are two: a change of status reads it without a lock; a change of   *)
(* agreement and a change of credits lock engineers first and read what    *)
(* they concern, and lock the product and check it only then; an order     *)
(* reads the catalogue, locks nothing of it, and is inserted later.        *)
(*                                                                         *)
(* An agreement is its currency, and a price its currency and whether it   *)
(* is above zero.  The files a published product needs are in Shelf.tla.   *)
(***************************************************************************)
EXTENDS Naturals

CONSTANTS
    Products,     \* product identifiers
    Engineers,    \* contributor identifiers
    Currencies,   \* currency codes
    Orders,       \* order identifiers
    Jobs,         \* requests in flight together
    None          \* stands for an absent value

ASSUME NoneAssumption == None \notin Products \cup Engineers \cup Currencies

VARIABLES
    status,      \* status[p]: products.status
    price,       \* price[p]: the open row of product_prices, or None
    credits,     \* credits[p]: the engineers in product_contributors
    agreement,   \* agreement[e][s]: currency of e's open agreement for product
                 \* s, or for all (s = None)
    active,      \* contributors with is_active
    order,       \* order[o]: how far the purchase is
    lines,       \* lines[o]: the products o names, each with the price read
    kept,        \* history: kept[o]: the products of o published at a price
                 \* above zero ever since o read them
    job          \* job[j]: the request in slot j

catalog == <<status, price, credits>>
people == <<agreement, active>>
purchases == <<order, lines>>
vars == <<catalog, people, purchases, kept, job>>

Status == {"DRAFT", "SUBMITTED", "IN_REVIEW", "REVISION_REQUESTED", "APPROVED",
           "PUBLISHED", "UNPUBLISHED", "ARCHIVED"}

\* The table of moves; a contributor's two are among the owner's.
Moves == {<<"DRAFT", "SUBMITTED">>, <<"DRAFT", "ARCHIVED">>,
          <<"SUBMITTED", "IN_REVIEW">>, <<"SUBMITTED", "DRAFT">>,
          <<"IN_REVIEW", "APPROVED">>, <<"IN_REVIEW", "REVISION_REQUESTED">>,
          <<"IN_REVIEW", "SUBMITTED">>,
          <<"REVISION_REQUESTED", "SUBMITTED">>, <<"REVISION_REQUESTED", "ARCHIVED">>,
          <<"APPROVED", "PUBLISHED">>, <<"APPROVED", "REVISION_REQUESTED">>,
          <<"PUBLISHED", "UNPUBLISHED">>,
          <<"UNPUBLISHED", "PUBLISHED">>, <<"UNPUBLISHED", "ARCHIVED">>}

Price == [paid : BOOLEAN, currency : Currencies]
ASSUME PriceAssumption == None \notin Price

Line == [product : Products, price : Price]
Scope == Products \cup {None}

Idle == [kind |-> "idle", product |-> None, engineer |-> None, to |-> None,
         engineers |-> {}, products |-> {}]
JobType == [kind : {"idle", "move", "terms", "credits"},
            product : Scope, engineer : Engineers \cup {None},
            to : Status \cup Currencies \cup {None},
            engineers : SUBSET Engineers, products : SUBSET Products]

TypeOK ==
    /\ status \in [Products -> Status]
    /\ price \in [Products -> Price \cup {None}]
    /\ credits \in [Products -> SUBSET Engineers]
    /\ agreement \in [Engineers -> [Scope -> Currencies \cup {None}]]
    /\ active \subseteq Engineers
    /\ order \in [Orders -> {"none", "reading", "open", "ended"}]
    /\ lines \in [Orders -> SUBSET Line]
    /\ kept \in [Orders -> SUBSET Products]
    /\ job \in [Jobs -> JobType]

Init ==
    /\ status = [p \in Products |-> "DRAFT"]
    /\ price = [p \in Products |-> None]
    /\ credits = [p \in Products |-> {}]
    /\ agreement = [e \in Engineers |-> [s \in Scope |-> None]]
    /\ active = Engineers
    /\ order = [o \in Orders |-> "none"]
    /\ lines = [o \in Orders |-> {}]
    /\ kept = [o \in Orders |-> {}]
    /\ job = [j \in Jobs |-> Idle]

-----------------------------------------------------------------------------
\* Who is paid under what, and what keeps a product from being sold.

\* The agreement in force: the product's own, else the engineer's default.
Terms(ag, e, p) == IF ag[e][p] # None THEN ag[e][p] ELSE ag[e][None]

Paid(q) == q # None /\ q.paid

\* Seeded faults: a deactivated engineer is no obstacle; the currency is not
\* compared.
BlockersActive(p, q, cr, ag) ==
    IF Paid(q)
      THEN {<<e, "NO_AGREEMENT">> : e \in {x \in cr : Terms(ag, x, p) = None}}
             \cup {<<e, "CURRENCY_MISMATCH">> :
                     e \in {x \in cr : Terms(ag, x, p) \notin {None, q.currency}}}
      ELSE {}
BlockersAnyCurrency(p, q, cr, ag) ==
    {<<e, "INACTIVE_ENGINEER">> : e \in cr \ active}
      \cup IF Paid(q)
             THEN {<<e, "NO_AGREEMENT">> : e \in {x \in cr : Terms(ag, x, p) = None}}
             ELSE {}

\* Why p, at price q and with credits cr and agreements ag, would be refused.
Blockers(p, q, cr, ag) ==
    {<<e, "INACTIVE_ENGINEER">> : e \in cr \ active}
      \cup IF Paid(q)
             THEN {<<e, "NO_AGREEMENT">> : e \in {x \in cr : Terms(ag, x, p) = None}}
                    \cup {<<e, "CURRENCY_MISMATCH">> :
                            e \in {x \in cr : Terms(ag, x, p) \notin {None, q.currency}}}
             ELSE {}

\* The change gives no published product of P a blocker it had not.
KeepsSellable(P, newPrice, newCredits, newAgreement) ==
    \A p \in P : status[p] = "PUBLISHED" =>
        Blockers(p, newPrice[p], newCredits[p], newAgreement)
            \subseteq Blockers(p, price[p], credits[p], agreement)

\* Credited to a deactivated engineer.
OnHold(p) == credits[p] \ active # {}

\* Every engineer of the line has an agreement in the line's currency.
Resolves(l) ==
    /\ credits[l.product] # {}
    /\ \A e \in credits[l.product] : Terms(agreement, e, l.product) = l.price.currency

\* The row locks on an engineer: an agreement's excludes everybody, and those
\* of credits exclude all but each other.
TermsLocked(e) == \E j \in Jobs : job[j].kind = "terms" /\ job[j].engineer = e
CreditsLocked(e) == \E j \in Jobs : job[j].kind = "credits" /\ e \in job[j].engineers

\* History: which products of an order are published at a price after the step?
Watch == kept' = [o \in Orders |->
                    {p \in kept[o] : status'[p] = "PUBLISHED" /\ Paid(price'[p])}]

Start(j, request) == job[j] = Idle /\ job' = [job EXCEPT ![j] = request]
Finish(j) == job' = [job EXCEPT ![j] = Idle]

-----------------------------------------------------------------------------
\* The owner's requests, and a contributor's submission.

ChangePrice(p, q) ==
    /\ q # price[p]
    /\ KeepsSellable({p}, [price EXCEPT ![p] = q], credits, agreement)
    /\ price' = [price EXCEPT ![p] = q]
    /\ UNCHANGED <<status, credits, people, purchases, job>>
    /\ Watch

\* The row is locked from the read to the commit.
Publish(p) ==
    /\ <<status[p], "PUBLISHED">> \in Moves
    /\ price[p] # None
    /\ credits[p] # {}
    /\ Blockers(p, price[p], credits[p], agreement) = {}
    /\ status' = [status EXCEPT ![p] = "PUBLISHED"]
    /\ UNCHANGED <<price, credits, people, purchases, job>>
    /\ Watch

\* Any other move: the status is read without a lock,
BeginMove(j, p, to) ==
    /\ to # "PUBLISHED"
    /\ <<status[p], to>> \in Moves
    /\ Start(j, [Idle EXCEPT !.kind = "move", !.product = p, !.to = to])
    /\ UNCHANGED <<catalog, people, purchases, kept>>

\* and written whatever it is by then.  The archive of a product on hold is
\* refused for a month: whether the month is over is left open (Refuse).
Move(j) ==
    /\ job[j].kind = "move"
    /\ status' = [status EXCEPT ![job[j].product] = job[j].to]
    /\ Finish(j)
    /\ UNCHANGED <<price, credits, people, purchases>>
    /\ Watch

\* Seeded fault: the engineers credited are not locked.
BeginCreditsUnlocked(j, p, E) ==
    /\ E # {}
    /\ E \ active \subseteq credits[p]
    /\ Start(j, [Idle EXCEPT !.kind = "credits", !.product = p, !.engineers = E])
    /\ UNCHANGED <<catalog, people, purchases, kept>>

BeginCredits(j, p, E) ==
    /\ E # {}
    /\ \A e \in E : ~ TermsLocked(e)
    /\ E \ active \subseteq credits[p]
    /\ Start(j, [Idle EXCEPT !.kind = "credits", !.product = p, !.engineers = E])
    /\ UNCHANGED <<catalog, people, purchases, kept>>

SetCredits(j) ==
    /\ job[j].kind = "credits"
    /\ LET p == job[j].product
       IN  /\ KeepsSellable({p}, price, [credits EXCEPT ![p] = job[j].engineers], agreement)
           /\ credits' = [credits EXCEPT ![p] = job[j].engineers]
    /\ Finish(j)
    /\ UNCHANGED <<status, price, people, purchases>>
    /\ Watch

\* Seeded fault: a default is not told from an override.
AffectedScope(e, s) == {s}

\* An override concerns its product, a default every product of the engineer.
Affected(e, s) == IF s # None THEN {s} ELSE {p \in Products : e \in credits[p]}

BeginTerms(j, e, s, c) ==
    /\ ~ TermsLocked(e)
    /\ ~ CreditsLocked(e)
    /\ Start(j, [Idle EXCEPT !.kind = "terms", !.engineer = e, !.product = s, !.to = c,
                             !.products = Affected(e, s)])
    /\ UNCHANGED <<catalog, people, purchases, kept>>

SetTerms(j) ==
    /\ job[j].kind = "terms"
    /\ LET new == [agreement EXCEPT ![job[j].engineer][job[j].product] = job[j].to]
       IN  /\ KeepsSellable(job[j].products, price, credits, new)
           /\ agreement' = new
    /\ Finish(j)
    /\ UNCHANGED <<catalog, active, purchases, kept>>

\* The transaction of a request in flight rolls back.
Refuse(j) ==
    /\ job[j] # Idle
    /\ Finish(j)
    /\ UNCHANGED <<catalog, people, purchases, kept>>

SetActive(e, on) ==
    /\ ~ TermsLocked(e)
    /\ ~ CreditsLocked(e)
    /\ active' = IF on THEN active \cup {e} ELSE active \ {e}
    /\ UNCHANGED <<catalog, agreement, purchases, kept, job>>

-----------------------------------------------------------------------------
\* The buyer's order, and what becomes of it.

\* What is on sale and what it costs is read in one statement, without a lock.
ReadCatalog(o, P) ==
    /\ order[o] = "none"
    /\ P # {}
    /\ \A p \in P : status[p] = "PUBLISHED" /\ price[p] # None
    /\ \A p, q \in P : price[p].currency = price[q].currency
    /\ order' = [order EXCEPT ![o] = "reading"]
    /\ lines' = [lines EXCEPT ![o] = {[product |-> p, price |-> price[p]] : p \in P}]
    /\ kept' = [kept EXCEPT ![o] = {p \in P : price[p].paid}]
    /\ UNCHANGED <<catalog, people, job>>

\* The lines are inserted at the prices read.  The database refuses one whose
\* product is on hold by then, and looks neither at the status nor at the price.
AddLines(o) ==
    /\ order[o] = "reading"
    /\ \A l \in lines[o] : ~ OnHold(l.product)
    /\ order' = [order EXCEPT ![o] = "open"]
    /\ UNCHANGED <<catalog, people, lines, kept, job>>

\* What it costs and grants is in Checkout.tla.
End(o) ==
    /\ order' = [order EXCEPT ![o] = "ended"]
    /\ lines' = [lines EXCEPT ![o] = {}]
    /\ kept' = [kept EXCEPT ![o] = {}]
    /\ UNCHANGED <<catalog, people, job>>

\* The transaction that makes the order rolls back.
DropOrder(o) ==
    /\ order[o] = "reading"
    /\ End(o)

Free(o) == \A l \in lines[o] : ~ l.price.paid

\* A payment is approved under the agreements in force, which every line needs,
\* one that costs nothing too; an order that costs nothing has no payment.
Approve(o) ==
    /\ order[o] = "open"
    /\ ~ Free(o)
    /\ \A l \in lines[o] : Resolves(l)
    /\ End(o)

CompleteFree(o) ==
    /\ order[o] = "open"
    /\ Free(o)
    /\ \A l \in lines[o] : status[l.product] = "PUBLISHED"
    /\ End(o)

Cancel(o) ==
    /\ order[o] = "open"
    /\ End(o)

-----------------------------------------------------------------------------
Next ==
    \/ \E p \in Products, q \in Price : ChangePrice(p, q)
    \/ \E p \in Products : Publish(p)
    \/ \E j \in Jobs, p \in Products, to \in Status : BeginMove(j, p, to)
    \/ \E j \in Jobs, p \in Products, E \in SUBSET Engineers : BeginCredits(j, p, E)
    \/ \E j \in Jobs, e \in Engineers, s \in Scope, c \in Currencies : BeginTerms(j, e, s, c)
    \/ \E j \in Jobs : Move(j) \/ SetCredits(j) \/ SetTerms(j) \/ Refuse(j)
    \/ \E e \in Engineers, on \in BOOLEAN : SetActive(e, on)
    \/ \E o \in Orders, P \in SUBSET Products : ReadCatalog(o, P)
    \/ \E o \in Orders : AddLines(o) \/ DropOrder(o) \/ Approve(o) \/ CompleteFree(o) \/ Cancel(o)

Spec == Init /\ [][Next]_vars

-----------------------------------------------------------------------------
\* A product on sale can be sold: it has a price and engineers, and at a price
\* above zero each has an agreement in force in the currency of the price,
\* whatever prices, credits and agreements were changed at the same time
\* (commission-resolver.ts, keepPublishedSellable; publishBlockers).
PublishedIsSellable ==
    \A p \in Products : status[p] = "PUBLISHED" =>
        /\ price[p] # None
        /\ credits[p] # {}
        /\ Blockers(p, price[p], credits[p], agreement) \subseteq credits[p] \X {"INACTIVE_ENGINEER"}

\* A line of an open order can be approved if its product has been published at
\* a price since the order read it, however the price moved and whoever was
\* credited, paid or deactivated meanwhile.  Nothing is promised of a line that
\* was free when it was read, or whose product was free or off sale for a while:
\* then nothing compares the agreements with the line (createOrder,
\* approvePayment, resolveTermsForSale).
KeptLinesResolve ==
    \A o \in Orders : order[o] = "open" =>
        \A l \in lines[o] : l.product \in kept[o] => Resolves(l)

\* Nobody inactive is newly credited on a product on sale, also when two
\* changes of its credits and a deactivation overlap (setProductContributors).
NewCreditsAreActive ==
    [][\A p \in Products : status[p] = "PUBLISHED" =>
          credits'[p] \ credits[p] \subseteq active]_vars
=============================================================================
