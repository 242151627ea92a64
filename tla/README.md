# Engneernia: a verification development

Engneernia sells engineering files. A buyer orders versions of products, pays by
a manual method and uploads a receipt, the owner decides, and an approval grants
the download, freezes the terms of the sale, posts it to a double-entry ledger
and issues the invoice. Engineers are paid monthly from the ledger. The program
is TypeScript over PostgreSQL (READ COMMITTED, row-level security, triggers);
this directory holds TLA+ models of its core, the TLC runs that check them on
small instances, and proofs that hold for every instance.

Contents: [the system](#the-system), [the plan](#the-plan),
[the modules](#the-modules), [the runs](#the-runs), [what is proved](#what-is-proved),
[met while modelling](#met-while-modelling),
[what is not modelled](#what-is-not-modelled). Paths below are relative to the
repository.

## The system

Everything is a request handler running one or several database transactions;
there is no background worker. Two requests interleave wherever one of them is
between two queries, unless a lock holds them apart. The database runs READ
COMMITTED, so each query sees what was committed when *it* began.

### Inventory

| Component | State | Operations | Talks to | Here |
|---|---|---|---|---|
| commerce (`src/src/commerce`, migrations 0020, 0057, 0059, 0066) | orders, lines, payments, receipts, entitlements | createOrder, placeOrder, submitPaymentProof, approvePayment, rejectPayment, completeFreeOrder, cancelOrder | storage (put), ledger, invoices, products (sales count), notifications, audit | `Checkout`, `Purchase`; locks in `Books`, terms in `Sellable`, amounts in `Money` |
| media versions (`media/versions.ts`, `ingest.ts`) | product_versions, product_files, objects in storage, products.current_version_id | upload, activate, delete, purge | storage (put, remove), orders and entitlements (who still claims a version) | `Shelf`, `Lifecycle` |
| media delivery (`media/deliver.ts`, migrations 0059, 0061) | download counter, download events | deliver | entitlements, storage | `Delivery` |
| settlements (`src/src/settlements`, `lib/time/period.ts`) | statements, payout entries | generate, approve, mark paid, cancel | ledger totals | `Settlement`; two clicks on a payout in `Books` |
| ledger (`src/src/ledger`, migrations 0025, 0035) | chained, balanced entries | post, verify | written by commerce, settlements and adjustments | `Books` (chain), `Money` (lines and balance) |
| finance: commission, agreements | versioned agreements and rates | resolve, set | read by approvals, locks products | `Sellable` (which), `Money` (how much) |
| finance: adjustments | corrections, numbered and idempotent | preview, post | ledger | `Books`, `Settlement` |
| finance: invoices, tax | gapless invoice numbers | issue | in the approval's transaction | `Books`, `Money` |
| catalog | products, prices, credits, publication status | create, price, credit, move through review, publish, archive | versions, agreements | `Sellable`, `Shelf` |
| contributors | profiles, activity | deactivate, reactivate | products (hold period), agreements | `Sellable` (activity) |
| lib/money | none | round, percentage, tax, distribute, commission | approvals | `Money` |
| payments | methods, providers | enable, edit, order; initiate | read by placeOrder | constants of `Checkout` |
| auth, authz, rate limits | users, sessions, failure counters, buckets | register, log in, log out, lock out | every request | no |
| notifications, audit, email | rows and messages | append | written inside the other transactions | no |
| platform settings | key/value settings | set | minimum payout, tax, currency | constants |
| search, reports, PDFs, pages, scripts | none of their own | read | | no |

### What is hard, and what makes each part correct

* **Checkout.** Handlers read the order without a lock, decide, then take
  `lockOrder` (a `SELECT ... FOR UPDATE`) and decide again; a receipt is stored
  *between* the two. Correct means: the order and its payment rows never tell
  different stories, never two open attempts, a decision is final, and access,
  books and order change together or not at all.
* **Books.** An approval takes the order, its products in *line* order, the lock
  of the ledger, the counter of the invoices and an entry of a unique index, and
  can fail at each. Correct means: one chain, no number missing, no count lost,
  nothing twice, and everybody gets to an end although approvals can wait on each
  other crosswise.
* **Versions.** The row changes hold the product lock; the purge that follows
  holds none and works query by query, then call by call against storage.
  Correct means: what is on sale has its files, files go only when nobody can
  claim them, nothing is marked purged that is still there.
* **Settlements.** The statement of a month is computed from everything the
  ledger says up to its end. Statements are issued, approved, paid and withdrawn
  in an order the code leaves to the owner. Correct means: books and statements
  agree, a statement is history, and nobody is paid twice for one sale.
* **Publication.** Prices, credits, agreements, activity and the status itself
  are changed by requests that each check only their own side. Correct means:
  what is published has a price, engineers, and an agreement for each of them in
  its currency; and an order for it can still be approved later.
* **Money.** Percentages, tax and shares do not divide, agreements cap one
  another. Correct means: the parts add up and none is a unit off.
* **Delivery.** It authorises, reads, counts and sends in four steps, and its
  grounds can go between any two. Correct means: no copy leaves uncounted, none
  is counted outside its window, and none goes to a buyer who never bought it.

The hazards this gives rise to, each at its line and with the properties that
cover it, are in `PROJECT.json`.

## The plan

The plan is carried out; the order was by how much of the system rests on a part.

1. `Purchase` (abstract), `Checkout` (implements it): orders, payments, receipts,
   grants; `CheckoutProofs`, `CheckoutSaleProofs`.
2. `Settlement`: months, statements, payouts; `SettlementProofs`.
3. `Lifecycle` (abstract), `Shelf` (implements it): versions, uploads and purges
   against orders and grants; `ShelfProofs`.
4. `Journal` (abstract), `Books` (implements it): the transactions that write the
   books, their locks, failures and the deadlock detector; `BooksProofs`.
5. `Sellable`: publication, price, credits, agreements, activity, and what an
   approval re-resolves; `SellableProofs`.
6. `Money`: discount, tax, split and commission of one line; `MoneyProofs`.
7. `Delivery`: authorise, read, count, send, beside a shelf that implements
   `Lifecycle` too; `DeliveryProofs`.

What composes with what: an approval is one step of `Checkout`, whose inside is
the transaction of `Books`, whose refusals for want of terms are `Sellable` and
whose amounts are `Money`; the sale it posts is `Sell` of `Settlement`; the grant
it gives is what `Shelf` and `Delivery` call a live window. The refinements
state the boundaries: `Checkout` implements `Purchase`, `Books` implements
`Journal`, and in both the abstract step is the whole approval; `Shelf` and the
reduced shelf of `Delivery` both implement `Lifecycle`, so what a download meets
there is something the owner's requests can really make.

## The modules

Definitions that begin with the comment `Seeded fault` are not part of the model:
each is a plausible mistake in the definition below it, and `PROJECT.json` pairs
it with the property that notices.

### Purchase, Checkout

`Purchase` is the promise of checkout, with no payments in it: a deal is opened,
then sold or dropped for good; a sold deal owns its goods and is booked once.

`Checkout` has one action per handler or, where a handler decides before it locks,
one action for each side. The requests in flight are `call`: what a request
carries from its unlocked read to its lock.

| Variable | Code |
|---|---|
| `order`, `attempts` | `orders.status`; how many payment rows the order has |
| `payment`, `method` | `payments.status`, `payment_method_id`; a payment is named by its idempotency key `<order>:attempt:<n>` |
| `receipt`, `decision` | `payment_proofs`: which payment a stored object is the receipt of, and the decision on it |
| `stored` | objects in the `originals` bucket |
| `owned` | live entitlements, with the order that gave them |
| `sales` | SALE postings with their invoice |
| `call` | a request between its unlocked read and its lock |

| Action | Code |
|---|---|
| `CreateOrder` | `createOrder`, as decided by the line trigger of 0059, which serialises buyer and version |
| `BeginPlace`, `PlaceSame`, `PlaceNew` | `placeOrder` before and under `lockOrder` |
| `BeginUpload`, `StoreReceipt`, `SubmitReceipt` | `submitPaymentProof`: first check, `put`, then the locked transaction |
| `Approve`, `Reject` | `approvePayment`, `rejectPayment`, which decide nothing before the lock |
| `BeginFree`, `CompleteFree` | `completeFreeOrder`, `app_complete_free_order` |
| `BeginCancelByBuyer/ByOwner`, `CancelByBuyer/ByOwner` | `cancelOrder`; the owner's closes a receipt under review as well |
| `Refuse`, `Fail` | the second check refuses, or the request dies: the transaction rolls back, a stored object does not |

`Goods` are `<<buyer, version>>` claims, so an order's lines are a set of them and
"bought once per version" is disjointness. `BuyerCanLock` is the row-level policy
on `orders`: `FOR UPDATE` returns no row to a buyer elsewhere, which is how the
second check fails for an order under review. `CanMove` is the whole table of
`order-status.ts`, including moves no handler makes (PENDING_VERIFICATION).

### Journal, Books

`Journal` says what the books promise: requests take effect one at a time and
whole, and nothing that may happen once (an order's approval, a confirmation, a
payout, a provider's reference) happens twice.

`Books` is the transactions. A request is one; it takes its locks one by one,
keeps in `work` what it read under them, writes when it commits, and leaves
nothing but a used sequence number when it fails.

| Variable | Code |
|---|---|
| `at`, `line` | where in its transaction a request is; how many of its products it has updated |
| `held` | row locks, the ledger's advisory lock, uncommitted entries of a unique index |
| `work` | the chain's tail and the new sequence number, the invoice number, the new counts |
| `chain`, `lastSeq` | `ledger_transactions` as committed; the sequence behind `seq`, which no rollback winds back |
| `counter`, `invoices` | `invoice_counters`, `invoices` |
| `sales` | `products.sales_count` |
| `taken` | orders completed, confirmation keys, statements paid, provider references |

| Action | Code |
|---|---|
| `Begin` | the request arrives; a correction looks for its key, a payout at its statement, before any lock |
| `TakeSubject`, `RefuseSubject` | `lockPaymentAndOrder` and the status under it; the unique key of `finance_adjustments`; the conditional update of a statement |
| `TakeGood` | `sales_count + 1`, line by line |
| `TakeChain` | `app_post_ledger_transaction`: advisory lock, tail, insert |
| `TakeNumber` | `app_next_invoice_number` and the invoice |
| `TakeReference`, `RefuseReference` | the payment's update meets `payments_provider_reference_unique` |
| `Commit`, `Fail` | commit; any error, or the process dies |
| `Victim` | PostgreSQL's deadlock detector fails one transaction of a circle |

Corrections and payouts have one shape here: look, post, then let a unique key or
a conditional update decide, after the ledger was written. What they post is in
`Settlement`.

### Settlement

One engineer and one currency: contributors and currencies share no money. They do
share the transaction of a run and the unique `reference` of a statement, which has
no currency in it; what follows from that is under "Met while modelling".

| Variable | Code |
|---|---|
| `month` | the accounting month in progress (Asia/Damascus), `isPeriodClosed` |
| `earned`, `adjusted`, `paid` | the lines on ENGINEER_PAYABLE by kind and month; a payout counts for the month of the statement it references |
| `statement` | the `settlements` row of a month, with what is frozen on it |
| `run` | a generation between its query of the ledger and its insert |
| `booking` | a sale or correction dated by `new Date()` and not yet committed |
| `lapses` | history: which circumstances have failed so far |

`Sell`, `Adjust`, `Post`, `RollBack` are the bookings, `CloseMonth` the clock,
`BeginGenerate`, `Issue`, `Skip` the two sides of `generateSettlements`, and
`Approve`, `Pay`, `Cancel` the conditional writes of `lifecycle.ts`.

The code leaves three circumstances to the owner and the clock, and enforces none
of them. The model lets each fail and remembers it: `overlap` (a month was
generated while an earlier statement was still to be paid or another run was in
flight), `back` (a month was generated after a later one) and `late` (a booking
dated in a month was uncommitted when the month ended). `PaidWhatIsOwed` holds
while nothing has lapsed; `PaidOnceThoughUnfinished` says it also holds after the
first lapse, as a comment in `generate.ts` does, and fails.

### Lifecycle, Shelf

`Lifecycle` is what the shelf promises of its versions, with no word about files,
orders or requests: numbered as they come, each goes from waiting to sale to
retirement to the purge and never back, one at most waits and one at most is on
sale. A new version takes the place of what waits (`Record`) or of all there is
(`Replace`).

`Shelf` is the versions of one product. An upload, a release and a deletion are one
transaction each under the product lock; the purge after them is `Look`,
`LookForGrants`, `LookForOrders`, `Remove`, `Mark`, one step for each query or
storage call. A buyer's order is `ReadShelf` (unlocked) and `AddLine` (decided by
the trigger). An object stands for all the files of one upload.

| Variable | Code |
|---|---|
| `published`, `current` | `products.status = 'PUBLISHED'`, `current_version_id` |
| `made`, `file`, `activated`, `superseded`, `deleted`, `purged` | `product_versions` and the storage keys of `product_files` |
| `stored` | objects in the bucket |
| `order`, `line`, `grant` | the buyer's orders, the version each line names, the window of the entitlement |
| `job` | an owner request in flight |
| `lapses` | history: which circumstances have failed so far |

Three lapses again: `order` (a purge ran while an order was between its read and
its line), `grant` (an order was completed while a purge ran) and `ack` (a
transaction committed and was reported as failed). `ClaimsAreKept` holds while
nothing has lapsed. `OnSaleIsWhole` survives the first two and promises the files
only while no commit was misreported: after `ack`, `ingestProductFile` removes the
objects of a version that exists.

### Sellable

Products, their prices, credited engineers, agreements and activity, and the
orders that wait for an approval while these change. A request that locks what it
reads until it commits is one step. Four are two: a change of status reads it
without a lock (`BeginMove`, `Move`); a change of agreement and a change of
credits lock engineers first and read what they concern, and lock the product
later (`BeginTerms`/`SetTerms`, `BeginCredits`/`SetCredits`); an order reads status
and price in one statement, locks nothing, and inserts its lines several statements
later, when only the hold of a deactivated engineer is looked at again
(`ReadCatalog`, then `AddLines` or `DropOrder`).

| Variable | Code |
|---|---|
| `status`, `price`, `credits` | `products.status`, the open row of `product_prices`, `product_contributors` |
| `agreement` | the open agreement of an engineer for a product, or for all |
| `active` | `contributors.is_active` |
| `order`, `lines` | an order being made or open, and the products it names at the price it read |
| `kept` | history: the products of an order that have been published at a price above zero ever since it read them |
| `job` | a request between its first locks and its check |

`Blockers` is `saleBlockersByProduct`, `KeepsSellable` is `keepPublishedSellable`: a
change may leave an old blocker but not add one. A price is its currency and
whether it is above zero, an agreement its currency: no check looks at more.
`Refuse` also stands for the month an archive waits while a product is on hold.

`KeptLinesResolve` speaks of lines, not of orders, and starts at the read: a line
resolves if its product has been published at a price above zero since the order
read it. Two kinds of line are outside it, and not by accident. A line that was
free when it was read needs an agreement at approval like any other (`Resolves`,
`Approve`), but nothing made sure it has one. A product that was free or off sale
for a while may have come back in another currency, with agreements to match. In
both cases the code refuses the approval; see "Met while modelling".

### Money

One line: `Order` freezes the upgrade discount, `Approve` computes the tax, the
slices, what each agreement makes of its slice, and the ledger entry. The
assertions in the code that parts re-add are not guards of the model: they are
the properties. `Scale` is the 10,000 of the code, left open; rounding is half
away from zero (`RoundDiv`), once per division.

### Delivery

One product, versions in a row, buyers, engineers and the owner. A delivery is
`Ask` (the rows the reader may see), `Allow` (the grants, in the same
transaction; which version, on what ground), `Find` (storage), `Record` (count and
event, or neither), `Answer`; `GiveUp` ends it anywhere. Beside it run `Release`,
`Withdraw`, `Sell`, `Expire` and the purge as `Doom`, `Remove`, `Mark`,
`StopPurge`, each reduced to what a delivery can notice; that the reduced shelf is
still one the owner can make is its refinement of `Lifecycle`.

| Variable | Code |
|---|---|
| `made`, `current`, `purged`, `stored`, `doomed` | the rows of `product_versions`, the objects, and what a running purge chose |
| `grant` | `entitlements` with its window |
| `event` | `download_events`, by reader, version and ground; with the ground ENTITLEMENT a row is also one in `download_count`, written by the same function (0061) |
| `sent` | answers that carried a copy |
| `raced` | history: sales of a version a purge had removed or was about to |
| `call` | a delivery in flight |

## The runs

| Run | Instance | Shows |
|---|---|---|
| `checkout_retry` | 1 order, 2 methods, 3 attempts, 3 receipts, 3 requests in flight | the order, its attempts and its receipts agree under every mix of method changes, receipts, refusals and cancellations; decisions are final; review freezes the order |
| `checkout_shared` | 3 orders over 2 goods, one of them free, 2 requests, 2 attempts | nothing is sold twice, granted without a sale or booked without a grant; every step refines `Purchase` |
| `books_together` | 2 orders over the same 2 products in opposite line order, one approved twice, both with one provider reference; one confirmation sent twice | one chain, gapless invoices, right counts; every behaviour is one of `Journal`; somebody can always go on, or the detector has a circle to break; whoever begins ends |
| `settlement_months` | 2 months, 2 generations in flight, shares up to 2, minimum 2 | payouts and statements agree, a statement is history and tells a month that is over, and while nothing has lapsed what is paid is what was earned |
| `settlement_overlap` | 2 months, 1 generation, minimum 1 | *violation*: a balance is paid in two statements |
| `shelf_owner` | 2 owner requests, 3 versions, no buyer | every behaviour is one of `Lifecycle`; purged means gone |
| `shelf_buyer` | 2 owner requests, 2 orders of one buyer, 2 versions | what is on sale is whole; one claim per version; claims keep their files while nothing has lapsed; history stays |
| `sellable_owner` | 1 product, 2 engineers, 2 currencies, 2 requests in flight, no order | what is published can be sold; nobody inactive is newly credited on it |
| `sellable_buyer` | the same with 1 order, read and inserted apart, and 1 request in flight | a line whose product stayed on sale at a price since it was read can be approved |
| `money_split` | scale 4, prices 0 to 7, 3 engineers, every split, one agreement of each model, 3 rates, every discount | the parts of a sale re-add, the entry balances, no part is a unit off |
| `delivery_window` | 1 buyer, 1 engineer, the owner, 2 versions, 2 events, 1 delivery | no copy leaves unrecorded, or to a buyer who never bought that version; a buyer of one version is counted; only inside the window |
| `delivery_named` | the same with 1 event | *violation*: a named older version is handed out as to an engineer |

Why the bounds are enough for the cases to happen. One order with three attempts
has an attempt before, during and after every other, and three requests are two
that race and one that comes between. Two orders that share one good and differ on
another meet every case of the line trigger. In `books_together` two approvals
wait on each other crosswise, a third request finds its order done, a fourth finds
its key recorded after it posted, and the common reference refuses one at the very
end; every one of them may also fail at every stage. Two months are one and the
one that carries its balance, with a share below and one at the minimum payout.
Three versions are one retired, one on sale and one waiting. Two requests in
flight are enough for `Sellable`, since every check looks at one product and one
request's locks hold out a second; two engineers are one who keeps and one who
loses an agreement. A scale of four leaves remainders of 1, 2 and 3, ties between
engineers included, and the fixed agreements are one that is capped and one that
is not. For one delivery every other actor is present, and what two deliveries
share, the trail, is a count per copy; the proofs cover any number. The order of
`sellable_buyer` has one line; orders of several, free ones among them, are in the
proof, since the property is about each line by itself.

A passing run fires every action of its part of the next-state relation.
`CHECK_DEADLOCK FALSE` stands in the runs whose system may come to rest:
attempts, months, versions and requests are bounded, and a completed checkout or a
finished request does nothing more.

**Fairness.** Only `Books` has some, and one liveness property. `FairSpec` says
that while some transaction can go on, one does (`WF` of any `Step`: a process
that is not dead executes its next statement), and that the database looks for
circles (`WF` of `Victim`: PostgreSQL runs its detector after `deadlock_timeout`).
Nothing is assumed about beginning, since people begin requests, nor about
failing. `EveryRequestEnds` then says the open requests come to an end together;
without the detector it is false, because approvals take products in line order.
Its safety half is proved for every instance: `NeverStuck`, that as long as some
request is open one can go on or is in a circle, and `NoneThrownBack`, that every
step brings one request closer to its end and throws none back.
Nothing else in the code schedules or retries anything. In particular a purge that
failed is tried again only when somebody changes the same product, so "files are
eventually removed" is not true of this code under any fairness it would justify.

**The violations** are statements the repository makes that the code does not
keep, listed in `PROJECT.json` under `findings` with the lines. `settlement_overlap`:
the balance of a month takes off payouts already *posted*, so a month generated
while the previous statement waits for its payout carries that balance again, and
both can be paid. `delivery_named`: the grant on the version on sale is preferred
even when an older version was asked for by name, so the older copy goes out on
the ground CONTRIBUTOR, unstamped and uncounted, to a buyer.

## What is proved

For every value of the constants that satisfies the assumptions named in the
modules: any number of orders, requests, versions, months, products, engineers
and deliveries, any bound. Each theorem below has the form `Spec => []Inv` or,
for an action property or a refinement, `Spec => Property`.

| Module | Theorems (and the property each states) |
|---|---|
| `CheckoutProofs` | TypeCorrect, RequestsCorrect (`RequestsAreSound`, on which the others rest), PaymentsCorrect (OrderMatchesPayments), OneOpenCorrect (OneOpenPayment), ReceiptsCorrect (ReceiptMatchesPayment), DecisionsCorrect (DecisionsAreFinal), ReviewCorrect (ReviewFreezesOrder) |
| `CheckoutSaleProofs` | SaleWhole (SaleIsWhole), OneLiveOrder (OneLiveOrderPerGoods), Implements (ImplementsPurchase) |
| `BooksProofs` | TypeCorrect, ChainCorrect (ChainIsWhole), InvoicesCorrect (InvoicesAreNumbered), SalesCorrect (SalesAreCounted), BooksAreAtomic (Atomic: the refinement of `Journal`), ProgressCorrect (NeverStuck), NoneThrownBackCorrect (`NoneThrownBack`), OwnLocks, SortedNeverCross |
| `SettlementProofs` | TypeCorrect, MatchCorrect (BooksMatchStatements), ClosedCorrect (StatementsAreClosed), HistoryCorrect (StatementsAreHistory), PaidCorrect (PaidWhatIsOwed) |
| `ShelfProofs` | TypeCorrect, PurgedCorrect (PurgedIsGone), OnSaleCorrect (OnSaleIsWhole), OnePendingCorrect (`OnePendingVersion`), BoughtCorrect (BoughtOncePerVersion), ClaimsCorrect (ClaimsAreKept), HistoryCorrect (HistoryIsKept), LifecycleCorrect (ImplementsLifecycle), NeverBackCorrect and OneOfEachCorrect (what `Lifecycle` says of the stages) |
| `SellableProofs` | TypeCorrect, SellableCorrect (PublishedIsSellable), ApprovalCorrect (KeptLinesResolve), CreditsCorrect (NewCreditsAreActive) |
| `DeliveryProofs` | TypeCorrect, TrailCorrect (TrailIsWhole), GrantCorrect (OneGrantIsCounted), CountedCorrect (CountedIsThere), BoughtCorrect (NothingUnbought), LifecycleCorrect (`ImplementsLifecycle` of `Delivery`) |
| `MoneyProofs` | TypeCorrect, ReAddsCorrect (SaleReAdds), FairCorrect (PartsAreFair), and of the arithmetic itself PercentCorrect, TaxCorrect, PayCorrect, PayIsFair |

The arguments:

* **Checkout.** Types are inductive by themselves. What a request can do under
  the lock depends on what it carries: `RequestInv` keeps that a payment is only
  started on an order that is not free and that an upload's object is its own.
  `OrderMatchesPayments` is inductive beside `OneOpenPayment`, and neither is
  alone: a second open payment would make the first one's status say nothing
  about the order, and an order whose status did not match would let a second one
  open. `OrderFrame` leaves one lemma for each action that touches payments.
  Receipts follow: before its receipt a payment has none (`NoReceiptYet`), so an
  attempt that closes never takes a receipt with it. `UnderReview` (the buyer
  cannot lock such an order, and has no other payment open) gives
  `ReviewFreezesOrder`. Sales are proved from the shape of a step (`StepShape`:
  it opens, sells or drops one order) and the refinement from the same lemma.
* **Books.** The invariant `Inv` says which locks a request holds at each stage,
  that no two hold one, and that what it read under a lock is still what is
  committed (the tail, the number, the counts) as long as it holds it; the used
  sequence numbers are below `lastSeq` and those in flight above every committed
  one. A commit then appends one entry to a chain whose tail has not moved, and
  is a `Book` step of `Journal`; everything else is a stutter.
  *Who waits for whom.* `HeldIsOwn` is the converse: a lock that is held is one its
  holder's stage accounts for (`Own`). So whoever holds an order, a key, a counter
  or a reference waits for nothing that a request waiting for those may hold, and
  whoever posts waits for nobody who posts: a circle of waiting consists of
  approvals at their products (`CirclesAreOfGoods`). If every open request of a
  finite set waited, following who waits for whom would come back
  (`StandstillIsCircle`, whose heart `TailExists` takes the least number of
  requests that lets the walk go on), so some request can go on, or a circle is
  there to break: `ProgressCorrect`. `SortedNeverCross` says what would make the
  detector idle: if the lines of every order were updated in one order of the
  products, the request of a circle that wants the least of them would be waited
  for by one that wants less. `order-lock.ts:12` promises that two
  paths over an order and its payments never wait crosswise: `CirclesAreOfGoods`
  is that promise, and the products, of which the comment does not speak, are the
  only rows it fails for.
* **Settlement.** The running sums are a recursive function. What is said of them
  for every month is derived from the least month at which it would fail (lemma
  `Least`, from the well-foundedness of the naturals), which needs no induction
  rule. `Books` relates statements and payouts in every behaviour; `Calm`, while
  nothing has lapsed, keeps one run at a time over a month with nothing due before
  it and nothing settled after it, and gives `PaidWhatIsOwed`.
* **Shelf.** `SInv` relates rows and objects (no two versions name one object, an
  upload in flight owns its object, what is doomed is retired and not on sale);
  `KInv` adds who claims what, and holds while nothing has lapsed: a version a
  purge is about to remove is claimed by nobody. The stage of a version is read off
  the rows (`StageOf`), and `Shown` (what was released and is not on sale is
  retired) is what `SInv` lacks to tell "waiting" from "withdrawn": with it each
  of the four transactions that touch rows is one step of `Lifecycle`, the mark of
  a purge that read the rows long before is one too, or repeats one, and all else
  is a stutter (one lemma each: `RecordedLife`, `ActivateLife`, `DeleteLife`,
  `MarkLife`).
* **Sellable.** The row locks on engineers are the heart: `Aware` says a change of
  an engineer's default already knows every product that credits them, because
  `Apart` keeps a change of credits and a change of terms of one engineer from
  being in flight together. `Kept` ties an order to the catalogue from its read on:
  a product that never left the sale at a price never changed its currency, because
  one engineer's agreement cannot be in two currencies at once.
* **Delivery.** `Ready` says what a delivery in flight may rely on, `Spared` that
  a version somebody is inside the window of is doomed only if the sale raced the
  purge, `Own` that a buyer of one version is never on the ground CONTRIBUTOR. `Bought`
  says that whatever a buyer's request read, chose or recorded was sold to them
  before, since the rows the policy shows in the first query are all the second
  chooses from and a grant is never taken back; what was sent follows from the
  trail. `Withdrawn` (nothing doomed or purged is on sale, nothing purged is
  doomed) makes the shelf an instance of `Lifecycle`.
* **Money.** A quotient is known by its remainder and a rounded one is within half
  a divisor of what it divides (`Rounded`); the rest of the arithmetic is bounds on
  products. Sums are the community modules' folds, defined by a CHOOSE: a fold of
  a finite function is shown to exist and to be a sum whichever element is taken
  out (`FoldExists`, `FoldSums`), again from the least size at which it would
  fail. The remainders add up to a multiple of the scale (`SlicesShare`), each
  engineer has a place of its own among them (`PlacesCount`), so exactly as many
  slices get one more as units were left, and only slices with a remainder do.
  `NetGrows` says a discount never leaves more to share than the whole price, so a
  fixed fee is never scaled up. The invariant `SaleIsFigures` carries this to every
  sale.

Only model-checked: `EveryRequestEnds`, since liveness and ENABLED are beyond the
prover; what is proved of it is in the paragraph on fairness.

## Met while modelling

Limits of the code that the models show or had to assume, without a run of their
own.

* A receipt refused under the lock, or whose request dies, leaves its object in
  the bucket (`commerce/proofs.ts:190`): nothing names it and nothing collects it.
  `Checkout` has such objects (`stored` beside `receipt`).
* An order a discount brought to zero can neither be paid nor taken as a free one
  (migration 0066:384 asks for lines with no price): it can only be cancelled.
  `Unpriced` and `Free` are two constants for that.
* An older month generated after a later one was paid does not see the later
  payout, and pays its balance again (`settlements/generate.ts:130`): the lapse
  `back`.
* The purge decides without a lock, so an order placed or completed inside it can
  lose its files (`commerce/orders.ts:237`, `media/versions.ts:54`): the lapses
  `order` and `grant`, and `raced` in `Delivery`.
* The rule that a buyer has one live order is checked per version, so two orders
  for two versions of one product can wait together (`commerce/orders.ts:185`).
* Approvals update products in line order (`commerce/orders.ts:854`) and can wait
  on each other crosswise, which `order-lock.ts:12` rules out for an order and its
  payments (`SortedNeverCross`: in a sorted order there would be no such wait).
  The detector resolves it: one approval fails whole and is pressed again.
* An order can still wait for an approval that is always refused, the failure
  `catalog/sale-readiness.itest.ts:221` calls impossible. With one product: the
  order reads it, or already has its line, at a price in one currency; the owner
  makes the product free (nothing is asked of a free product), moves the engineer's
  agreement to another currency (nothing blocks that while the product is free) and
  prices the product in that currency. The product is on sale and sellable
  throughout; the order keeps its price (`finance/commission-resolver.ts:492`) and
  its approval meets an agreement in another currency until the owner moves the
  agreement back. Taking the product off sale instead of making it free does the
  same. `kept` forgets such a product, and this is all that `KeptLinesResolve`
  leaves to the owner's care for a line that was paid.
* An approval resolves every line, free ones too (`commerce/orders.ts:709`), though
  `finance/commission-resolver.ts:196` says a free product has nothing to resolve:
  an order of a paid product and a free one without an agreement can be paid for
  and not approved. `createOrder` accepts such an order; the one page that calls it
  sends a single product (`commerce/actions.ts:45`).
* A generation run settles everybody in one transaction, and the reference of a
  statement names the month and the engineer but not the currency, under a unique
  index (`settlements/generate.ts:392`, migration 0031:67). An engineer with
  balances in two currencies in one month makes the second insert fail, and with it
  the run for all. `Settlement` has one engineer and one currency and does not
  show it.
* `changeProductStatus` writes a status it read without a lock
  (`catalog/products.ts:308`): a move may start from a status the row no longer
  has, and ARCHIVED is not terminal. `PublishedIsSellable` holds all the same.

## What is not modelled

* Accounts (`auth`), sessions, rate limits: they share no state with the
  business, each counter is one statement of the database, and what could go
  wrong there is a question about attackers, which this development leaves aside.
* Authorisation as a whole: actions name their actor, and row-level policies
  appear where they decide an outcome (`BuyerCanLock`, `Visible`).
* Payment methods' administration: an attempt copies what it resolved, and an
  edit changes only what later attempts copy.
* Previews, personalisation, scanning, storage drivers: byte processing. Storage
  is what `put`, `remove` and `exists` do. Legacy grants without a version and
  scan status are left out of `Delivery`.
* Notifications, audit entries and email: rows of the same transaction, or
  messages after it, read by nobody who decides. `recordProofDecision` in
  `commerce/proofs.ts`: nothing calls it. REFUND lines: nothing posts one.
* The hash of the chain, the text of invoices, parsing and formatting of amounts.
* Reports, search, ratings, PDF documents, pages, translations, scripts: no state
  another part depends on.

By lines, most of the repository is in that last group, in tests and in
validation and wording around the operations above, so the models map about 8% of
all lines but nearly all code that changes business state.
