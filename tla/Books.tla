-------------------------------- MODULE Books --------------------------------
(***************************************************************************)
(* The transactions that write the books, and the locks they wait for:     *)
(* the approval of a payment (src/src/commerce/orders.ts), a correction    *)
(* (src/src/finance/adjustments.ts), a payout                              *)
(* (src/src/settlements/lifecycle.ts), the chained ledger                  *)
(* (src/src/ledger/post.ts, migration 0025) and the numbered invoices      *)
(* (src/src/finance/invoices.ts, migration 0042).                          *)
(*                                                                         *)
(* A request is one transaction.  It takes its locks one by one, writes    *)
(* what it read under them when it commits, and gives everything back when *)
(* it fails; the database breaks a circle of waiting requests by failing   *)
(* one of them.  Pressing the button again is another request.             *)
(***************************************************************************)
EXTENDS Naturals, Sequences, FiniteSets

CONSTANTS
    Requests,    \* the transactions
    Approvals,   \* those that approve a payment; the others correct or pay out
    Subject,     \* Subject[r]: the order; the confirmation's key or the statement
    Goods,       \* Goods[r]: the products of the order's lines, in line order
    Reference,   \* Reference[r]: the provider's reference the owner typed, or None
    Products,    \* product identifiers
    Year,        \* Year[r]: the year in which r begins
    None         \* stands for an absent value

Years == {Year[r] : r \in Requests}

ASSUME ApprovalAssumption == Approvals \subseteq Requests
\* An order has lines, and no product twice.
ASSUME GoodsAssumption ==
    /\ Goods \in [Approvals -> Seq(Products)]
    /\ \A r \in Approvals : Goods[r] # <<>>
    /\ \A r \in Approvals : \A i, j \in DOMAIN Goods[r] :
          Goods[r][i] = Goods[r][j] => i = j
\* An order is no key of a form, and neither is a provider's reference.
ASSUME ClaimAssumption ==
    /\ DOMAIN Reference = Approvals
    /\ \A r \in Approvals, s \in Requests \ Approvals : Subject[r] # Subject[s]
    /\ \A r \in Requests, s \in Approvals : Subject[r] # Reference[s]
    /\ \A r \in Requests : Subject[r] # None

VARIABLES
    at,          \* at[r]: the lock r takes next, or how it ended
    line,        \* line[r]: how many of its products r has locked
    held,        \* held[r]: the locks r holds
    work,        \* work[r]: what r read under its locks and will write
    chain,       \* ledger_transactions, as committed
    lastSeq,     \* the sequence behind ledger_transactions.seq: never rolls back
    counter,     \* counter[y]: invoice_counters.next_number
    invoices,    \* invoices, as committed
    sales,       \* sales[p]: products.sales_count
    taken        \* orders completed, keys recorded, statements paid, references used

books == <<chain, counter, invoices, sales, taken>>
vars == <<at, line, held, work, lastSeq, books>>

Stage == {"idle", "subject", "goods", "chain", "number", "reference", "commit"}
Ending == {"done", "refused", "failed"}

\* A lock: a row, the ledger's advisory lock, or an entry of a unique index
\* that is not committed yet.
SubjectLock(r) == <<"subject", Subject[r]>>
ReferenceLock(r) == <<"reference", Reference[r]>>
ProductLock(p) == <<"product", p>>
ChainLock == <<"chain">>
CounterLock(y) == <<"counter", y>>

Locks == {SubjectLock(r) : r \in Requests} \cup {ReferenceLock(r) : r \in Approvals}
            \cup {ProductLock(p) : p \in Products}
            \cup {CounterLock(y) : y \in Years} \cup {ChainLock}

NoWork == [prev |-> 0, seq |-> 0, number |-> 0, count |-> [p \in Products |-> 0]]

WorkType == [prev : Nat, seq : Nat, number : Nat, count : [Products -> Nat]]
Entry == [by : Requests, seq : Nat, prev : Nat]
Invoice == [for : Approvals, year : Years, number : Nat]

TypeOK ==
    /\ at \in [Requests -> Stage \cup Ending]
    /\ line \in [Requests -> Nat]
    /\ held \in [Requests -> SUBSET Locks]
    /\ work \in [Requests -> WorkType]
    /\ chain \in Seq(Entry)
    /\ lastSeq \in Nat
    /\ counter \in [Years -> Nat]
    /\ invoices \subseteq Invoice
    /\ sales \in [Products -> Nat]
    /\ taken \subseteq {Subject[r] : r \in Requests} \cup ({Reference[r] : r \in Approvals} \ {None})

Init ==
    /\ at = [r \in Requests |-> "idle"]
    /\ line = [r \in Requests |-> 0]
    /\ held = [r \in Requests |-> {}]
    /\ work = [r \in Requests |-> NoWork]
    /\ chain = <<>>
    /\ lastSeq = 0
    /\ counter = [y \in Years |-> 1]
    /\ invoices = {}
    /\ sales = [p \in Products |-> 0]
    /\ taken = {}

-----------------------------------------------------------------------------
\* Locks.

\* Seeded fault: no reference is stored as a reference.
ClaimsWithBlank == [r \in Requests |->
              {Subject[r]} \cup (IF r \in Approvals THEN {Reference[r]} ELSE {})]

\* What r may do once: complete its order, record its key, pay its statement,
\* use its reference.
Claims == [r \in Requests |->
              {Subject[r]} \cup (IF r \in Approvals THEN {Reference[r]} \ {None} ELSE {})]

Open(r) == at[r] \notin {"idle"} \cup Ending

NextGood(r) == Goods[r][line[r] + 1]

\* The lock r asks for at this point of its transaction.
Wants(r, lock) ==
    \/ at[r] = "subject" /\ lock = SubjectLock(r)
    \/ at[r] = "goods" /\ lock = ProductLock(NextGood(r))
    \/ at[r] = "chain" /\ lock = ChainLock
    \/ at[r] = "number" /\ lock = CounterLock(Year[r])
    \/ at[r] = "reference" /\ lock = ReferenceLock(r)

\* Seeded faults: the lock of the ledger, or of a product row, does not keep
\* anybody out.
FreeUnchained(lock, r) == lock = ChainLock \/ \A s \in Requests \ {r} : lock \notin held[s]
FreeUnlocked(lock, r) == lock[1] = "product" \/ \A s \in Requests \ {r} : lock \notin held[s]

Free(lock, r) == \A s \in Requests \ {r} : lock \notin held[s]

\* The stage after a lock is taken.
AfterSubject(r) == IF r \in Approvals THEN "goods" ELSE "commit"
AfterGood(r) == IF line[r] + 1 < Len(Goods[r]) THEN "goods" ELSE "chain"
AfterChain(r) == IF r \in Approvals THEN "number" ELSE "subject"
AfterNumber(r) == IF Reference[r] = None THEN "commit" ELSE "reference"

\* r holds what it wanted, from now until it ends.
Take(r, lock, stage) ==
    /\ Free(lock, r)
    /\ held' = [held EXCEPT ![r] = @ \cup {lock}]
    /\ at' = [at EXCEPT ![r] = stage]

End(r, how) ==
    /\ at' = [at EXCEPT ![r] = how]
    /\ held' = [held EXCEPT ![r] = {}]
    /\ line' = [line EXCEPT ![r] = 0]
    /\ work' = [work EXCEPT ![r] = NoWork]

-----------------------------------------------------------------------------
\* The steps of a transaction.

\* A correction looks for its key, a payout at its statement, before any lock.
Begin(r) ==
    /\ at[r] = "idle"
    /\ at' = [at EXCEPT ![r] =
                 IF r \in Approvals THEN "subject"
                 ELSE IF Subject[r] \in taken THEN "refused"
                 ELSE "chain"]
    /\ UNCHANGED <<line, held, work, lastSeq, books>>

\* Seeded fault: what a correction or a payout read before its locks decides.
MayHappenAsRead(r) == r \in Approvals => Subject[r] \notin taken

\* Under the lock the status, or the index, says whether it happened already.
MayHappen(r) == Subject[r] \notin taken

\* lockPaymentAndOrder; the unique key of a correction; the conditional update
\* of a statement.
TakeSubject(r) ==
    /\ at[r] = "subject"
    /\ MayHappen(r)
    /\ Take(r, SubjectLock(r), AfterSubject(r))
    /\ UNCHANGED <<line, work, lastSeq, books>>

RefuseSubject(r) ==
    /\ at[r] = "subject"
    /\ Free(SubjectLock(r), r)
    /\ ~ MayHappen(r)
    /\ End(r, "refused")
    /\ UNCHANGED <<lastSeq, books>>

\* sales_count + 1, on the row as it is once the lock is granted.
TakeGood(r) ==
    /\ at[r] = "goods"
    /\ Take(r, ProductLock(NextGood(r)), AfterGood(r))
    /\ line' = [line EXCEPT ![r] = @ + 1]
    /\ work' = [work EXCEPT ![r].count[NextGood(r)] = sales[NextGood(r)] + 1]
    /\ UNCHANGED <<lastSeq, books>>

\* The entry with the highest sequence number, 0 when there is none.
IsTail(n) ==
    /\ n = 0 \/ \E i \in DOMAIN chain : chain[i].seq = n
    /\ \A i \in DOMAIN chain : chain[i].seq <= n

\* app_post_ledger_transaction: lock, read the tail, insert.
TakeChain(r) ==
    /\ at[r] = "chain"
    /\ Take(r, ChainLock, AfterChain(r))
    /\ \E n \in 0..lastSeq :
          /\ IsTail(n)
          /\ work' = [work EXCEPT ![r].prev = n, ![r].seq = lastSeq + 1]
    /\ lastSeq' = lastSeq + 1
    /\ UNCHANGED <<line, books>>

\* Seeded fault: the number comes from a sequence, which no rollback winds back.
TakeNumberForGood(r) ==
    /\ at[r] = "number"
    /\ Take(r, CounterLock(Year[r]), AfterNumber(r))
    /\ work' = [work EXCEPT ![r].number = counter[Year[r]]]
    /\ counter' = [counter EXCEPT ![Year[r]] = @ + 1]
    /\ UNCHANGED <<line, lastSeq, chain, invoices, sales, taken>>

\* app_next_invoice_number, and the invoice.
TakeNumber(r) ==
    /\ at[r] = "number"
    /\ Take(r, CounterLock(Year[r]), AfterNumber(r))
    /\ work' = [work EXCEPT ![r].number = counter[Year[r]]]
    /\ UNCHANGED <<line, lastSeq, books>>

\* The payment's update: its reference enters the unique index.
TakeReference(r) ==
    /\ at[r] = "reference"
    /\ Reference[r] \notin taken
    /\ Take(r, ReferenceLock(r), "commit")
    /\ UNCHANGED <<line, work, lastSeq, books>>

RefuseReference(r) ==
    /\ at[r] = "reference"
    /\ Free(ReferenceLock(r), r)
    /\ Reference[r] \in taken
    /\ End(r, "refused")
    /\ UNCHANGED <<lastSeq, books>>

Sold(r) == IF r \in Approvals THEN {Goods[r][i] : i \in DOMAIN Goods[r]} ELSE {}

Commit(r) ==
    /\ at[r] = "commit"
    /\ chain' = Append(chain, [by |-> r, seq |-> work[r].seq, prev |-> work[r].prev])
    /\ IF r \in Approvals
       THEN /\ invoices' = invoices \cup
                             {[for |-> r, year |-> Year[r], number |-> work[r].number]}
            /\ counter' = [counter EXCEPT ![Year[r]] = work[r].number + 1]
       ELSE UNCHANGED <<invoices, counter>>
    /\ sales' = [p \in Products |-> IF p \in Sold(r) THEN work[r].count[p] ELSE sales[p]]
    /\ taken' = taken \cup Claims[r]
    /\ End(r, "done")
    /\ UNCHANGED lastSeq

\* Any statement may fail, and the process may die: nothing is left of it but
\* the sequence number it used.
Fail(r) ==
    /\ Open(r)
    /\ End(r, "failed")
    /\ UNCHANGED <<lastSeq, books>>

-----------------------------------------------------------------------------
\* The deadlock detector.

WaitsFor(r, s) == r # s /\ \E lock \in held[s] : Wants(r, lock)

\* Seeded fault: no detector.
NeverCrosswise(r) == FALSE

Blocked == {s \in Requests : \E t \in Requests : WaitsFor(s, t)}

\* r is in a circle: everyone in it waits for, and is waited for by, another.
Crosswise(r) ==
    \E circle \in SUBSET Blocked :
        /\ r \in circle
        /\ \A s \in circle : \E t \in circle : WaitsFor(s, t)
        /\ \A s \in circle : \E t \in circle : WaitsFor(t, s)

Victim(r) ==
    /\ Crosswise(r)
    /\ End(r, "failed")
    /\ UNCHANGED <<lastSeq, books>>

-----------------------------------------------------------------------------
Step(r) ==
    \/ TakeSubject(r) \/ RefuseSubject(r)
    \/ TakeGood(r) \/ TakeChain(r) \/ TakeNumber(r)
    \/ TakeReference(r) \/ RefuseReference(r)
    \/ Commit(r)

Next == \E r \in Requests : Begin(r) \/ Step(r) \/ Fail(r) \/ Victim(r)

Spec == Init /\ [][Next]_vars

\* While some transaction can go on, one does; and the database looks for circles
\* after deadlock_timeout.
FairSpec ==
    /\ Spec
    /\ WF_vars(\E r \in Requests : Step(r))
    /\ WF_vars(\E r \in Requests : Victim(r))

-----------------------------------------------------------------------------
\* Properties.

\* Every entry of the ledger names the entry just before it, in the order in
\* which the verification reads them, whatever runs beside it and whatever rolls
\* back (app_verify_ledger_chain finds no broken link).
ChainIsWhole ==
    \A i \in DOMAIN chain :
        /\ chain[i].prev = IF i = 1 THEN 0 ELSE chain[i - 1].seq
        /\ chain[i].prev < chain[i].seq

\* The invoices of a year carry the numbers 1, 2, 3 ... with none missing and
\* none used twice: a failed approval gives its number back.
InvoicesAreNumbered ==
    \A y \in Years :
        LET ofYear == {v \in invoices : v.year = y} IN
        /\ {v.number : v \in ofYear} = 1..(counter[y] - 1)
        /\ \A v, w \in ofYear : v.number = w.number => v = w

\* A product's counter is the number of its completed sales.
SalesAreCounted ==
    \A p \in Products :
        sales[p] = Cardinality({i \in DOMAIN chain : p \in Sold(chain[i].by)})

\* The books behave as if the requests took effect one after the other, each
\* whole, and nothing that may happen once happened twice.
Log == [i \in DOMAIN chain |-> chain[i].by]
J == INSTANCE Journal WITH booked <- Log
Atomic == J!Spec

\* r may take its next step now: nobody keeps it waiting.
Goes(r) ==
    \/ at[r] = "commit"
    \/ \E lock \in Locks :
          /\ Wants(r, lock)
          /\ Free(lock, r)
          /\ at[r] = "chain" => \E n \in 0..lastSeq : IsTail(n)

\* Transactions never come to a standstill the database does not break: while some
\* are open, one of them can go on or one is in a circle.  And the rows of the
\* products, taken in line order, are all that can be waited for in a circle: the
\* orders, the ledger, the counter of the year and the references never are.
NeverStuck ==
    /\ (\E r \in Requests : Open(r)) => \E r \in Requests : Goes(r) \/ Crosswise(r)
    /\ \A r \in Requests : Crosswise(r) => at[r] = "goods"

\* How many locks and writes are ahead of r.
Left(r) ==
    CASE at[r] = "idle" -> IF r \in Approvals THEN 6 + Len(Goods[r]) ELSE 4
      [] at[r] = "subject" -> IF r \in Approvals THEN 5 + Len(Goods[r]) ELSE 2
      [] at[r] = "goods" -> 4 + Len(Goods[r]) - line[r]
      [] at[r] = "chain" -> IF r \in Approvals THEN 4 ELSE 3
      [] at[r] = "number" -> 3
      [] at[r] = "reference" -> 2
      [] at[r] = "commit" -> 1
      [] OTHER -> 0

\* Whatever happens brings one transaction closer to its end and throws none
\* back, so that no chain of refusals, failures and victims goes on for ever.
NoneThrownBack ==
    [][/\ \A r \in Requests : Left(r)' <= Left(r)
       /\ \E r \in Requests : Left(r)' < Left(r)]_vars

\* Every request that begins ends, and all of them together: whoever waits in a
\* circle is found.
EveryRequestEnds == (\E r \in Requests : Open(r)) ~> (\A r \in Requests : ~ Open(r))
=============================================================================
