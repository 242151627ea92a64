----------------------------- MODULE Settlement -----------------------------
(***************************************************************************)
(* Monthly settlement of one engineer in one currency                      *)
(* (src/src/settlements): what the ledger holds, the statements that are   *)
(* generated from it, and the payouts posted against them.  Contributors   *)
(* and currencies share no money, so one is enough; that a run settles all *)
(* of them in one transaction, under references without a currency, is not *)
(* modelled (README, "Met while modelling").                               *)
(*                                                                         *)
(* A generation run reads the ledger totals in one query and inserts the   *)
(* statement later in the same transaction; another transaction may commit *)
(* between the two, so they are two steps.  A sale or a correction takes   *)
(* its date from the clock before it commits, and is two steps as well.    *)
(* Approving, paying and cancelling read the statement without a lock and  *)
(* then write it with a condition (or under the freeze trigger): what they *)
(* do is decided by the write, and is one step.                            *)
(*                                                                         *)
(* REFUND lines are left out: nothing posts one since a completed sale is  *)
(* final.  `lapses` remembers which circumstances, none of them enforced by *)
(* the code, have failed so far: what is paid is right only while none has.*)
(***************************************************************************)
EXTENDS Integers

CONSTANTS
    Runs,          \* generation requests that can be in flight together
    Minimum,       \* settlement.minimumPayoutMinor
    MaxMonth,      \* bound: months that are lived through
    MaxSale,       \* bound: an engineer's share of one sale
    MaxAdjustment, \* bound: the size of one correction
    MaxPosted      \* bound: what one month's sales add up to

ASSUME MinimumAssumption == Minimum \in Nat
ASSUME BoundsAssumption == MaxMonth \in Nat /\ MaxSale \in Nat /\ MaxAdjustment \in Nat /\ MaxPosted \in Nat

Month == 1..MaxMonth
Status == {"NONE", "PENDING", "APPROVED", "PAID", "CARRIED_FORWARD", "CANCELLED"}

VARIABLES
    month,      \* the accounting month that is open now
    earned,     \* earned[m]: SALE lines on ENGINEER_PAYABLE in month m
    adjusted,   \* adjusted[m]: ADJUSTMENT lines in month m, signed
    paid,       \* paid[m]: SETTLEMENT_PAYOUT lines posted for month m's statement
    statement,  \* statement[m]: the statement row of month m
    run,        \* run[r]: the generation in flight in slot r
    booking,    \* the sale or correction dated and not yet committed
    lapses      \* history: the circumstances that have failed

vars == <<month, earned, adjusted, paid, statement, run, booking, lapses>>

\* "overlap": a month was generated before an earlier one was finished.
\* "back": a month was generated after a later one.
\* "late": a booking was still uncommitted when its month ended.
Lapse == {"overlap", "back", "late"}

NoStatement == [status |-> "NONE", balance |-> 0, movement |-> 0, net |-> 0]
NoRun == [month |-> 0, balance |-> 0, movement |-> 0]
NoBooking == [month |-> 0, sale |-> 0, correction |-> 0]

TypeOK ==
    /\ month \in 1..MaxMonth + 1
    /\ earned \in [Month -> Nat]
    /\ adjusted \in [Month -> Int]
    /\ paid \in [Month -> Nat]
    /\ statement \in [Month -> [status : Status, balance : Int, movement : Int, net : Nat]]
    /\ run \in [Runs -> [month : 0..MaxMonth, balance : Int, movement : Int]]
    /\ booking \in [month : 0..MaxMonth, sale : Nat, correction : Int]
    /\ lapses \subseteq Lapse

Init ==
    /\ month = 1
    /\ earned = [m \in Month |-> 0]
    /\ adjusted = [m \in Month |-> 0]
    /\ paid = [m \in Month |-> 0]
    /\ statement = [m \in Month |-> NoStatement]
    /\ run = [r \in Runs |-> NoRun]
    /\ booking = NoBooking
    /\ lapses = {}

\* The sum of f over the months up to and including m.
Through(f, m) ==
    LET sum[n \in 0..MaxMonth] == IF n = 0 THEN 0 ELSE sum[n - 1] + f[n]
    IN sum[m]

-----------------------------------------------------------------------------
\* What reaches the ledger: dated now, committed later.

\* approvePayment's saleEntry.
Sell(share) ==
    /\ booking = NoBooking
    /\ month \in Month
    /\ earned[month] + share <= MaxPosted
    /\ booking' = [NoBooking EXCEPT !.month = month, !.sale = share]
    /\ UNCHANGED <<month, earned, adjusted, paid, statement, run, lapses>>

\* postAdjustment: at most one correction a month is enough here.
Adjust(amount) ==
    /\ booking = NoBooking
    /\ month \in Month
    /\ adjusted[month] = 0
    /\ booking' = [NoBooking EXCEPT !.month = month, !.correction = amount]
    /\ UNCHANGED <<month, earned, adjusted, paid, statement, run, lapses>>

\* The transaction commits in the month it was dated in, whatever month it is.
Post ==
    /\ booking # NoBooking
    /\ earned' = [earned EXCEPT ![booking.month] = @ + booking.sale]
    /\ adjusted' = [adjusted EXCEPT ![booking.month] = @ + booking.correction]
    /\ booking' = NoBooking
    /\ UNCHANGED <<month, paid, statement, run, lapses>>

RollBack ==
    /\ booking # NoBooking
    /\ booking' = NoBooking
    /\ UNCHANGED <<month, earned, adjusted, paid, statement, run, lapses>>

CloseMonth ==
    /\ month \in Month
    /\ month' = month + 1
    /\ lapses' = lapses \cup (IF booking = NoBooking THEN {} ELSE {"late"})
    /\ UNCHANGED <<earned, adjusted, paid, statement, run, booking>>

-----------------------------------------------------------------------------
\* generateSettlements

\* Seeded fault: payouts for earlier months are not taken off.
BalanceUnpaid(m) == Through(earned, m) + Through(adjusted, m) - paid[m]

\* readLedgerTotals: earnings and corrections dated by the end of the month,
\* less what was paid for this month's statement or an earlier one.
Balance(m) == Through(earned, m) + Through(adjusted, m) - Through(paid, m)

Movement(m) == earned[m] + adjusted[m]

\* What the order of generation leaves open, that the code does not ask about.
Unfinished(m) == \/ \E r \in Runs : run[r] # NoRun
                 \/ \E q \in 1..(m - 1) : statement[q].status \in {"PENDING", "APPROVED"}
Overtaken(m) == \E q \in (m + 1)..MaxMonth : statement[q].status \notin {"NONE", "CANCELLED"}

LapsesOf(m) == (IF Unfinished(m) THEN {"overlap"} ELSE {})
          \cup (IF Overtaken(m) THEN {"back"} ELSE {})

\* Seeded fault: the month does not have to be over.
ClosedOrNot(m) == m <= month

\* isPeriodClosed: only a month that is over is settled.
Closed(m) == m < month

BeginGenerate(r, m) ==
    /\ run[r] = NoRun
    /\ Closed(m)
    /\ run' = [run EXCEPT ![r] = [month |-> m, balance |-> Balance(m), movement |-> Movement(m)]]
    /\ lapses' = lapses \cup LapsesOf(m)
    /\ UNCHANGED <<month, earned, adjusted, paid, statement, booking>>

\* Seeded fault: a statement withdrawn is generated again in its place.
MayIssueAgain(m) == statement[m].status \in {"NONE", "CANCELLED"}

\* A statement of any status, a cancelled one included, is never replaced:
\* the run skips it, and the unique index stops a second run that has not
\* seen it.
MayIssue(m) == statement[m].status = "NONE"

\* Seeded fault: a debt is billed instead of being carried.
PayableOrDebt(balance) == balance # 0

Payable(balance) == balance > 0 /\ balance >= Minimum

Issue(r) ==
    LET g == run[r] IN
    /\ g # NoRun
    /\ MayIssue(g.month)
    /\ g.balance # 0 \/ g.movement # 0
    /\ statement' = [statement EXCEPT ![g.month] =
          [status   |-> IF Payable(g.balance) THEN "PENDING" ELSE "CARRIED_FORWARD",
           balance  |-> g.balance,
           movement |-> g.movement,
           net      |-> IF Payable(g.balance) THEN g.balance ELSE 0]]
    /\ run' = [run EXCEPT ![r] = NoRun]
    /\ UNCHANGED <<month, earned, adjusted, paid, booking, lapses>>

\* Nothing to issue, a statement already there, or the run failed.
Skip(r) ==
    /\ run[r] # NoRun
    /\ run' = [run EXCEPT ![r] = NoRun]
    /\ UNCHANGED <<month, earned, adjusted, paid, statement, booking, lapses>>

-----------------------------------------------------------------------------
\* The statement's lifecycle.

Approve(m) ==
    /\ statement[m].status = "PENDING"
    /\ statement[m].net > 0
    /\ statement' = [statement EXCEPT ![m].status = "APPROVED"]
    /\ UNCHANGED <<month, earned, adjusted, paid, run, booking, lapses>>

\* Seeded fault: the conditional write accepts a statement already paid.
PayAgain(m) ==
    /\ statement[m].status \in {"APPROVED", "PAID"}
    /\ statement[m].net > 0
    /\ paid' = [paid EXCEPT ![m] = @ + statement[m].net]
    /\ statement' = [statement EXCEPT ![m].status = "PAID"]
    /\ UNCHANGED <<month, earned, adjusted, run, booking, lapses>>

\* markSettlementPaid: the payout and the stamp, or neither.
Pay(m) ==
    /\ statement[m].status = "APPROVED"
    /\ statement[m].net > 0
    /\ paid' = [paid EXCEPT ![m] = @ + statement[m].net]
    /\ statement' = [statement EXCEPT ![m].status = "PAID"]
    /\ UNCHANGED <<month, earned, adjusted, run, booking, lapses>>

\* cancelSettlement writes without a condition; the freeze trigger refuses it
\* on a statement that has been paid meanwhile.
Cancel(m) ==
    /\ statement[m].status \in {"PENDING", "APPROVED", "CARRIED_FORWARD"}
    /\ statement' = [statement EXCEPT ![m].status = "CANCELLED"]
    /\ UNCHANGED <<month, earned, adjusted, paid, run, booking, lapses>>

Next ==
    \/ \E share \in 1..MaxSale : Sell(share)
    \/ \E amount \in ((-MaxAdjustment)..MaxAdjustment) \ {0} : Adjust(amount)
    \/ Post \/ RollBack \/ CloseMonth
    \/ \E r \in Runs : Issue(r) \/ Skip(r) \/ \E m \in Month : BeginGenerate(r, m)
    \/ \E m \in Month : Approve(m) \/ Pay(m) \/ Cancel(m)

Spec == Init /\ [][Next]_vars

-----------------------------------------------------------------------------
\* Safety.

\* The books and the statements agree: a payout is posted for a statement
\* exactly when it is PAID, once, for the amount frozen on it; a statement
\* that is not payable pays nothing ("a settlement marked paid that the books
\* never heard about is not a state this system can reach").
BooksMatchStatements ==
    \A m \in Month :
        /\ paid[m] = IF statement[m].status = "PAID" THEN statement[m].net ELSE 0
        /\ statement[m].status \in {"PENDING", "APPROVED", "PAID"} => statement[m].net > 0
        /\ statement[m].status = "CARRIED_FORWARD" => statement[m].net = 0

\* A statement tells the whole of a month that is over, and what moved in it no
\* longer changes under the engineer who read it ("settling a month still in
\* progress would issue a statement that the month itself then contradicts"),
\* unless a booking was still uncommitted when its month ended.
StatementsAreClosed ==
    \A m \in Month : statement[m].status # "NONE" =>
        /\ m < month
        /\ "late" \notin lapses => statement[m].movement = Movement(m)

\* When a month's statement is paid, everything paid for the months up to it is
\* everything earned and corrected in them.
Settled ==
    \A m \in Month : statement[m].status = "PAID" =>
        Through(paid, m) = Through(earned, m) + Through(adjusted, m)

\* An engineer is paid what the ledger owes, no more, as long as each month is
\* finished before the next is generated, none is skipped and settled later,
\* and bookings commit in their month.
PaidWhatIsOwed == lapses = {} => Settled

\* "Minus everything ALREADY PAID OUT, whenever it was paid": a statement does
\* not count a balance another statement is about to pay.
PaidOnceThoughUnfinished == lapses \subseteq {"overlap"} => Settled

\* A statement that was issued is never rewritten and never issued again; a
\* paid or cancelled one is final, and so is a payout.
StatementsAreHistory ==
    [][\A m \in Month :
         /\ statement[m].status # "NONE" =>
               /\ statement'[m].net = statement[m].net
               /\ statement'[m].balance = statement[m].balance
               /\ statement'[m].status # "NONE"
         /\ statement[m].status \in {"PAID", "CANCELLED"} =>
               /\ statement'[m].status = statement[m].status
               /\ paid'[m] = paid[m]]_vars
=============================================================================
