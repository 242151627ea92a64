-------------------------------- MODULE Money --------------------------------
(***************************************************************************)
(* What one sold line is worth to whom: the upgrade discount frozen on it  *)
(* when it is ordered (src/src/commerce/orders.ts), and, when the payment  *)
(* is approved, the tax inside what was paid (src/src/lib/money/tax.ts),   *)
(* the slice of each credited engineer (distribution.ts), what each        *)
(* slice's agreement makes of it (commission.ts, called by                 *)
(* resolveTermsForSale in src/src/finance/commission-resolver.ts) and the  *)
(* entry in the ledger (src/src/ledger/entries.ts).                        *)
(*                                                                         *)
(* Amounts are whole minor units of one currency.  The code's assertions   *)
(* that the parts re-add are not guards here: they are the properties.     *)
(***************************************************************************)
EXTENDS Integers, FiniteSets, FiniteSetsExt, Functions

CONSTANTS
    Scale,        \* BASIS_POINTS_SCALE: 10,000 in the code
    Engineers,    \* contributor identifiers, ordered as the code orders them
    Prices,       \* list prices, tax included
    Rates,        \* tax rates in basis points
    Discounts,    \* upgrade discounts in basis points
    Agreements,   \* the agreements engineers may have
    None          \* stands for an absent value

ASSUME ScaleAssumption == Scale \in Nat \ {0}
ASSUME EngineersAssumption == Engineers \subseteq Nat /\ IsFiniteSet(Engineers)
ASSUME RatesAssumption ==
    Prices \subseteq Nat /\ Rates \subseteq 0..Scale /\ Discounts \subseteq 0..Scale

Agreement == [model : {"PERCENTAGE"}, bp : 0..Scale]
                \cup [model : {"FIXED_ENGINEER"}, engineer : Nat]
                \cup [model : {"FIXED_PLATFORM"}, platform : Nat]
                \cup {a \in [model : {"FIXED_BOTH"}, engineer : Nat, platform : Nat] :
                        a.engineer + a.platform # 0}

\* The terms the database accepts (commission_agreements_model_shape).
ASSUME AgreementsAssumption == Agreements \subseteq Agreement

VARIABLES
    line,    \* the line ordered: its price and discount
    sale     \* what approving its payment made of it, or None

vars == <<line, sale>>

-----------------------------------------------------------------------------
\* Rounding, once per division.

\* Seeded fault: half is rounded down, as truncation would.
RoundDivDown(n, d) == IF n >= 0 THEN n \div d ELSE -((-n) \div d)

\* Half away from zero.
RoundDiv(n, d) ==
    IF n >= 0 THEN (n + (d \div 2)) \div d ELSE -((-n + (d \div 2)) \div d)

PercentOf(amount, bp) == RoundDiv(amount * bp, Scale)

\* The tax inside a price that contains it.
TaxIn(gross, rate) == RoundDiv(gross * rate, Scale + rate)

\* The sum of the values of a function, and of the amounts of some lines.
Total(f) == FoldFunction(+, 0, f)
Balance(lines) == MapThenSumSet(LAMBDA l : l[2], lines)

-----------------------------------------------------------------------------
\* The slice of each engineer: the floor of its exact part, and one more for
\* the largest remainders, ties going to the first identifier.

Exact(net, share, e) == net * share[e]
Floors(net, share) == [e \in DOMAIN share |-> Exact(net, share, e) \div Scale]
Rest(net, share, e) == Exact(net, share, e) % Scale

Before(net, share, f, e) ==
    \/ Rest(net, share, f) > Rest(net, share, e)
    \/ Rest(net, share, f) = Rest(net, share, e) /\ f < e

Leftover(net, share) == net - Total(Floors(net, share))

\* Seeded fault: an engineer with the same remainder is never before another.
SlicesTied(net, share) ==
    [e \in DOMAIN share |-> Floors(net, share)[e] +
        IF Cardinality({f \in DOMAIN share : Rest(net, share, f) > Rest(net, share, e)})
             < Leftover(net, share) THEN 1 ELSE 0]

Slices(net, share) ==
    [e \in DOMAIN share |-> Floors(net, share)[e] +
        IF Cardinality({f \in DOMAIN share : Before(net, share, f, e)})
             < Leftover(net, share) THEN 1 ELSE 0]

-----------------------------------------------------------------------------
\* What an agreement makes of a slice.

\* A fixed amount is quoted against the whole price without tax, and comes
\* down with the slice.
ScaleFixed(fixed, pot, base) ==
    IF base = 0 \/ pot = 0 THEN 0 ELSE IF pot = base THEN fixed ELSE RoundDiv(fixed * pot, base)

Smaller(a, b) == IF a <= b THEN a ELSE b

\* Seeded fault: a fixed amount is not capped at the slice.
PayUncapped(a, pot, base) ==
    IF a.model = "PERCENTAGE" THEN pot - PercentOf(pot, Scale - a.bp)
    ELSE IF a.model = "FIXED_ENGINEER" THEN Smaller(ScaleFixed(a.engineer, pot, base), pot)
    ELSE IF a.model = "FIXED_PLATFORM" THEN pot - ScaleFixed(a.platform, pot, base)
    ELSE RoundDiv(pot * a.engineer, a.engineer + a.platform)

\* The engineer's part; the platform has the rest.
Pay(a, pot, base) ==
    IF a.model = "PERCENTAGE" THEN pot - PercentOf(pot, Scale - a.bp)
    ELSE IF a.model = "FIXED_ENGINEER" THEN Smaller(ScaleFixed(a.engineer, pot, base), pot)
    ELSE IF a.model = "FIXED_PLATFORM" THEN pot - Smaller(ScaleFixed(a.platform, pot, base), pot)
    ELSE RoundDiv(pot * a.engineer, a.engineer + a.platform)

-----------------------------------------------------------------------------
\* The line and its sale.

Paid == line.price - line.discount

\* Whole credits: every share above zero, together the scale.
Credits == {s \in UNION {[E -> 1..Scale] : E \in SUBSET Engineers} :
               Total(s) = Scale}

\* Figures of the sale under rate, shares and terms; base is the price without
\* tax and without the discount.
Figures(rate, share, terms) ==
    LET tax == TaxIn(Paid, rate)
        base == line.price - TaxIn(line.price, rate)
        slices == Slices(Paid - tax, share)
        pay == [e \in DOMAIN share |-> Pay(terms[e], slices[e], base)]
    IN  [rate |-> rate, share |-> share, terms |-> terms, tax |-> tax, base |-> base,
         slice |-> slices, pay |-> pay,
         platform |-> Total([e \in DOMAIN share |-> slices[e] - pay[e]])]

\* The lines of the ledger entry; those of zero are left out.
Entry ==
    LET owed(e) == <<"ENGINEER_PAYABLE", e>>
        all == {<<<<"PLATFORM_CASH", None>>, Paid>>,
                <<<<"TAX_PAYABLE", None>>, -sale.tax>>,
                <<<<"PLATFORM_REVENUE", None>>, -sale.platform>>}
                 \cup {<<owed(e), -sale.pay[e]>> : e \in DOMAIN sale.share}
    IN  {l \in all : l[2] # 0}

TypeOK ==
    /\ line \in [price : Nat, discount : Nat]
    /\ line.discount <= line.price
    /\ sale # None =>
         /\ sale.tax \in 0..Paid
         /\ \A e \in DOMAIN sale.share :
              sale.slice[e] \in Nat /\ sale.pay[e] \in 0..sale.slice[e]

Init ==
    /\ line = [price |-> 0, discount |-> 0]
    /\ sale = None

\* createOrder: an upgrade is discounted, anything else is not (bp = 0).
Order(price, bp) ==
    /\ line' = [price |-> price, discount |-> PercentOf(price, bp)]
    /\ sale' = None

\* approvePayment: an order that costs nothing has no payment.
Approve(rate, share, terms) ==
    /\ sale = None
    /\ Paid > 0
    /\ sale' = Figures(rate, share, terms)
    /\ UNCHANGED line

Next ==
    \/ \E price \in Prices, bp \in Discounts : Order(price, bp)
    \/ \E rate \in Rates, share \in Credits :
          \E terms \in [DOMAIN share -> Agreements] : Approve(rate, share, terms)

Spec == Init /\ [][Next]_vars

-----------------------------------------------------------------------------
\* Not a unit appears or is lost: the tax and the slices are what was paid,
\* and the entry has two lines or more that add up to nothing, so that
\* neither saleEntry nor assertEntryBalances ever refuses a sale that was paid
\* for (assertArithmetic, assertEntryBalances, resolveTermsForSale).
SaleReAdds ==
    sale # None =>
        /\ sale.tax + Total(sale.slice) = Paid
        /\ Cardinality(Entry) >= 2
        /\ Balance(Entry) = 0

Magnitude(n) == IF n < 0 THEN -n ELSE n

\* Nobody is a whole unit away from the exact part, and nobody who divides
\* once is more than half a unit away: the tax, and the pay of an agreement
\* that is not capped (extractTax, distributeEngineerAmount, D-02 and D-03 of
\* computeCommissionSnapshot).
PartsAreFair ==
    sale # None =>
        /\ 2 * Magnitude(sale.tax * (Scale + sale.rate) - Paid * sale.rate) <= Scale + sale.rate
        /\ \A e \in DOMAIN sale.share :
              LET a == sale.terms[e]
                  pot == sale.slice[e]
                  near(amount, n, d) == 2 * Magnitude(amount * d - n) <= d
              IN  /\ Magnitude(pot * Scale - (Paid - sale.tax) * sale.share[e]) < Scale
                  /\ a.model = "PERCENTAGE" => near(sale.pay[e], pot * a.bp, Scale)
                  /\ a.model = "FIXED_ENGINEER" /\ a.engineer <= sale.base =>
                        near(sale.pay[e], a.engineer * pot, sale.base)
                  /\ a.model = "FIXED_PLATFORM" /\ a.platform <= sale.base =>
                        near(pot - sale.pay[e], a.platform * pot, sale.base)
                  /\ a.model = "FIXED_BOTH" =>
                        near(sale.pay[e], pot * a.engineer, a.engineer + a.platform)
=============================================================================
