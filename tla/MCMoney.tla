------------------------------- MODULE MCMoney -------------------------------
(***************************************************************************)
(* An instance of Money for TLC: every division of small amounts.          *)
(***************************************************************************)
EXTENDS Money

SmallPrices == 0..7
QuarterRates == {0, 1, 2}
AllDiscounts == 0..4
SomeAgreements ==
    {[model |-> "PERCENTAGE", bp |-> 3],
     [model |-> "FIXED_ENGINEER", engineer |-> 5],
     [model |-> "FIXED_PLATFORM", platform |-> 3],
     [model |-> "FIXED_BOTH", engineer |-> 1, platform |-> 2]}
=============================================================================
