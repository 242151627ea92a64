\* Every sale of up to three engineers at prices from 0 to 7.
CONSTANTS
    None = None
    Scale = 4
    Engineers = {1, 2, 3}
    Prices <- SmallPrices
    Rates <- QuarterRates
    Discounts <- AllDiscounts
    Agreements <- SomeAgreements
SPECIFICATION Spec
INVARIANTS
    TypeOK
    SaleReAdds
    PartsAreFair
