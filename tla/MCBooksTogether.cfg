SPECIFICATION FairSpec
CONSTANTS
    Requests <- Everybody
    Approvals <- Sales
    Subject <- TheSubject
    Goods <- TheGoods
    Reference <- TheReference
    Year <- TheYear
    Products = {p, q}
    None = None
    one = one
    again = again
    two = two
    fix = fix
    fixAgain = fixAgain
    orderA = orderA
    orderB = orderB
    key = key
    ref = ref
    p = p
    q = q
CHECK_DEADLOCK FALSE
INVARIANTS
    TypeOK
    ChainIsWhole
    InvoicesAreNumbered
    SalesAreCounted
    NeverStuck
PROPERTIES
    Atomic
    EveryRequestEnds
