\* The next month generated while one is still unpaid.
CONSTANTS
    Runs = {r1}
    Minimum = 1
    MaxMonth = 2
    MaxSale = 2
    MaxAdjustment = 1
    MaxPosted = 2
SPECIFICATION Spec
SYMMETRY RunSymmetry
INVARIANTS
    PaidOnceThoughUnfinished
CHECK_DEADLOCK FALSE
