\* Two orders of one buyer beside two owner requests, nothing kept apart.
CONSTANTS
    o1 = o1
    o2 = o2
    alice = alice
    None = None
    Uploads = {u1, u2}
    Orders = {o1, o2}
    Buyer <- OneBuyer
    Jobs = {j1, j2}
    MaxVersion = 2
SPECIFICATION Spec
SYMMETRY ShelfSymmetry
INVARIANTS
    OnSaleIsWhole
    BoughtOncePerVersion
    ClaimsAreKept
PROPERTIES
    HistoryIsKept
CHECK_DEADLOCK FALSE
