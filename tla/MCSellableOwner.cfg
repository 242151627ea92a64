\* Two requests of the owner at once.
CONSTANTS
    None = None
    Products = {p}
    Engineers = {e1, e2}
    Currencies = {c1, c2}
    Orders = {}
    Jobs = {j1, j2}
SPECIFICATION Spec
SYMMETRY SellableSymmetry
INVARIANTS
    TypeOK
    PublishedIsSellable
PROPERTIES
    NewCreditsAreActive
