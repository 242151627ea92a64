\* An order, while the owner changes what it is made of.
CONSTANTS
    None = None
    Products = {p}
    Engineers = {e1, e2}
    Currencies = {c1, c2}
    Orders = {o}
    Jobs = {j1}
SPECIFICATION Spec
SYMMETRY SellableSymmetry
INVARIANTS
    KeptLinesResolve
