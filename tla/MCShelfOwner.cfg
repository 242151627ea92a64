\* Two owner requests at once: uploads, releases, deletions, purges.
CONSTANTS
    o1 = o1
    o2 = o2
    alice = alice
    None = None
    Uploads = {u1, u2, u3}
    Orders = {}
    Buyer <- Nobody
    Jobs = {j1, j2}
    MaxVersion = 3
SPECIFICATION Spec
SYMMETRY ShelfSymmetry
INVARIANTS
    TypeOK
    PurgedIsGone
PROPERTIES
    ImplementsLifecycle
CHECK_DEADLOCK FALSE
