\* One paid order: three attempts, three requests in flight.
CONSTANTS
    o1 = o1
    o2 = o2
    o3 = o3
    g1 = g1
    g2 = g2
    bank = bank
    chat = chat
    None = None
    Orders = {o1}
    Goods = {g1}
    Lines <- OneLine
    Free = {}
    Unpriced = {}
    Methods = {bank, chat}
    ProofMethods = {bank}
    Objects = {x1, x2, x3}
    Calls = {c1, c2, c3}
    MaxAttempts = 3
SPECIFICATION Spec
SYMMETRY CallSymmetry
INVARIANTS
    TypeOK
    OneOpenPayment
    OrderMatchesPayments
    ReceiptMatchesPayment
PROPERTIES
    DecisionsAreFinal
    ReviewFreezesOrder
CHECK_DEADLOCK FALSE
