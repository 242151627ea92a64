\* Two paid orders and a free one that want the same two copies.
CONSTANTS
    o1 = o1
    o2 = o2
    o3 = o3
    g1 = g1
    g2 = g2
    bank = bank
    chat = chat
    None = None
    Orders = {o1, o2, o3}
    Goods = {g1, g2}
    Lines <- SharedLines
    Free = {o3}
    Unpriced = {o3}
    Methods = {bank, chat}
    ProofMethods = {bank}
    Objects = {x1}
    Calls = {c1, c2}
    MaxAttempts = 2
SPECIFICATION Spec
SYMMETRY CallSymmetry
INVARIANTS
    OneLiveOrderPerGoods
    SaleIsWhole
PROPERTIES
    ImplementsPurchase
CHECK_DEADLOCK FALSE
