SPECIFICATION Spec
CONSTANTS
    s1 = s1
    s2 = s2
    t1 = t1
    t2 = t2
    w1 = w1
    w2 = w2
    w3 = w3
    NoSale = NoSale
    NoTier = NoTier
    Sales = {s1, s2}
    Tiers = {t1}
    Workers = {w1}
    Quantity <- OneSeat
    Orders <- MomoOrders
    Budget <- NoFaults
INVARIANT NoOversell
CHECK_DEADLOCK FALSE
