SPECIFICATION FairSpec
CONSTANTS
    s1 = s1
    s2 = s2
    t1 = t1
    t2 = t2
    w1 = w1
    w2 = w2
    w3 = w3
    NoSale = NoSale
    NoTier = NoTier
    Sales = {s1}
    Tiers = {t1, t2}
    Workers = {w1, w2}
    Quantity <- TwoSeats
    Orders <- MomoOrders
    Budget <- ErrorAndCrash
INVARIANT NoStrandedClaim
PROPERTIES LapsedHoldReleased PaidMomoMinted
CHECK_DEADLOCK FALSE
