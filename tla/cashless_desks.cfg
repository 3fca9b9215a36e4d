SPECIFICATION Spec
CONSTANTS
    wal1 = wal1
    b1 = b1
    c1 = c1
    i1 = i1
    d1 = d1
    d2 = d2
    q1 = q1
    q2 = q2
    p1 = p1
    p2 = p2
    k1 = k1
    k2 = k2
    NoBand = NoBand
    NoRow = NoRow
    Wallets = {wal1}
    Bands = {b1}
    Cashiers = {c1}
    TxnIds = {i1}
    Desks = {d1, d2}
    Payouts = {}
    Staff = {}
    Collections = {}
    Amounts = {1, 3}
    Methods = {"cash", "card"}
    Price = 2
    CommissionPercent = 50
    Surcharge = 1
    MaxStock = 1
INVARIANTS
    TypeOK StoredMatchesJournal CashWithinBalance StatementExplainsBalance
    CashComesFromCash StockExplained
PROPERTIES
    DeclineIsTrue DoneIsRecorded
SYMMETRY DeskSymmetry
