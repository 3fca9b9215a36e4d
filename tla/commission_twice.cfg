\* Two requests of a reseller look for an open one before either creates its own.
SPECIFICATION CommissionSpec
CONSTANTS
    AgentSales = {a1}
    Withdrawals = {w1, w2}
    Clerks = {h1, h2}
INVARIANT OneOpenRequest
CHECK_DEADLOCK FALSE
