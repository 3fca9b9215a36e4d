SPECIFICATION MCSpec
CONSTANTS
    Profiles = {p1, p2}
    Dates = {d1}
    Places = {0, 1}
    Terms = {t1, t2}
    Handlers = {h1, h2}
    MaxUploads = 1
    Providers = {p1, p2}
    Desks = {h1, h2}
    NoProvider = NoProvider
    BandWallets = {w1, w2}
    Tags = {t1, t2}
    NoTag = NoTag
    NoWallet = NoWallet
    TagDesks = {h1, h2}
    MaxFailures = 1
    MaxJobs = 3
    EventSales = {s1, s2}
    SaleTotal = 2
    SaleProceeds = 1
    Requests = {r1, r2}
    Offices = {h1, h2}
    AgentSales = {a1, a2}
    Withdrawals = {w1, w2, w3}
    Clerks = {h1, h2}
    Rounds = {r1, r2}
    BarStalls = {m1, m2}
    PaymentIds = {p1, p2}
    Tills = {h1, h2}
    Shelf = 1
    MaxRevision = 3
    TabLines = {l1, l2}
    TabStalls = {m1, m2}
    NoStall = NoStall
    Wristbands = {w1, w2}
    NoBand = NoBand
    SettleIds = {x1, x2}
    NoId = NoId
    Readers = {h1, h2}
    Funds = 2
    MaxChanges = 2
    BoxTickets = {t1, t2, t3}
    BoxSales = {s1, s2}
    NoBoxSale = NoBoxSale
    TierQuantity = 2
    BoxDesks = {h1, h2}
    Wrong = Wrong
    MaxAttempts = 2
    OtpHandlers = {h1, h2}
    SlowIssue = FALSE
    MaxCodes = 2
    Referrals = {r1, r2}
    Milestone = Milestone
    MilestoneAt = 2
    Reviewers = {h1, h2}
    MaxReviews = 3
    Owner = Owner
    Staff = {f1}
    Buyers = {b1}
    AuthHandlers = {h1, h2}
    MaxVersions = 2
    MaxSessions = 2
    MaxLinks = 1
    Orders = {o1}
    MenuDesks = {h1, h2, d3}
    MaxOverwrites = 1
SYMMETRY HandlerSymmetry
INVARIANTS
    BackOfficeTypeOK MarketKeepsItsWord TrailMatchesBand PayoutsAddUp
    RewardsFollowSales BarAddsUp CounterAddsUp CodeOpensOnce AgreementStaysWithProvider
    SessionsAreProven
PROPERTIES
    AppliedWithActiveCertificate LifeIsFollowed ReissueKeepsATag
CHECK_DEADLOCK FALSE
