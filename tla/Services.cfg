SPECIFICATION ServicesSpec
CONSTANTS
    Keys = {eth}
    Calls = {c1, c2, q}
    Quotes = {q}
    TTL = 2
    MaxTime = 2
    t1 = t1
    t2 = t2
    t3 = t3
    Trades = {t1, t2, t3}
    Dex <- MCDex
    MaxPrice = 2
    Campaigns = {k1, k2}
    AirdropCalls = {d1, d2, d3}
    Statuses = {s1, s2}
    Percents = {0, 1}
    Rules <- MCRules
    MaxNumber = 3
    Paths = {p1}
    Window = 2
    Limit = 2
    MaxClock = 6
    MaxBurst = 3
    w1 = w1
    w2 = w2
    w3 = w3
    w4 = w4
    w5 = w5
    w6 = w6
    Requests = {w1, w2, w3, w4, w5, w6}
    Route <- MCRoute
    Connections = 2
SYMMETRY Symmetric
INVARIANTS
    QuotesAreFetched
    OneOrderATrade
    ReportedPriceIsCurrent
    LateCallsRaise
    RowsAreWhole
    EligibleStays
    TwiceTheLimitAtMost
    PoliteAreServed
    NothingLeaks
    AnswersAreTrue
PROPERTIES
    FreshWhenAsked
    StepsBackAreShort
CHECK_DEADLOCK FALSE
