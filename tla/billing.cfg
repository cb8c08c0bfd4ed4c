\* Everything that spends tokens or gives them back, around the end of a month:
\* a scan of two jobs, a scan the free plan does not include, one command, one
\* purchase, one adjustment. Or nothing is spent: checkouts for plans, renewals
\* that catch up, cancellation and one advanced cycle, over three months and
\* more. Operations are up to a tick late.
CONSTANTS
    s1 = s1
    s2 = s2
    j1 = j1
    j2 = j2
    j3 = j3
    a1 = a1
    c1 = c1
    c2 = c2
    Scans = {s1, s2}
    Lines <- TwoScans
    Price <- JobPrice
    ProOnly = {j3}
    Questions = {q1}
    AIPrice = 2
    Checkouts = {c1, c2}
    Packs = {"pack"}
    Items = {"monthly", "annual", "pack"}
    PackTokens = 2
    Grant <- PlanGrant
    Length <- Years
    MonthStarts <- TwoMonths
    YearLength = 3
    ShortestMonth = 1
    LongestMonth = 2
    TopupValidity = 1
    CheckoutTTL = 1
    GrantsPerPass = 2
    Adjustments = {a1}
    Deltas <- GiftOrCorrection
    MaxTime = 5
    MaxLag = 1
    MaxAdvances = 1
SYMMETRY Interchangeable
SPECIFICATION MCSpec
INVARIANTS
    BooksBalance
    PaidAndRefundedInFull
    NobodyRidesFree
    LapsedPlanIsDue
PROPERTIES
    ClosedCheckoutStaysClosed
CHECK_DEADLOCK FALSE
