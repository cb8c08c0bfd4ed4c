\* Two checkouts for plans, confirmed one after the other.
CONSTANTS
    s1 = s1
    s2 = s2
    j1 = j1
    j2 = j2
    j3 = j3
    a1 = a1
    c1 = c1
    c2 = c2
    Scans = {}
    Lines <- Nothing
    Price <- Nothing
    ProOnly = {}
    Questions = {}
    AIPrice = 1
    Checkouts = {c1, c2}
    Packs = {}
    Items = {"monthly", "annual"}
    PackTokens = 2
    Grant <- PlanGrant
    Length <- Years
    MonthStarts <- TwoMonths
    YearLength = 3
    ShortestMonth = 1
    LongestMonth = 2
    TopupValidity = 2
    CheckoutTTL = 1
    GrantsPerPass = 2
    Adjustments = {}
    Deltas = {}
    MaxTime = 1
    MaxLag = 0
    MaxAdvances = 0
SPECIFICATION MCSpec
PROPERTIES
    AnnualIsNotDowngraded
CHECK_DEADLOCK FALSE
