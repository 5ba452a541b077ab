CONSTANTS
    t1 = t1
    t2 = t2
    s1 = s1
    s2 = s2
    h1 = h1
    h2 = h2
    None = None
    Tiers <- TwoTiers
    Subs <- TwoSubs
    Handlers <- TwoHandlers
    Price <- Prices
    Trials = {t2}
    DefaultTier = t1
    MaxMoves = 3
SPECIFICATION Spec
SYMMETRY Interchangeable
INVARIANTS
    TypeOK
    SettledRowsMatch
    LedgerIsMrr
    AccessAgreesUnlessStale
    PaymentsAreRegistered
    FreeAccessOnlyIfSkipped
