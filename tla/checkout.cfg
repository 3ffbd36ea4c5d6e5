SPECIFICATION Spec
CONSTANTS
    Calls = {c1, c2}
    Intents = {i1, i2}
    NoIntent = NoIntent
    Creating = Creating
    Ops = {"coupon", "member", "smart", "aaf", "delay", "refresh"}
    Quote = 1
    NewQuote = 2
    Amount <- Amounts
    MinCharge = 1
    Brackets = {0, 1}
    Faults = {"sync", "insert", "note", "sum", "create", "crash"}
    MaxFaults = 1
SYMMETRY Symmetry
INVARIANTS TypeOK LedgerExplainsTotal ClaimedIsCharged SingleBracketFee IntentAsksForTotal OneAuthorization SentinelIsOwned
PROPERTY AuthorizationIsKept
CHECK_DEADLOCK FALSE
