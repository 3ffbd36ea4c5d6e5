SPECIFICATION FairSpec
CONSTANTS
    Requests = {r1, r2}
    Routes = {"release", "single", "batch", "override"}
    StatusCheck = {"pending", "scheduled", "transferred", "paid", "failed", "canceled", "held", "disputed", "refunded", "processing"}
    Overrides = {"hold", "resolve"}
    Faults = {"crash", "lost_answer"}
INVARIANTS TypeOK ClaimPaysOnce PaidOnlyAfterCapture PaidIsBacked
PROPERTIES KeepsPromise ClaimSettles
CHECK_DEADLOCK FALSE
