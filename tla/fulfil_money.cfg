SPECIFICATION FairSpec
CONSTANTS
    Taps = {t1}
    Capturers = {cron}
    Refunders = {r1}
    Refusals = {f1}
    Cancellers = {c1}
    Writers = {"deletion", "operator", "staffing"}
    Faults = {"capture", "answer", "void", "refund"}
    MaxFaults = 1
    MaxCalls = 1
INVARIANTS TypeOK ChargedAfterService RefundedIsRefunded ChargeIsRecorded
PROPERTY CompletedIsCharged
CHECK_DEADLOCK FALSE
