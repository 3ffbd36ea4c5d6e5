SPECIFICATION FairPaySpec
CONSTANTS
    Last = 1
    Tips = {t1}
    Releases = {r1, r2}
    Pool = 5225
    Percent <- DefaultSplit
    Faults = {"lost", "expire"}
    MaxChanges = 1
INVARIANTS PaidOnce PoolIsConserved
PROPERTIES ClaimSettles
CHECK_DEADLOCK FALSE
