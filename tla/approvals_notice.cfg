SPECIFICATION FairSpec
CONSTANTS
    Admins = {p, a1}
    Proposer = p
    MaxCalls = 2
INVARIANTS TypeOK NewFeeIsAgreed
PROPERTY NoticeIsServed
CHECK_DEADLOCK FALSE
