SPECIFICATION FoundingSpec
CONSTANTS
    People = {p1, p2}
    Requests = {r1, r2, r3}
    MaxMembers = 1
    MaxClaims = 1
    Audiences = {"cleaners", "customers"}
    Early = {"cleaner"}
SYMMETRY CallSymmetry
INVARIANTS FoundingTypeOK OneStatusPerPerson CapHolds GrantedIsFounder CountIsExact
CHECK_DEADLOCK FALSE
