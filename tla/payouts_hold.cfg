SPECIFICATION Spec
CONSTANTS
    Requests = {r1, r2, r3}
    Routes = {"release", "single", "batch", "override"}
    StatusCheck = {"pending", "scheduled", "transferred", "paid", "failed", "canceled", "held", "disputed", "refunded", "processing"}
    Overrides = {"hold"}
    Faults = {}
SYMMETRY RequestSymmetry
INVARIANT AtMostOneTransfer
CHECK_DEADLOCK FALSE
