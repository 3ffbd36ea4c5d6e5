SPECIFICATION Spec
CONSTANTS
    Cleaners = {c1, c2}
    Nobody = Nobody
    Staffers = {p1}
    Sweepers = {s1}
    Customer = Customer
    MaxCandidates = 2
    Rankings <- Orders
    Edits = {}
    MaxEdits = 0
    Calls = {"accept", "expire", "cancel"}
SYMMETRY CallSymmetry
PROPERTY ClosedIsNotReopened
CHECK_DEADLOCK FALSE
