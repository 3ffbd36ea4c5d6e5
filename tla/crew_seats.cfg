SPECIFICATION Spec
CONSTANTS
    Cleaners = {c1, c2}
    Requests = {p1, p2}
    Lead = lead
    Members = {m1}
    Nobody = Nobody
    Batch = 2
    MaxVersion = 3
SYMMETRY CallSymmetry
INVARIANTS OneSeatEach 
PROPERTY SeatIsKept
CHECK_DEADLOCK FALSE
