SPECIFICATION Spec
CONSTANTS
    Lead = lead
    Crew = {lead, mate}
    Kinds = {"solo", "crew"}
    Submits = {s1, s2}
    NoIntent = NoIntent
    Releases = {r1, r2}
    Amounts = {2, 3}
    Faults = {"create", "lost", "transfer", "expire", "crash"}
    MaxFaults = 3
SYMMETRY CallSymmetry
INVARIANTS OneCharge ChargeIsSettled TipIsBacked PendingCanSettle
CHECK_DEADLOCK FALSE
