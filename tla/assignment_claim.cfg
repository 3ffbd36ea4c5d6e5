SPECIFICATION FairSpec
CONSTANTS
    Cleaners = {c1, c2}
    Nobody = Nobody
    Staffers = {p1}
    Sweepers = {s1}
    Customer = Customer
    MaxCandidates = 2
    Rankings <- BestFirst
    Edits = {"matching"}
    MaxEdits = 1
    Calls = {"assign", "accept", "decline", "expire", "cancel", "delete", "patch"}
PROPERTIES AnswerIsFinal KeepsPromise OffersResolve
CHECK_DEADLOCK FALSE
