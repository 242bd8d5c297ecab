CONSTANTS
    Places = {p1, p2}
    Nowhere = Nowhere
    NoPlace = NoPlace
    MaxTrips = 1
    MaxVisits = 2
    MaxChoices = 1
SPECIFICATION FairSpec
INVARIANTS TypeOK FoundWhereSeen LeavesTheMap ProfileIsWhole
PROPERTIES UploadRegisters
\* A dead app need not be launched again.
CHECK_DEADLOCK FALSE
