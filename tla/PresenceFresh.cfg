CONSTANTS
    Places = {p1, p2}
    Nowhere = Nowhere
    NoPlace = NoPlace
    MaxTrips = 0
    MaxVisits = 1
    MaxChoices = 0
SPECIFICATION FairSpec
PROPERTIES FreshInstallRegisters
\* A dead app need not be launched again.
CHECK_DEADLOCK FALSE
