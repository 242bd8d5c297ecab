CONSTANTS
    Others = {v1, v2}
    NoUser = NoUser
    Positions = {0, 1, 2}
    Dist <- LineDist
    Home = 0
    Radius = 1
    MaxUpdates = 1
    MaxMoves = 1
SPECIFICATION FairSpec
INVARIANTS TypeOK NothingIsForgotten ChainInv
PROPERTIES OneMeetingPoint EnteringLeadsToMatch MatchIsPlaced
\* The device stands still, and nobody moves any more.
CHECK_DEADLOCK FALSE
