CONSTANTS
    Others = {v1, v2}
    NoUser = NoUser
    Positions = {0, 1, 2}
    Dist <- LineDist
    Home = 0
    Radius = 1
    MaxUpdates = 1
    MaxMoves = 0
SPECIFICATION Spec
INVARIANTS MatchIsObserved
\* The device stands still, and nobody moves any more.
CHECK_DEADLOCK FALSE
