CONSTANTS
    Distances = {0, 1, 2, 3}
    MaxUsers = 4
SPECIFICATION Spec
INVARIANTS ReturnsFirstNearest
\* The function returns.
CHECK_DEADLOCK FALSE
