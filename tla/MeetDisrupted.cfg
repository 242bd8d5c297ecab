CONSTANTS
    u1 = u1
    u2 = u2
    u3 = u3
    Users = {u1, u2}
    NoUser = NoUser
    Nearby <- Pair
    StoredTopics <- AllTopics
    MeetSeconds = 0
    TalkSeconds = 0
    Disruptions = {"background", "terminate", "kill", "disconnect"}
    MaxDisruptions = 1
    MaxQueue = 1
    FollowReview = FALSE
SPECIFICATION Spec
INVARIANTS TypeOK BothAccepted BothBegan QuietMeansSeen WithdrawalArrives ProgressInv
PROPERTIES MeetingRefined
SYMMETRY Symmetry
\* A meeting ends: nothing is left to do on the review screen.
CHECK_DEADLOCK FALSE
