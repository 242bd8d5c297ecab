CONSTANTS
    u1 = u1
    u2 = u2
    u3 = u3
    Users = {u1, u2, u3}
    NoUser = NoUser
    Nearby <- Ring
    StoredTopics <- AllTopics
    MeetSeconds = 0
    TalkSeconds = 0
    Disruptions = {}
    MaxDisruptions = 0
    MaxQueue = 1
    FollowReview = FALSE
SPECIFICATION Spec
INVARIANTS AcceptedEachOther
\* A meeting ends: nothing is left to do on the review screen.
CHECK_DEADLOCK FALSE
