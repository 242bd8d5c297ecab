CONSTANTS
    u1 = u1
    u2 = u2
    u3 = u3
    Users = {u1, u2}
    NoUser = NoUser
    Nearby <- Pair
    StoredTopics <- AllTopics
    MeetSeconds = 0
    TalkSeconds = 0
    Disruptions = {"background"}
    MaxDisruptions = 1
    MaxQueue = 1
    FollowReview = FALSE
SPECIFICATION FairSpec
PROPERTIES AgreementIsSeen
\* A meeting ends: nothing is left to do on the review screen.
CHECK_DEADLOCK FALSE
