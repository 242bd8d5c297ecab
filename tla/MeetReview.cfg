CONSTANTS
    u1 = u1
    u2 = u2
    u3 = u3
    Users = {u1, u2}
    NoUser = NoUser
    Nearby <- Pair
    StoredTopics = {0}
    MeetSeconds = 1
    TalkSeconds = 1
    Disruptions = {}
    MaxDisruptions = 0
    MaxQueue = 2
    FollowReview = TRUE
SPECIFICATION Spec
INVARIANTS PhoneNeedsConsent SessionInv QuietMeansSeen
PROPERTIES PartnerIsSettled MeetingRefined
SYMMETRY Symmetry
\* A meeting ends: nothing is left to do on the review screen.
CHECK_DEADLOCK FALSE
