SPECIFICATION FairSpec
CONSTANTS
    Chapter = {1, 2}
    Follower = {1, 2}
    Slot = {s1, s2}
    Uses = { {"overlap", "save", "glossary"}, {"glossary", "fail"}, {"more", "glossary"},
             {"overlap", "save", "schedule"}, {"overlap", "more", "unpublish"},
             {"more", "schedule"}, {"schedule", "unpublish", "fail"},
             {"overlap", "follow", "fail"} }
    Lead = {0, 1}
    Batch = 1
    PageSize = 1
    MaxTime = 2
    MaxRev = 2
    MaxFaults = 1
INVARIANTS StampTruthful CountMatches
PROPERTIES FollowersReached BodyCatchesUp ScheduledGoesLive
CHECK_DEADLOCK FALSE
