\* Every part, under the fairness of its module.
SPECIFICATION FairSpec
CONSTANTS
    Parts = {"live", "follow", "collect", "stale", "approved", "turns", "comments", "fleet", "direct", "runtime", "intake"}
PROPERTIES
    LapsedLeaseIsCollected
    StaleIsDecided
    ApprovedIsDone
    CommentsArrive
    IssueIsTaken
    AnswerIsActedOn
    RestIsReached
CHECK_DEADLOCK FALSE
