\* Two workers, and one fix that a reviewer asks for after another.
SPECIFICATION BoundedSpec
CONSTANTS
    w1 = w1  w2 = w2
    t1 = t1  t2 = t2
    NoTask = NoTask
    Workers <- TwoWorkers
    Tasks <- OneTask
    RepoOf <- OneRepo
    Rank <- Equal
    Ttl = 1
    MaxFix = 0
    Verdicts = {"implement"}
    Commands = {}
    Answers = {}
    Reviews = {"comment"}
    Faults = {}
    MaxEvents = 2
PROPERTIES
    RecoveryIsRightful
CHECK_DEADLOCK FALSE
