\* A crash or a restart in the middle of a task.
SPECIFICATION BoundedFairSpec
CONSTANTS
    w1 = w1  w2 = w2
    t1 = t1  t2 = t2
    NoTask = NoTask
    Workers <- OneWorker
    Tasks <- OneTask
    RepoOf <- OneRepo
    Rank <- Equal
    Ttl = 1
    MaxFix = 0
    Verdicts = {"implement"}
    Commands = {}
    Answers = {}
    Reviews = {}
    Faults = {"crash"}
    MaxEvents = 1
PROPERTIES
    WorkEnds
