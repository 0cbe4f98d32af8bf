\* Two workers, two tasks of one repository, every fault, people and reviewers.
SPECIFICATION BoundedSpec
CONSTANTS
    w1 = w1  w2 = w2
    t1 = t1  t2 = t2
    NoTask = NoTask
    Workers <- TwoWorkers
    Tasks <- TwoTasks
    RepoOf <- OneRepo
    Rank <- Equal
    Ttl = 1
    MaxFix = 1
    Verdicts = {"implement", "ask", "decompose"}
    Commands = {"ready"}
    Answers = {"resume"}
    Reviews = {"comment", "merge"}
    Faults = {"temporary", "permanent", "crash"}
    MaxEvents = 2
SYMMETRY Alike
INVARIANTS
    WorkersApart
    OneTaskDirty
PROPERTIES
    OnlyGatedIsPushed
CHECK_DEADLOCK FALSE
