\* Two tasks of one repository, skewed clocks: exclusion and row locks.
SPECIFICATION Spec
CONSTANTS
    w1 = w1  w2 = w2
    t1 = t1  t2 = t2
    NoTask = NoTask
    Workers <- MCWorkers
    Tasks <- MCTasks
    RepoOf <- SharedRepo
    Serves <- Overlapping
    Rank <- MCRank
    Skew <- FirstAhead
    Ttl = 2
    Requested <- Requests
INVARIANTS
    TypeOK
    LeaseExclusive
    CollectedRowsStayLapsed
    LockedRowsAreClaimable
PROPERTIES
    NoLiveLeaseStolen
    ImplementsLock
    StatusFollowsGraph
