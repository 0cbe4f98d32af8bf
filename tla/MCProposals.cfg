\* Retries, decisions, cleanups and people in any order, at the limit.
SPECIFICATION Spec
CONSTANTS
    c1 = c1  c2 = c2  Cleaner = Cleaner
    p1 = p1  p2 = p2  p3 = p3  p4 = p4  NoId = NoId  NoKey = NoKey
    Callers <- TwoCallers
    Ids <- FourIds
    Content <- Contents
    Key <- Retried
    LowRisk = {p3}
    WindowLimit = 1
    DailyLimit = 4
    Requested = {"ready", "cancelled"}
INVARIANTS
    TypeOK
    ExecutedIsApproved
    RetriesDoNotCollide
    OvershootIsBounded
