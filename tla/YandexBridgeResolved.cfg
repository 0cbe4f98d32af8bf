\* An issue is resolved while its task is at work.
SPECIFICATION FairSpec
CONSTANTS
    Workers = {"w1"}
    Issues = {1}
    Kinds = {"plain"}
    Resolving = TRUE
    MaxComments = 0
    MaxQuestions = 1
    MaxFaults = 0
PROPERTIES
    ResolvedIsDone
