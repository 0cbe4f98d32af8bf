\* An answered question of an issue listed after a review.
SPECIFICATION FairSpec
CONSTANTS
    i1 = i1  i2 = i2  NoIssue = NoIssue
    Issues <- TwoIssues
    Order <- Listed
    MaxFix = 0
    Subtasks = 1
    Verdicts = {"implement", "ask"}
    Commands = {"resume"}
    Moves = {}
    Reviews = {}
    Faults = {}
PROPERTIES
    AnswerIsActedOn
