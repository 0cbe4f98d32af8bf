\* Two workers with one checkout.
SPECIFICATION Spec
CONSTANTS
    Workers = {"w1", "w2"}
    NoWorker = "nobody"
    Gone = "w0"
    Issues <- TwoIssues
    Rank <- Scores
    Checkout <- OneOfBoth
    Heartbeats = FALSE
    MaxFaults = 0
INVARIANTS
    CheckoutIsSerial
CHECK_DEADLOCK FALSE
