SPECIFICATION FairSpec
CONSTANTS
    MaxJob = 1
    Request <- MixedRequests
    Entry = {1}
    FlavorOf <- OwnFlavor
    MaxAttempts <- OneAttempt
    AttemptBound = 2
    Worker = {w1, w2}
    NoWorker = NoWorker
    Concurrency = 1
    Scenario = {"cancel"}
PROPERTIES CancelTakesEffect
CHECK_DEADLOCK FALSE
