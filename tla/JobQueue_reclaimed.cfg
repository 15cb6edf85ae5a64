SPECIFICATION Spec
CONSTANTS
    MaxJob = 2
    Request <- MixedRequests
    Entry = {1}
    FlavorOf <- OwnFlavor
    MaxAttempts <- OneAttempt
    AttemptBound = 2
    Worker = {w1, w2}
    NoWorker = NoWorker
    Concurrency = 1
    Scenario = {}
PROPERTIES OnlyDeadWorkersLoseJobs
CHECK_DEADLOCK FALSE
