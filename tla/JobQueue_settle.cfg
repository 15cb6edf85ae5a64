SPECIFICATION FairSpec
CONSTANTS
    MaxJob = 2
    Request <- TranscodesOnly
    Entry = {1}
    FlavorOf <- OwnFlavor
    MaxAttempts <- OneAttempt
    AttemptBound = 3
    Worker = {w1, w2}
    NoWorker = NoWorker
    Concurrency = 1
    Scenario = {"crash", "timeout"}
INVARIANTS AbandonedOnlyByAbort
PROPERTIES JobsSettle
CHECK_DEADLOCK FALSE
