SPECIFICATION Spec
CONSTANTS
    MaxJob = 2
    Request <- MixedRequests
    Entry = {1, 3}
    FlavorOf <- OwnFlavor
    MaxAttempts <- OneAttempt
    AttemptBound = 1
    Worker = {w1, w2}
    NoWorker = NoWorker
    Concurrency = 1
    Scenario = {"pause", "retry"}
SYMMETRY WorkerSymmetry
INVARIANTS TypeOK GuardedTranscodesAlone DownloadOverlapNeedsRevival RunningNotPaused NoLockCycle
CHECK_DEADLOCK FALSE
