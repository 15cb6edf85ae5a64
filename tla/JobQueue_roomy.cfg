SPECIFICATION Spec
CONSTANTS
    MaxJob = 2
    Request <- TranscodesOnly
    Entry = {1}
    FlavorOf <- OwnFlavor
    MaxAttempts <- OneAttempt
    AttemptBound = 2
    Worker = {w1, w2}
    NoWorker = NoWorker
    Concurrency = 2
    Scenario = {"crash", "cancel", "delete", "retry"}
SYMMETRY WorkerSymmetry
INVARIANTS HolderOwnsRow TranscodingHasJob
PROPERTIES OutcomeStands DeadLetterExhausted
CHECK_DEADLOCK FALSE
