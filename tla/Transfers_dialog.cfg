SPECIFICATION Spec
CONSTANTS
    File = {1, 2}
    Id = {1, 2}
    MaxBatch = 2
    Url = {1, 2}
    UrlId = {1, 2}
    Slot = {1, 2}
    Selection <- Selections
    Accepted <- Answers
    MaxChecks = 1
    Scenario <- Mixed
INVARIANTS TransfersTypeOK LoopsWait NothingListedTwice
PROPERTIES NewsKept BatchFinishesJob DownloadFinishes
CHECK_DEADLOCK FALSE
