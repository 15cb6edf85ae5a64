SPECIFICATION Spec
CONSTANTS
    Row = {1, 2, 3, 4}
    Text = {"", "a"}
    Limits <- Bounds
    Stay <- Stays
    Entry = {1, 2, 3}
    Matching = {1, 3}
    PageSize = 2
    Value = {1, 2}
    MaxFlows = 2
    Meta = {"old", "new"}
    Flavor = {"low"}
    Visit <- EntryBounds
    Call = {me, poll, save}
    Picky = {save}
    Nobody = nobody
    Word = {"", "x"}
    Shelf = {"all", "talks"}
    Length <- Lengths
    MaxChoices = 3
    FlushEvery = 2
    MaxSeconds = 4
    MaxDeeds = 4
    Visits <- Everything
    Pages <- AllPages
INVARIANTS SiteTypeOK QuietListIsServer OneRowPerSave FreshParentsKeepTree SwitchNotUndone UnsavedIsEdited LockedFlavors SignInShown LibraryInOrder WatchAccounted
PROPERTIES BulkDeleteFinishes ProcessingShown GateHolds
CHECK_DEADLOCK FALSE
