SPECIFICATION FairSpec
CONSTANTS
    NoSave = NoSave
    Results = {"ok", "error", "throw"}
    MaxChanges = 5
INVARIANTS PendingHasDriver SavedInOrder FinalizedIsSaved
PROPERTIES FinalizeAnswered
CHECK_DEADLOCK FALSE
