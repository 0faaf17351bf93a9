SPECIFICATION FairSpec
CONSTANTS
    MaxSessions = 1
    Sizes <- sizes
    MaxWrite = 1
    MaxBytes = 3
    MaxEvents = 1
    HandlerThrows = TRUE
INVARIANTS SentInOrder
PROPERTIES NothingAfterError LossReported CountReturns
CHECK_DEADLOCK FALSE
