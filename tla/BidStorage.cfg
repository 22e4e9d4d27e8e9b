SPECIFICATION Spec
CONSTANTS
    Commitments = {c1, c2}
    TicksPerDay = 4
    MaxAge = 2
    MaxRows = 3
    Horizon = 8
INVARIANTS TypeOK StaleBidsAreFound RetractedReportedOnce
PROPERTY RetractionIsFinal
CHECK_DEADLOCK FALSE
