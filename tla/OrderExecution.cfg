\* An order of three, bid for in parts; two executions of it.
SPECIFICATION Spec
CONSTANTS
    o1 = o1
    o2 = o2
    o3 = o3
    Ops = {o1, o2, o3}
    Offer <- MCOffer
    Target = 3
    MinBids = 2
    Deadline = 1
    MaxLives = 2
INVARIANTS TypeOK RecordedOpsNotRetried TotalsComplete
PROPERTIES ReportsAreTrue ExecutionEnds
CHECK_DEADLOCK FALSE
