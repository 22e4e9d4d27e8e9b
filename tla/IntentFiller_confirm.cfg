\* One order and the repository's strategy with a confirmation policy, BasicFiller.
SPECIFICATION Spec
CONSTANTS
    Orders <- OneOrder
    Chains <- OneChain
    Dest <- AllToX
    SolverSelection <- OneChain
    WatchOnly <- None
    Strategies <- WithPolicy
    Pricing <- None
    Policies <- WithPolicy
    MaxConcurrentOrders = 1
    MaxCrashes = 0
    MaxRows = 1
    MaxRetractions = 1
    CanStop = FALSE
INVARIANT QueuedOrdersConfirmed
CHECK_DEADLOCK FALSE
