\* Two orders on one chain; the operator stops the filler.
SPECIFICATION Spec
CONSTANTS
    Orders <- TwoOrders
    Chains <- OneChain
    Dest <- AllToX
    SolverSelection <- OneChain
    WatchOnly <- None
    Strategies <- RepositoryStrategies
    Pricing <- None
    Policies <- WithPolicy
    MaxConcurrentOrders = 1
    MaxCrashes = 0
    MaxRows = 2
    MaxRetractions = 2
    CanStop = TRUE
INVARIANT StoppedMeansDrained
CHECK_DEADLOCK FALSE
