\* Two situations: an order to bid for, and one to fill beside one that is only watched.
SPECIFICATION SituationSpec
CONSTANTS
    Orders <- BidFillAndWatched
    Chains <- BidFillAndWatched
    Dest <- ToEach
    SolverSelection <- Selecting
    WatchOnly <- Watched
    Strategies <- AStrategy
    Pricing <- AStrategy
    Policies <- AStrategy
    MaxConcurrentOrders = 2
    MaxCrashes = 2
    MaxRows = 2
    MaxRetractions = 2
    CanStop = TRUE
INVARIANTS TypeOK DepositsAccountedFor PendingHasExecution QueuedRetractionsRecorded WatchOnlyNeverFilled
PROPERTY BidsEventuallyRetracted
CHECK_DEADLOCK FALSE
