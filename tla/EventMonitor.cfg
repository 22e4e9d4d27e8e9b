\* One chain of height 2 that grows to 4, ranges of two blocks, one stop.
SPECIFICATION Spec
CONSTANTS
    Chains = {chain}
    LogKinds = {"placed", "filled", "otherFill", "unreadable"}
    MaxHeight = 4
    MaxBlockRange = 1
    StartHeights = {2}
    MaxStops = 1
INVARIANTS TypeOK ScannedLogsEmitted EmittedOnce
PROPERTY LogsEventuallyEmitted
CHECK_DEADLOCK FALSE
