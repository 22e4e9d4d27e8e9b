\* Two checks that may overlap, an order and a fault.
SPECIFICATION Spec
CONSTANTS
    ChainIds <- MCChainIds
    Assets = {"USDC", "USDT"}
    Base <- MCBase
    Starts <- MCStarts
    TriggerPercent = 50
    CentUnits = 2
    Slots = {1, 2}
    Orders <- MCOrders
    MaxFaults = 1
    MaxDisturbances = 1
INVARIANTS TypeOK GreedyIsExact
PROPERTIES UndisturbedKeepsBase Refilled
CHECK_DEADLOCK FALSE
