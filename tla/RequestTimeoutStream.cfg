\* Every route, a destination that is an EVM chain, indexers that are punctual or
\* not. Hyperbridge has room for a delivery, a block after the timeout and the timeout.
SPECIFICATION TimeoutSpec
CONSTANTS
    Routes = {"relayed", "toHyperbridge", "fromHyperbridge"}
    MaxHeight = 3
INVARIANTS TimeoutTypeOK TimeoutsProvable
PROPERTY TimeoutsAreProved
CHECK_DEADLOCK FALSE
