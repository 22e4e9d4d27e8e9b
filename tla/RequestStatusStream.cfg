\* Every route, both kinds of destination, indexers that are punctual or not.
SPECIFICATION Spec
CONSTANTS
    Routes = {"relayed", "toHyperbridge", "fromHyperbridge"}
    MaxHeight = 2
INVARIANTS TypeOK StatusesAreTrue YieldedBlocksMatch
PROPERTY HandledRequestsEnd
CHECK_DEADLOCK FALSE
