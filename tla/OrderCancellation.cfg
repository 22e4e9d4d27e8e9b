\* Every way to cancel, two interruptions, and requests to lose one of.
SPECIFICATION Spec
CONSTANTS
    Paths = {"source", "sourceV1", "sameChain", "dest"}
    MaxHeight = 2
    MaxRequests = 3
    MaxInterrupts = 2
INVARIANTS TypeOK RequestsAccountedFor ProofsBelong CompleteMeansRefundable
PROPERTIES CancellationEnds
CHECK_DEADLOCK FALSE
