\* From the destination, never interrupted.
SPECIFICATION Spec
CONSTANTS
    Paths = {"dest"}
    MaxHeight = 1
    MaxRequests = 2
    MaxInterrupts = 0
INVARIANTS NotResubmitted
CHECK_DEADLOCK FALSE
